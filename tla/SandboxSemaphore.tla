--------------------------- MODULE SandboxSemaphore ---------------------------
(***************************************************************************)
(* The Redis semaphore around calls to the claude sandbox and the time     *)
(* limits of the row tasks that hold its slots:                            *)
(* src/backend/app/title_matching/sandbox_semaphore.py, agentic/limits.py, *)
(* the retry policy of agentic/runner.py and the acquire ... finally       *)
(* release frame that agentic_match_task.py, agentic_intl_match_task.py    *)
(* and external_match_task.py share.                                       *)
(*                                                                         *)
(* Time advances in ticks, for every row and key at once, and only when    *)
(* nothing that has to happen by now is still to come (MayPass).  A        *)
(* process of the sandbox server outlives the row that asked for it:       *)
(* server.js kills it on its own timer only, never because the client has  *)
(* gone.                                                                   *)
(***************************************************************************)
EXTENDS Integers, FiniteSets

CONSTANTS
  Workers,             \* worker slots, of every worker host that shares the Redis
  Holders,             \* names for holder keys (uuid4 never repeats one in use;
                       \* enough of them that Fresh is never empty when HasRoom)
  Cap,                 \* AGENTIC_BATCH_MAX_CONCURRENCY
  Attempt,             \* AGENTIC_TIMEOUT_SECONDS, in ticks
  HardHeadroom,        \* _ROW_HARD_LIMIT_HEADROOM_SECONDS, in ticks
  TtlHeadroom,         \* _HOLDER_TTL_HEADROOM_SECONDS, in ticks
  MaxThrottleRetries,  \* AGENTIC_THROTTLE_MAX_RETRIES
  Backoff,             \* longest throttle sleep, in ticks
  Prepare,             \* longest look-up of candidates before the call, in ticks
  FaultKinds,          \* what the environment may do
  MaxFaults            \* how often

NoHolder == "none"
FailOpen == "fail-open"

ASSUME SemaphoreAssumption ==
  /\ IsFiniteSet(Workers) /\ IsFiniteSet(Holders)
  /\ NoHolder \notin Holders /\ FailOpen \notin Holders
  /\ Cap \in Nat \ {0} /\ Attempt \in Nat \ {0}
  /\ HardHeadroom \in Nat \ {0} /\ TtlHeadroom \in Nat \ {0}
  /\ MaxThrottleRetries \in Nat /\ Backoff \in Nat /\ Prepare \in Nat
  /\ MaxFaults \in Nat

VARIABLES
  pc,      \* per worker: where its row is
  age,     \* per worker: ticks since its row task started
  spent,   \* per worker: ticks in the present stage
  call,    \* per worker: which _call_sandbox (1, or 2 after a parse error)
           \* and how many throttled attempts it has made
  holder,  \* per worker: the holder id its row was given
  cut,     \* per worker: has the soft limit hit its row?
  key,     \* per holder key: remaining TTL, 0 when there is no such key
  proc,    \* per holder key: ticks the sandbox process started under it may
           \* still run, and whether the soft limit hit the row it ran for
  faults   \* faults so far

row == <<pc, age, spent, call, holder, cut>>
vars == <<row, key, proc, faults>>

-----------------------------------------------------------------------------
(* limits.py                                                               *)

SlotWait == Attempt

SoftLimit == 3 * Attempt

HardLimit == SoftLimit + HardHeadroom

TtlOfSoftLimit == SlotWait + Attempt
HolderTtl == HardLimit + TtlHeadroom

-----------------------------------------------------------------------------
NoCall == [nth |-> 0, throttled |-> 0]
NoProc == [left |-> 0, abandoned |-> FALSE]

Init ==
  /\ pc = [w \in Workers |-> "idle"]
  /\ age = [w \in Workers |-> 0]
  /\ spent = [w \in Workers |-> 0]
  /\ call = [w \in Workers |-> NoCall]
  /\ holder = [w \in Workers |-> NoHolder]
  /\ cut = [w \in Workers |-> FALSE]
  /\ key = [k \in Holders |-> 0]
  /\ proc = [k \in Holders |-> NoProc]
  /\ faults = 0

Live == {k \in Holders : key[k] > 0}
Held == {holder[w] : w \in Workers}

(* An id no key, row or process uses.                                      *)
Fresh == {k \in Holders : key[k] = 0 /\ k \notin Held /\ proc[k].left = 0}

Goto(w, label) ==
  /\ pc' = [pc EXCEPT ![w] = label]
  /\ spent' = [spent EXCEPT ![w] = 0]

(* The task ends and the worker is free for the next message.              *)
EndTask(w) ==
  /\ Goto(w, "idle")
  /\ age' = [age EXCEPT ![w] = 0]
  /\ call' = [call EXCEPT ![w] = NoCall]
  /\ holder' = [holder EXCEPT ![w] = NoHolder]
  /\ cut' = [cut EXCEPT ![w] = FALSE]

Fault(kind) ==
  /\ faults < MaxFaults
  /\ kind \in FaultKinds
  /\ faults' = faults + 1

-----------------------------------------------------------------------------
(* Acquiring and releasing                                                 *)

StartRow(w) ==
  /\ pc[w] = "idle"
  /\ Goto(w, "acquire")
  /\ UNCHANGED <<age, call, holder, cut, key, proc, faults>>

RoomForOneMore == Cardinality(Live) <= Cap

(* The Lua script: count the keys and create one, atomically.              *)
HasRoom == Cardinality(Live) < Cap

Acquire(w) ==
  /\ pc[w] = "acquire"
  /\ HasRoom
  /\ \E k \in Fresh :
       /\ key' = [key EXCEPT ![k] = HolderTtl]
       /\ holder' = [holder EXCEPT ![w] = k]
  /\ Goto(w, "prepare")
  /\ UNCHANGED <<age, call, cut, proc, faults>>

(* No slot by the deadline: TimeoutError, recorded as a failed row.        *)
GiveUpWaiting(w) ==
  /\ pc[w] = "acquire"
  /\ ~HasRoom
  /\ age[w] >= SlotWait
  /\ Goto(w, "record")
  /\ UNCHANGED <<age, call, holder, cut, key, proc, faults>>

(* Redis fails: the row goes on without a slot.  The key is there all the  *)
(* same when only the answer was lost.                                     *)
AcquireFailsOpen(w) ==
  /\ pc[w] = "acquire"
  /\ Fault("redis")
  /\ holder' = [holder EXCEPT ![w] = FailOpen]
  /\ \/ UNCHANGED key
     \/ HasRoom /\ \E k \in Fresh : key' = [key EXCEPT ![k] = HolderTtl]
  /\ Goto(w, "prepare")
  /\ UNCHANGED <<age, call, cut, proc>>

(* finally: release(holder).                                               *)
Release(w) ==
  /\ pc[w] = "release"
  /\ key' = [k \in Holders |-> IF k = holder[w] THEN 0 ELSE key[k]]
  /\ EndTask(w)
  /\ UNCHANGED <<proc, faults>>

(* Its error is swallowed, the key stays until it expires.                 *)
ReleaseFails(w) ==
  /\ pc[w] = "release"
  /\ Fault("release")
  /\ EndTask(w)
  /\ UNCHANGED <<key, proc>>

-----------------------------------------------------------------------------
(* run_agentic_match and _call_sandbox, with a slot or without             *)

(* POST /run: the server starts a process that its timer kills after       *)
(* Attempt.  It is only followed for rows with a slot.                     *)
Post(w, c) ==
  /\ Goto(w, "call")
  /\ call' = [call EXCEPT ![w] = c]
  /\ proc' = [k \in Holders |-> IF k = holder[w]
                THEN [left |-> Attempt, abandoned |-> cut[w]] ELSE proc[k]]
  /\ UNCHANGED <<age, holder, cut, key, faults>>

(* The response to the call, or its error: the process has ended.          *)
Answered(w) == proc' = [k \in Holders |-> IF k = holder[w] THEN NoProc ELSE proc[k]]

FirstCall(w) ==
  /\ pc[w] = "prepare"
  /\ Post(w, [nth |-> 1, throttled |-> 0])

PrepareFails(w) ==
  /\ pc[w] = "prepare"
  /\ Goto(w, "record")
  /\ UNCHANGED <<age, call, holder, cut, key, proc, faults>>

(* A result that parses, an error that is not retried, or the second       *)
(* result, whatever it holds.                                              *)
CallReturns(w) ==
  /\ pc[w] = "call"
  /\ Answered(w)
  /\ Goto(w, "record")
  /\ UNCHANGED <<age, call, holder, cut, key, faults>>

(* A first result without JSON is asked for once more.                     *)
ParseFails(w) ==
  /\ pc[w] = "call"
  /\ call[w].nth = 1
  /\ Post(w, [nth |-> 2, throttled |-> 0])

FastFail(w) == 2 * spent[w] < Attempt

(* A throttled attempt that failed fast is made again after a sleep ...    *)
Throttled(w) ==
  /\ pc[w] = "call"
  /\ FastFail(w) /\ call[w].throttled < MaxThrottleRetries
  /\ Answered(w)
  /\ Goto(w, "backoff")
  /\ UNCHANGED <<age, call, holder, cut, key, faults>>

PostAgain(w) ==
  /\ pc[w] = "backoff"
  /\ Post(w, [call[w] EXCEPT !.throttled = @ + 1])

(* ... and otherwise, like a timeout of the call, goes back to Celery for  *)
(* a retry of the whole row, which gives the slot back.                    *)
RetryLater(w) ==
  /\ pc[w] = "call"
  /\ Answered(w)
  /\ Goto(w, "release")
  /\ UNCHANGED <<age, call, holder, cut, key, faults>>

(* The outcome is stored, the row is counted and its job moved on.         *)
Record(w) ==
  /\ pc[w] = "record"
  /\ Goto(w, "release")
  /\ UNCHANGED <<age, call, holder, cut, key, proc, faults>>

-----------------------------------------------------------------------------
(* Time limits                                                             *)

(* SoftTimeLimitExceeded, raised once in a task.  It ends a first call and *)
(* the row is recorded as failed; it also ends a second one, where it is   *)
(* swallowed and the fallback of the first answer is recorded.  A look-up  *)
(* swallows it and the row goes on without candidates.  A row that waits   *)
(* for its slot is younger than the limit.                                 *)
SoftLimitHits(w) ==
  /\ pc[w] \in {"prepare", "call", "backoff"}
  /\ age[w] >= SoftLimit /\ ~cut[w]
  /\ \/ Goto(w, "record")
     \/ pc[w] = "prepare" /\ UNCHANGED <<pc, spent>>
  /\ cut' = [cut EXCEPT ![w] = TRUE]
  /\ proc' = [k \in Holders |-> IF k = holder[w] /\ proc[k].left > 0
                THEN [proc[k] EXCEPT !.abandoned = TRUE] ELSE proc[k]]
  /\ UNCHANGED <<age, call, holder, key, faults>>

(* In release it is swallowed before the key is deleted.                   *)
SoftLimitInRelease(w) ==
  /\ pc[w] = "release"
  /\ age[w] = SoftLimit /\ ~cut[w]
  /\ EndTask(w)
  /\ UNCHANGED <<key, proc, faults>>

(* Celery's hard limit kills the process: no finally, no release.          *)
HardKill(w) ==
  /\ pc[w] # "idle"
  /\ age[w] >= HardLimit
  /\ EndTask(w)
  /\ UNCHANGED <<key, proc, faults>>

(* The worker dies for another reason (out of memory, host, deployment).   *)
Crash(w) ==
  /\ pc[w] # "idle"
  /\ Fault("crash")
  /\ EndTask(w)
  /\ UNCHANGED <<key, proc>>

(* What has to happen before more time passes.                             *)
MayPass(w) ==
  /\ pc[w] # "idle" => age[w] < HardLimit
  /\ pc[w] \in {"prepare", "call", "backoff"} => age[w] < SoftLimit \/ cut[w]
  /\ pc[w] = "acquire" => age[w] < SlotWait /\ ~HasRoom
  /\ pc[w] = "prepare" => spent[w] < Prepare
  /\ pc[w] = "call" => spent[w] < Attempt
  /\ pc[w] = "backoff" => spent[w] < Backoff

Kept(n) == n
Overdue(n) == n - 1

(* EX: Redis drops a key whose TTL is over.                                *)
Expired(n) == IF n > 0 THEN n - 1 ELSE 0

Tick ==
  /\ \A w \in Workers : MayPass(w)
  /\ age' = [w \in Workers |-> IF pc[w] = "idle" THEN 0 ELSE age[w] + 1]
  /\ spent' = [w \in Workers |-> IF pc[w] \in {"prepare", "call", "backoff"}
                                  THEN spent[w] + 1 ELSE 0]
  /\ key' = [k \in Holders |-> Expired(key[k])]
  /\ proc' = [k \in Holders |-> IF proc[k].left > 1
                THEN [proc[k] EXCEPT !.left = @ - 1] ELSE NoProc]
  /\ UNCHANGED <<pc, call, holder, cut, faults>>

-----------------------------------------------------------------------------
RowStep(w) ==
  \/ Acquire(w) \/ GiveUpWaiting(w) \/ Release(w)
  \/ FirstCall(w) \/ PrepareFails(w) \/ CallReturns(w) \/ ParseFails(w)
  \/ Throttled(w) \/ PostAgain(w) \/ RetryLater(w) \/ Record(w)
  \/ SoftLimitHits(w) \/ SoftLimitInRelease(w) \/ HardKill(w)

FaultStep(w) == AcquireFailsOpen(w) \/ ReleaseFails(w) \/ Crash(w)

Next ==
  \/ \E w \in Workers : StartRow(w) \/ RowStep(w) \/ FaultStep(w)
  \/ Tick

Spec == Init /\ [][Next]_vars

(* Time passes, and a row that has reached a deadline acts on it.          *)
FairSpec == Spec /\ WF_vars(Tick) /\ \A w \in Workers : WF_vars(RowStep(w))

-----------------------------------------------------------------------------
(* Properties.                                                             *)

Stages == {"idle", "acquire", "prepare", "call", "backoff", "record", "release"}

(* Types: no row outlives its hard limit, no key its TTL, no call its      *)
(* timeout.                                                                *)
TypeOK ==
  /\ pc \in [Workers -> Stages]
  /\ age \in [Workers -> 0 .. HardLimit]
  /\ spent \in [Workers -> Nat]
  /\ call \in [Workers -> [nth : 0 .. 2, throttled : 0 .. MaxThrottleRetries]]
  /\ holder \in [Workers -> Holders \cup {NoHolder, FailOpen}]
  /\ cut \in [Workers -> BOOLEAN]
  /\ key \in [Holders -> 0 .. HolderTtl]
  /\ proc \in [Holders -> [left : 0 .. Attempt, abandoned : BOOLEAN]]
  /\ faults \in 0 .. MaxFaults

(* "A still-legitimately-running row is never treated as an abandoned      *)
(* holder by its own key expiring mid-flight", from acquire to release,    *)
(* through waits, retries, the soft limit and its clean-up.                *)
HolderOutlivesItsRow == \A w \in Workers : holder[w] \in Holders => key[holder[w]] > 0

(* The sandbox runs at most Cap calls for rows with a slot, calls whose    *)
(* worker was killed included, those of rows the soft limit hit excepted.  *)
CallsWithinCap ==
  Cardinality({k \in Holders : proc[k].left > 0 /\ ~proc[k].abandoned}) <= Cap

(* "One row's real wall-clock budget, worst case" fits the soft limit: no  *)
(* row that keeps to the timeout of every call is cut.                     *)
BudgetCoversTheRow == \A w \in Workers : ~cut[w]

(* A slot whose row died or whose release failed is free again: the TTL,   *)
(* not the release, guards against leaks.                                  *)
LeakedSlotsReturn ==
  \A k \in Holders : (key[k] > 0 /\ k \notin Held) ~> key[k] = 0
=============================================================================
