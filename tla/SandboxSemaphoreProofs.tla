----------------------- MODULE SandboxSemaphoreProofs -----------------------
(***************************************************************************)
(* Types, the life of holder keys and the cap on calls, proved for every   *)
(* number of workers and holder ids, every cap and every timeout.          *)
(***************************************************************************)
EXTENDS SandboxSemaphore, FiniteSetTheorems, TLAPS

(* A row about to make its attempt again has one left.                     *)
RetryLeft ==
  \A w \in Workers : pc[w] = "backoff" => call[w].throttled < MaxThrottleRetries

TypeInv == TypeOK /\ RetryLeft

(* A key is at least as young as the row that holds it, rows hold keys of  *)
(* their own, and a row that has not acquired yet holds none.              *)
HeldInv ==
  /\ \A w \in Workers : holder[w] \in Holders => key[holder[w]] >= HolderTtl - age[w]
  /\ \A v, w \in Workers : v # w /\ holder[v] \in Holders => holder[v] # holder[w]
  /\ \A w \in Workers : pc[w] \in {"idle", "acquire"} => holder[w] = NoHolder

(* A row up to the end of its calls is younger than the soft limit, until  *)
(* the limit has hit it.                                                   *)
AgeInv ==
  \A w \in Workers :
    /\ pc[w] = "idle" => age[w] = 0
    /\ pc[w] = "acquire" => age[w] <= SlotWait
    /\ pc[w] \in {"prepare", "call", "backoff"} => age[w] <= SoftLimit \/ cut[w]

Counts(k) == proc[k].left > 0 /\ ~proc[k].abandoned

(* A process that counts has a key that outlives it, and a row outside its *)
(* call has no such process.                                               *)
ProcInv ==
  /\ \A k \in Holders : Counts(k) => key[k] >= proc[k].left
  /\ \A w \in Workers :
       holder[w] \in Holders /\ pc[w] \in {"prepare", "backoff", "record", "release"}
         => ~Counts(holder[w])

CapInv == Cardinality(Live) <= Cap

-----------------------------------------------------------------------------
(* The limits of limits.py nest.                                           *)
LEMMA LimitsNest ==
  /\ SoftLimit \in Nat /\ HardLimit \in Nat /\ HolderTtl \in Nat
  /\ SoftLimit < HardLimit /\ HardLimit < HolderTtl
  /\ HolderTtl - SoftLimit = HardHeadroom + TtlHeadroom
BY SemaphoreAssumption DEF SoftLimit, HardLimit, HolderTtl

(* The stages other steps of a row leave alone.                            *)
LEMMA GotoTypes ==
  ASSUME TypeOK, NEW w \in Workers, NEW s \in Stages, Goto(w, s)
  PROVE  pc' \in [Workers -> Stages] /\ spent' \in [Workers -> Nat]
BY DEF TypeOK, Goto

LEMMA EndTaskTypes ==
  ASSUME TypeOK, NEW w \in Workers, EndTask(w)
  PROVE  /\ pc' \in [Workers -> Stages] /\ spent' \in [Workers -> Nat]
         /\ age' \in [Workers -> 0 .. HardLimit]
         /\ call' \in [Workers -> [nth : 0 .. 2, throttled : 0 .. MaxThrottleRetries]]
         /\ holder' \in [Workers -> Holders \cup {NoHolder, FailOpen}]
         /\ cut' \in [Workers -> BOOLEAN]
<1>1. pc' \in [Workers -> Stages] /\ spent' \in [Workers -> Nat]
  BY GotoTypes DEF EndTask, Stages
<1>2. age' \in [Workers -> 0 .. HardLimit]
  BY LimitsNest DEF TypeOK, EndTask
<1>3. call' \in [Workers -> [nth : 0 .. 2, throttled : 0 .. MaxThrottleRetries]]
  <2>1. NoCall \in [nth : 0 .. 2, throttled : 0 .. MaxThrottleRetries]
    BY SemaphoreAssumption DEF NoCall
  <2> QED BY <2>1 DEF TypeOK, EndTask
<1> QED BY <1>1, <1>2, <1>3 DEF TypeOK, EndTask

LEMMA PostTypes ==
  ASSUME TypeInv, NEW w \in Workers,
         NEW c \in [nth : 0 .. 2, throttled : 0 .. MaxThrottleRetries], Post(w, c)
  PROVE  TypeInv'
<1>1. pc' \in [Workers -> Stages] /\ spent' \in [Workers -> Nat]
  BY GotoTypes DEF Post, TypeInv, Stages
<1>2. call' \in [Workers -> [nth : 0 .. 2, throttled : 0 .. MaxThrottleRetries]]
  BY DEF TypeInv, TypeOK, Post
<1>3. proc' \in [Holders -> [left : 0 .. Attempt, abandoned : BOOLEAN]]
  BY SemaphoreAssumption DEF TypeInv, TypeOK, Post
<1>4. TypeOK'
  BY <1>1, <1>2, <1>3 DEF TypeInv, TypeOK, Post
<1>5. RetryLeft'
  BY DEF TypeInv, TypeOK, RetryLeft, Post, Goto
<1> QED BY <1>4, <1>5 DEF TypeInv

-----------------------------------------------------------------------------
(* Types: one lemma per action.                                            *)

LEMMA StartRowTypes == ASSUME TypeInv, NEW w \in Workers, StartRow(w) PROVE TypeInv'
<1>1. TypeOK'
  BY GotoTypes DEF TypeInv, TypeOK, StartRow, Stages
<1>2. RetryLeft'
  BY DEF TypeInv, TypeOK, RetryLeft, StartRow, Goto
<1> QED BY <1>1, <1>2 DEF TypeInv

LEMMA GiveUpWaitingTypes == ASSUME TypeInv, NEW w \in Workers, GiveUpWaiting(w) PROVE TypeInv'
<1>1. TypeOK'
  BY GotoTypes DEF TypeInv, TypeOK, GiveUpWaiting, Stages
<1>2. RetryLeft'
  BY DEF TypeInv, TypeOK, RetryLeft, GiveUpWaiting, Goto
<1> QED BY <1>1, <1>2 DEF TypeInv

LEMMA PrepareFailsTypes == ASSUME TypeInv, NEW w \in Workers, PrepareFails(w) PROVE TypeInv'
<1>1. TypeOK'
  BY GotoTypes DEF TypeInv, TypeOK, PrepareFails, Stages
<1>2. RetryLeft'
  BY DEF TypeInv, TypeOK, RetryLeft, PrepareFails, Goto
<1> QED BY <1>1, <1>2 DEF TypeInv

LEMMA RecordTypes == ASSUME TypeInv, NEW w \in Workers, Record(w) PROVE TypeInv'
<1>1. TypeOK'
  BY GotoTypes DEF TypeInv, TypeOK, Record, Stages
<1>2. RetryLeft'
  BY DEF TypeInv, TypeOK, RetryLeft, Record, Goto
<1> QED BY <1>1, <1>2 DEF TypeInv

LEMMA AcquireTypes == ASSUME TypeInv, NEW w \in Workers, Acquire(w) PROVE TypeInv'
<1>1. PICK k \in Fresh : /\ key' = [key EXCEPT ![k] = HolderTtl]
                        /\ holder' = [holder EXCEPT ![w] = k]
  BY DEF Acquire
<1>2. TypeOK'
  BY <1>1, GotoTypes, LimitsNest DEF TypeInv, TypeOK, Acquire, Fresh, Stages
<1>3. RetryLeft'
  BY DEF TypeInv, TypeOK, RetryLeft, Acquire, Goto
<1> QED BY <1>2, <1>3 DEF TypeInv

LEMMA AcquireFailsOpenTypes ==
  ASSUME TypeInv, NEW w \in Workers, AcquireFailsOpen(w) PROVE TypeInv'
<1>1. key' \in [Holders -> 0 .. HolderTtl]
  BY LimitsNest DEF TypeInv, TypeOK, AcquireFailsOpen, Fresh
<1>2. faults' \in 0 .. MaxFaults
  BY SemaphoreAssumption DEF TypeInv, TypeOK, AcquireFailsOpen, Fault
<1>3. TypeOK'
  BY <1>1, <1>2, GotoTypes DEF TypeInv, TypeOK, AcquireFailsOpen, Stages
<1>4. RetryLeft'
  BY DEF TypeInv, TypeOK, RetryLeft, AcquireFailsOpen, Goto
<1> QED BY <1>3, <1>4 DEF TypeInv

LEMMA ReleaseTypes == ASSUME TypeInv, NEW w \in Workers, Release(w) PROVE TypeInv'
<1>1. key' \in [Holders -> 0 .. HolderTtl]
  BY LimitsNest DEF TypeInv, TypeOK, Release
<1>2. TypeOK'
  BY <1>1, EndTaskTypes DEF TypeInv, TypeOK, Release
<1>3. RetryLeft'
  BY DEF TypeInv, TypeOK, RetryLeft, Release, EndTask, Goto
<1> QED BY <1>2, <1>3 DEF TypeInv

LEMMA ReleaseFailsTypes == ASSUME TypeInv, NEW w \in Workers, ReleaseFails(w) PROVE TypeInv'
<1>1. faults' \in 0 .. MaxFaults
  BY SemaphoreAssumption DEF TypeInv, TypeOK, ReleaseFails, Fault
<1>2. TypeOK'
  BY <1>1, EndTaskTypes DEF TypeInv, TypeOK, ReleaseFails
<1>3. RetryLeft'
  BY DEF TypeInv, TypeOK, RetryLeft, ReleaseFails, EndTask, Goto
<1> QED BY <1>2, <1>3 DEF TypeInv

LEMMA CrashTypes == ASSUME TypeInv, NEW w \in Workers, Crash(w) PROVE TypeInv'
<1>1. faults' \in 0 .. MaxFaults
  BY SemaphoreAssumption DEF TypeInv, TypeOK, Crash, Fault
<1>2. TypeOK'
  BY <1>1, EndTaskTypes DEF TypeInv, TypeOK, Crash
<1>3. RetryLeft'
  BY DEF TypeInv, TypeOK, RetryLeft, Crash, EndTask, Goto
<1> QED BY <1>2, <1>3 DEF TypeInv

LEMMA SoftLimitInReleaseTypes ==
  ASSUME TypeInv, NEW w \in Workers, SoftLimitInRelease(w) PROVE TypeInv'
<1>1. TypeOK'
  BY EndTaskTypes DEF TypeInv, TypeOK, SoftLimitInRelease
<1>2. RetryLeft'
  BY DEF TypeInv, TypeOK, RetryLeft, SoftLimitInRelease, EndTask, Goto
<1> QED BY <1>1, <1>2 DEF TypeInv

LEMMA HardKillTypes ==
  ASSUME TypeInv, NEW w \in Workers, HardKill(w) PROVE TypeInv'
<1>1. TypeOK'
  BY EndTaskTypes DEF TypeInv, TypeOK, HardKill
<1>2. RetryLeft'
  BY DEF TypeInv, TypeOK, RetryLeft, HardKill, EndTask, Goto
<1> QED BY <1>1, <1>2 DEF TypeInv

LEMMA FirstCallTypes == ASSUME TypeInv, NEW w \in Workers, FirstCall(w) PROVE TypeInv'
BY PostTypes, SemaphoreAssumption DEF FirstCall

LEMMA ParseFailsTypes == ASSUME TypeInv, NEW w \in Workers, ParseFails(w) PROVE TypeInv'
BY PostTypes, SemaphoreAssumption DEF ParseFails

LEMMA PostAgainTypes == ASSUME TypeInv, NEW w \in Workers, PostAgain(w) PROVE TypeInv'
<1>1. [call[w] EXCEPT !.throttled = @ + 1] \in [nth : 0 .. 2, throttled : 0 .. MaxThrottleRetries]
  BY SemaphoreAssumption DEF TypeInv, TypeOK, RetryLeft, PostAgain
<1> QED BY <1>1, PostTypes DEF PostAgain

LEMMA CallReturnsTypes == ASSUME TypeInv, NEW w \in Workers, CallReturns(w) PROVE TypeInv'
<1>1. proc' \in [Holders -> [left : 0 .. Attempt, abandoned : BOOLEAN]]
  BY SemaphoreAssumption DEF TypeInv, TypeOK, CallReturns, Answered, NoProc
<1>2. TypeOK'
  BY <1>1, GotoTypes DEF TypeInv, TypeOK, CallReturns, Stages
<1>3. RetryLeft'
  BY DEF TypeInv, TypeOK, RetryLeft, CallReturns, Goto
<1> QED BY <1>2, <1>3 DEF TypeInv

LEMMA ThrottledTypes == ASSUME TypeInv, NEW w \in Workers, Throttled(w) PROVE TypeInv'
<1>1. proc' \in [Holders -> [left : 0 .. Attempt, abandoned : BOOLEAN]]
  BY SemaphoreAssumption DEF TypeInv, TypeOK, Throttled, Answered, NoProc
<1>2. TypeOK'
  BY <1>1, GotoTypes DEF TypeInv, TypeOK, Throttled, Stages
<1>3. RetryLeft'
  BY DEF TypeInv, TypeOK, RetryLeft, Throttled, Goto
<1> QED BY <1>2, <1>3 DEF TypeInv

LEMMA RetryLaterTypes == ASSUME TypeInv, NEW w \in Workers, RetryLater(w) PROVE TypeInv'
<1>1. proc' \in [Holders -> [left : 0 .. Attempt, abandoned : BOOLEAN]]
  BY SemaphoreAssumption DEF TypeInv, TypeOK, RetryLater, Answered, NoProc
<1>2. TypeOK'
  BY <1>1, GotoTypes DEF TypeInv, TypeOK, RetryLater, Stages
<1>3. RetryLeft'
  BY DEF TypeInv, TypeOK, RetryLeft, RetryLater, Goto
<1> QED BY <1>2, <1>3 DEF TypeInv

LEMMA SoftLimitHitsTypes ==
  ASSUME TypeInv, NEW w \in Workers, SoftLimitHits(w) PROVE TypeInv'
<1>1. proc' \in [Holders -> [left : 0 .. Attempt, abandoned : BOOLEAN]]
  BY DEF TypeInv, TypeOK, SoftLimitHits
<1>2. pc' \in [Workers -> Stages] /\ spent' \in [Workers -> Nat]
  BY GotoTypes DEF TypeInv, TypeOK, SoftLimitHits, Stages
<1>4. TypeOK'
  BY <1>1, <1>2 DEF TypeInv, TypeOK, SoftLimitHits
<1>3. RetryLeft'
  BY DEF TypeInv, TypeOK, RetryLeft, SoftLimitHits, Goto
<1> QED BY <1>3, <1>4 DEF TypeInv

LEMMA TickTypes == ASSUME TypeInv, Tick PROVE TypeInv'
<1>1. age' \in [Workers -> 0 .. HardLimit]
  BY LimitsNest DEF TypeInv, TypeOK, Tick, MayPass
<1>2. spent' \in [Workers -> Nat]
  BY DEF TypeInv, TypeOK, Tick
<1>3. key' \in [Holders -> 0 .. HolderTtl]
  BY LimitsNest DEF TypeInv, TypeOK, Tick, Expired
<1>4. proc' \in [Holders -> [left : 0 .. Attempt, abandoned : BOOLEAN]]
  <2>1. NoProc \in [left : 0 .. Attempt, abandoned : BOOLEAN]
    BY SemaphoreAssumption DEF NoProc
  <2>2. ASSUME NEW k \in Holders, proc[k].left > 1
        PROVE  [proc[k] EXCEPT !.left = @ - 1] \in [left : 0 .. Attempt, abandoned : BOOLEAN]
    BY <2>2, SemaphoreAssumption DEF TypeInv, TypeOK
  <2>3. proc' = [k \in Holders |-> IF proc[k].left > 1
                   THEN [proc[k] EXCEPT !.left = @ - 1] ELSE NoProc]
    BY DEF Tick
  <2> QED BY <2>1, <2>2, <2>3
<1>5. TypeOK'
  BY <1>1, <1>2, <1>3, <1>4 DEF TypeInv, TypeOK, Tick
<1>6. RetryLeft'
  BY DEF TypeInv, RetryLeft, Tick
<1> QED BY <1>5, <1>6 DEF TypeInv

LEMMA InitTypes == ASSUME Init PROVE TypeInv
<1>1. /\ NoCall \in [nth : 0 .. 2, throttled : 0 .. MaxThrottleRetries]
      /\ NoProc \in [left : 0 .. Attempt, abandoned : BOOLEAN]
  BY SemaphoreAssumption DEF NoCall, NoProc
<1>2. TypeOK
  BY <1>1, LimitsNest, SemaphoreAssumption DEF Init, TypeOK, Stages
<1>3. RetryLeft
  BY DEF Init, RetryLeft
<1> QED BY <1>2, <1>3 DEF TypeInv

LEMMA StepTypes == ASSUME TypeInv, [Next]_vars PROVE TypeInv'
<1>1. CASE Tick
  BY <1>1, TickTypes
<1>2. CASE UNCHANGED vars
  BY <1>2 DEF TypeInv, TypeOK, RetryLeft, vars, row
<1>3. ASSUME NEW w \in Workers, StartRow(w) \/ RowStep(w) \/ FaultStep(w) PROVE TypeInv'
  BY <1>3, StartRowTypes, AcquireTypes, GiveUpWaitingTypes, ReleaseTypes, FirstCallTypes,
     PrepareFailsTypes, CallReturnsTypes, ParseFailsTypes, ThrottledTypes, PostAgainTypes,
     RetryLaterTypes, RecordTypes, SoftLimitHitsTypes, SoftLimitInReleaseTypes,
     HardKillTypes, AcquireFailsOpenTypes, ReleaseFailsTypes, CrashTypes
  DEF RowStep, FaultStep
<1> QED BY <1>1, <1>2, <1>3 DEF Next

(* Every variable keeps its type: no row outlives its hard limit, no key   *)
(* its TTL and no call its timeout, under any faults.                      *)
THEOREM TypeCorrect == Spec => []TypeOK
<1>1. TypeInv => TypeOK
  BY DEF TypeInv
<1> QED BY <1>1, InitTypes, StepTypes, PTL DEF Spec

-----------------------------------------------------------------------------
(* Holder keys.                                                            *)

(* A row moves on and no key or holder changes.                            *)
LEMMA QuietHeld ==
  ASSUME HeldInv, UNCHANGED <<age, holder, key>>,
         \A w \in Workers : pc'[w] \in {"idle", "acquire"} => pc[w] \in {"idle", "acquire"}
  PROVE  HeldInv'
BY DEF HeldInv

(* A task ends: its holder id is forgotten, and its key may be deleted.    *)
LEMMA EndTaskHeld ==
  ASSUME TypeInv, HeldInv, NEW w \in Workers, EndTask(w),
         \A k \in Holders : k # holder[w] => key'[k] = key[k]
  PROVE  HeldInv'
<1>1. \A v \in Workers : v # w => holder'[v] = holder[v] /\ age'[v] = age[v] /\ pc'[v] = pc[v]
  BY DEF TypeInv, TypeOK, EndTask, Goto
<1>2. holder'[w] = NoHolder /\ NoHolder \notin Holders
  BY SemaphoreAssumption DEF TypeInv, TypeOK, EndTask
<1> QED BY <1>1, <1>2 DEF HeldInv

(* A slot is taken with a new key.                                         *)
LEMMA TakenHeld ==
  ASSUME TypeInv, HeldInv, NEW w \in Workers, NEW k \in Fresh,
         holder' = [holder EXCEPT ![w] = k], key' = [key EXCEPT ![k] = HolderTtl],
         Goto(w, "prepare"), UNCHANGED age
  PROVE  HeldInv'
<1>1. \A v \in Workers : v # w => holder'[v] = holder[v] /\ holder[v] # k /\ pc'[v] = pc[v]
  BY DEF TypeInv, TypeOK, Fresh, Held, Goto
<1>2. holder'[w] = k /\ pc'[w] = "prepare"
  BY DEF TypeInv, TypeOK, Goto
<1>3. k \in Holders /\ key'[k] = HolderTtl /\ \A h \in Holders : h # k => key'[h] = key[h]
  BY DEF TypeInv, TypeOK, Fresh
<1>4. HolderTtl >= HolderTtl - age[w]
  BY LimitsNest DEF TypeInv, TypeOK
<1> QED BY <1>1, <1>2, <1>3, <1>4 DEF HeldInv

(* A slot is done without; the key that may have been made is nobody's.    *)
LEMMA FailOpenHeld ==
  ASSUME TypeInv, HeldInv, NEW w \in Workers, AcquireFailsOpen(w)
  PROVE  HeldInv'
<1>1. \A v \in Workers : v # w => holder'[v] = holder[v] /\ pc'[v] = pc[v]
  BY DEF TypeInv, TypeOK, AcquireFailsOpen, Goto
<1>2. holder'[w] = FailOpen /\ pc'[w] = "prepare" /\ FailOpen \notin Holders
  BY SemaphoreAssumption DEF TypeInv, TypeOK, AcquireFailsOpen, Goto
<1>3. \A v \in Workers : holder[v] \in Holders => key'[holder[v]] = key[holder[v]]
  BY DEF TypeInv, TypeOK, AcquireFailsOpen, Fresh, Held
<1>4. UNCHANGED age
  BY DEF AcquireFailsOpen
<1> QED BY <1>1, <1>2, <1>3, <1>4 DEF HeldInv

(* Rows and keys age together.                                             *)
LEMMA TickHeld == ASSUME TypeInv, HeldInv, Tick PROVE HeldInv'
<1>1. ASSUME NEW w \in Workers, holder[w] \in Holders
      PROVE  key'[holder[w]] >= HolderTtl - age'[w]
  <2>1. pc[w] # "idle"
    BY <1>1, SemaphoreAssumption DEF HeldInv
  <2>2. age'[w] = age[w] + 1 /\ age[w] < HardLimit
    BY <2>1 DEF Tick, MayPass
  <2>3. key'[holder[w]] = Expired(key[holder[w]])
    BY <1>1 DEF Tick
  <2>4. key[holder[w]] >= HolderTtl - age[w]
    BY <1>1 DEF HeldInv
  <2>5. age[w] \in Nat /\ key[holder[w]] \in Nat
    BY <1>1, LimitsNest DEF TypeInv, TypeOK
  <2> QED BY <2>2, <2>3, <2>4, <2>5, LimitsNest DEF Expired
<1> QED BY <1>1 DEF HeldInv, Tick

LEMMA StepHeld == ASSUME TypeInv, HeldInv, [Next]_vars PROVE HeldInv'
<1>1. CASE Tick
  BY <1>1, TickHeld
<1>2. CASE UNCHANGED vars
  BY <1>2, QuietHeld DEF vars, row
<1>3. ASSUME NEW w \in Workers,
             \/ StartRow(w) \/ GiveUpWaiting(w) \/ PrepareFails(w) \/ FirstCall(w)
             \/ CallReturns(w) \/ ParseFails(w) \/ Throttled(w) \/ PostAgain(w)
             \/ RetryLater(w) \/ Record(w) \/ SoftLimitHits(w)
      PROVE  HeldInv'
  <2>1. UNCHANGED <<age, holder, key>>
    BY <1>3 DEF StartRow, GiveUpWaiting, PrepareFails, FirstCall, CallReturns, ParseFails,
                Throttled, PostAgain, RetryLater, Record, SoftLimitHits, Post
  <2>2. \/ StartRow(w) \/ UNCHANGED pc
        \/ \E s \in Stages \ {"idle", "acquire"} : pc' = [pc EXCEPT ![w] = s]
    BY <1>3 DEF GiveUpWaiting, PrepareFails, FirstCall, CallReturns, ParseFails,
                Throttled, PostAgain, RetryLater, Record, SoftLimitHits, Post, Goto, Stages
  <2>3. \A v \in Workers : pc'[v] \in {"idle", "acquire"} => pc[v] \in {"idle", "acquire"}
    BY <2>2 DEF TypeInv, TypeOK, StartRow, Goto
  <2> QED BY <2>1, <2>3, QuietHeld
<1>4. ASSUME NEW w \in Workers,
             \/ Release(w) \/ ReleaseFails(w) \/ SoftLimitInRelease(w)
             \/ HardKill(w) \/ Crash(w)
      PROVE  HeldInv'
  <2>1. EndTask(w)
    BY <1>4 DEF Release, ReleaseFails, SoftLimitInRelease, HardKill, Crash
  <2>2. \A k \in Holders : k # holder[w] => key'[k] = key[k]
    BY <1>4 DEF TypeInv, TypeOK, Release, ReleaseFails, SoftLimitInRelease, HardKill, Crash
  <2> QED BY <2>1, <2>2, EndTaskHeld
<1>5. ASSUME NEW w \in Workers, Acquire(w) PROVE HeldInv'
  BY <1>5, TakenHeld DEF Acquire
<1>6. ASSUME NEW w \in Workers, AcquireFailsOpen(w) PROVE HeldInv'
  BY <1>6, FailOpenHeld
<1> QED BY <1>1, <1>2, <1>3, <1>4, <1>5, <1>6 DEF Next, RowStep, FaultStep

LEMMA InitHeld == ASSUME Init PROVE HeldInv
BY SemaphoreAssumption DEF Init, HeldInv

(* limits.py's promise for every timeout, cap and number of workers: the   *)
(* key of a running row never expires, because the TTL exceeds the hard    *)
(* limit and a row holds its key for less than its own age.                *)
THEOREM HolderOutlivesItsRowHolds == Spec => []HolderOutlivesItsRow
<1>1. TypeInv /\ HeldInv => HolderOutlivesItsRow
  <2> SUFFICES ASSUME TypeInv, HeldInv, NEW w \in Workers, holder[w] \in Holders
               PROVE  key[holder[w]] > 0
    BY DEF HolderOutlivesItsRow
  <2>1. key[holder[w]] >= HolderTtl - age[w]
    BY DEF HeldInv
  <2>2. age[w] \in 0 .. HardLimit /\ key[holder[w]] \in 0 .. HolderTtl
    BY DEF TypeInv, TypeOK
  <2> QED BY <2>1, <2>2, LimitsNest
<1> QED BY <1>1, InitTypes, StepTypes, InitHeld, StepHeld, PTL DEF Spec

-----------------------------------------------------------------------------
(* The cap.  The Lua script keeps Cardinality(Live) within Cap, and every  *)
(* process that counts has a live key.                                     *)

LEMMA LiveFinite == IsFiniteSet(Live)
<1>1. Live \subseteq Holders
  BY DEF Live
<1> QED BY <1>1, FS_Subset, SemaphoreAssumption

(* Keys that expire or are deleted, or that stay.                          *)
LEMMA FewerLive ==
  ASSUME CapInv, Live' \subseteq Live
  PROVE  CapInv'
<1>1. Cardinality(Live') <= Cardinality(Live)
  BY LiveFinite, FS_Subset
<1>2. IsFiniteSet(Live')
  BY LiveFinite, FS_Subset
<1>3. Cardinality(Live) \in Nat /\ Cardinality(Live') \in Nat
  BY <1>2, LiveFinite, FS_CardinalityType
<1> QED BY <1>1, <1>3, SemaphoreAssumption DEF CapInv

(* A key is made where there is room for one.                              *)
LEMMA OneMoreLive ==
  ASSUME TypeInv, HasRoom, NEW k \in Fresh, key' = [key EXCEPT ![k] = HolderTtl]
  PROVE  CapInv'
<1>1. Live' \subseteq Live \cup {k}
  BY DEF TypeInv, TypeOK, Live
<1>2. k \notin Live
  BY DEF Live, Fresh
<1>3. IsFiniteSet(Live \cup {k}) /\ Cardinality(Live \cup {k}) = Cardinality(Live) + 1
  BY <1>2, LiveFinite, FS_AddElement
<1>4. Cardinality(Live') <= Cardinality(Live \cup {k}) /\ IsFiniteSet(Live')
  BY <1>1, <1>3, FS_Subset
<1>5. Cardinality(Live) \in Nat /\ Cardinality(Live') \in Nat
  BY <1>4, LiveFinite, FS_CardinalityType
<1> QED BY <1>3, <1>4, <1>5, SemaphoreAssumption DEF CapInv, HasRoom

LEMMA StepCap == ASSUME TypeInv, CapInv, [Next]_vars PROVE CapInv'
<1>1. CASE Tick
  <2>1. \A k \in Holders : key'[k] > 0 => key[k] > 0
    BY <1>1 DEF TypeInv, TypeOK, Tick, Expired
  <2> QED BY <2>1, FewerLive DEF Live
<1>2. ASSUME UNCHANGED key PROVE CapInv'
  BY <1>2, FewerLive DEF Live
<1>3. ASSUME NEW w \in Workers, Release(w) PROVE CapInv'
  <2>1. \A k \in Holders : key'[k] > 0 => key[k] > 0
    BY <1>3 DEF TypeInv, TypeOK, Release
  <2> QED BY <2>1, FewerLive DEF Live
<1>4. ASSUME NEW w \in Workers, Acquire(w) PROVE CapInv'
  BY <1>4, OneMoreLive DEF Acquire
<1>5. ASSUME NEW w \in Workers, AcquireFailsOpen(w) PROVE CapInv'
  BY <1>5, <1>2, OneMoreLive DEF AcquireFailsOpen
<1>6. ASSUME NEW w \in Workers, StartRow(w) \/ RowStep(w) \/ FaultStep(w),
             ~Release(w), ~Acquire(w), ~AcquireFailsOpen(w)
      PROVE  UNCHANGED key
  BY <1>6 DEF RowStep, FaultStep, StartRow, GiveUpWaiting, PrepareFails, FirstCall,
              CallReturns, ParseFails, Throttled, PostAgain, RetryLater, Record,
              SoftLimitHits, SoftLimitInRelease, HardKill, ReleaseFails, Crash, Post
<1>7. CASE UNCHANGED vars
  BY <1>7, <1>2 DEF vars
<1> QED BY <1>1, <1>2, <1>3, <1>4, <1>5, <1>6, <1>7 DEF Next

LEMMA InitCap == ASSUME Init PROVE CapInv
<1>1. Live = {}
  BY DEF Init, Live
<1> QED BY <1>1, FS_EmptySet, SemaphoreAssumption DEF CapInv

-----------------------------------------------------------------------------
(* Ages.                                                                   *)

LEMMA StepAge == ASSUME TypeInv, AgeInv, [Next]_vars PROVE AgeInv'
<1>1. CASE Tick
  <2> SUFFICES ASSUME NEW w \in Workers
               PROVE  /\ pc[w] = "idle" => age'[w] = 0
                      /\ pc[w] = "acquire" => age'[w] <= SlotWait
                      /\ pc[w] \in {"prepare", "call", "backoff"} => age'[w] <= SoftLimit \/ cut[w]
    BY <1>1 DEF AgeInv, Tick
  <2>1. age'[w] = IF pc[w] = "idle" THEN 0 ELSE age[w] + 1
    BY <1>1 DEF Tick
  <2>2. /\ pc[w] = "acquire" => age[w] < SlotWait
        /\ pc[w] \in {"prepare", "call", "backoff"} => age[w] < SoftLimit \/ cut[w]
    BY <1>1 DEF Tick, MayPass
  <2>3. age[w] \in Nat
    BY LimitsNest DEF TypeInv, TypeOK
  <2>4. SlotWait \in Nat /\ SoftLimit \in Nat
    BY SemaphoreAssumption, LimitsNest DEF SlotWait
  <2> QED BY <2>1, <2>2, <2>3, <2>4
<1>2. CASE UNCHANGED vars
  BY <1>2 DEF AgeInv, vars, row
<1>3. ASSUME NEW w \in Workers, EndTask(w) PROVE AgeInv'
  BY <1>3 DEF TypeInv, TypeOK, AgeInv, EndTask, Goto
<1>4. ASSUME NEW w \in Workers, UNCHANGED age,
             \/ StartRow(w) \/ GiveUpWaiting(w) \/ PrepareFails(w) \/ FirstCall(w)
             \/ CallReturns(w) \/ ParseFails(w) \/ Throttled(w) \/ PostAgain(w)
             \/ RetryLater(w) \/ Record(w) \/ SoftLimitHits(w) \/ Acquire(w)
             \/ AcquireFailsOpen(w)
      PROVE  AgeInv'
  <2>1. \A v \in Workers : v # w => pc'[v] = pc[v] /\ cut'[v] = cut[v]
    BY <1>4 DEF TypeInv, TypeOK, StartRow, GiveUpWaiting, PrepareFails, FirstCall,
                CallReturns, ParseFails, Throttled, PostAgain, RetryLater, Record,
                SoftLimitHits, Acquire, AcquireFailsOpen, Post, Goto
  <2>2. /\ pc'[w] # "idle" /\ (cut[w] => cut'[w])
        /\ pc'[w] = "acquire" => pc[w] = "idle"
        /\ pc'[w] \in {"prepare", "call", "backoff"} =>
             pc[w] \in {"acquire", "prepare", "call", "backoff"}
    BY <1>4 DEF TypeInv, TypeOK, StartRow, GiveUpWaiting, PrepareFails, FirstCall,
                CallReturns, ParseFails, Throttled, PostAgain, RetryLater, Record,
                SoftLimitHits, Acquire, AcquireFailsOpen, Post, Goto
  <2>3. SlotWait \in Nat /\ SlotWait <= SoftLimit /\ SoftLimit \in Nat /\ age[w] \in Nat
    BY SemaphoreAssumption, LimitsNest DEF SlotWait, SoftLimit, TypeInv, TypeOK
  <2> QED BY <1>4, <2>1, <2>2, <2>3 DEF AgeInv
<1>5. ASSUME NEW w \in Workers, StartRow(w) \/ RowStep(w) \/ FaultStep(w) PROVE AgeInv'
  BY <1>3, <1>4, <1>5
  DEF RowStep, FaultStep, StartRow, GiveUpWaiting, PrepareFails, FirstCall, CallReturns,
      ParseFails, Throttled, PostAgain, RetryLater, Record, SoftLimitHits, Acquire,
      AcquireFailsOpen, Post, Release, ReleaseFails, SoftLimitInRelease, HardKill, Crash
<1> QED BY <1>1, <1>2, <1>5 DEF Next

LEMMA InitAge == ASSUME Init PROVE AgeInv
BY LimitsNest, SemaphoreAssumption DEF Init, AgeInv, SlotWait

-----------------------------------------------------------------------------
(* Processes.                                                              *)

CountInv == TypeInv /\ HeldInv /\ AgeInv /\ ProcInv

(* A call is made: its process ends before its key expires, provided that  *)
(* the two headrooms cover an attempt.                                     *)
LEMMA PostProc ==
  ASSUME HardHeadroom + TtlHeadroom >= Attempt, CountInv, NEW w \in Workers, NEW c,
         pc[w] \in {"prepare", "call", "backoff"}, Post(w, c)
  PROVE  ProcInv'
<1>1. \A k \in Holders : proc'[k] = IF k = holder[w]
                THEN [left |-> Attempt, abandoned |-> cut[w]] ELSE proc[k]
  BY DEF Post
<1>2. holder[w] \in Holders /\ ~cut[w] => key[holder[w]] >= Attempt
  <2> HAVE holder[w] \in Holders /\ ~cut[w]
  <2>1. key[holder[w]] >= HolderTtl - age[w] /\ age[w] <= SoftLimit
    BY DEF CountInv, HeldInv, AgeInv
  <2>2. key[holder[w]] \in Nat /\ age[w] \in Nat
    BY LimitsNest DEF CountInv, TypeInv, TypeOK
  <2> QED BY <2>1, <2>2, LimitsNest, SemaphoreAssumption
<1>3. \A k \in Holders : Counts(k)' => key'[k] >= proc'[k].left
  BY <1>1, <1>2 DEF CountInv, ProcInv, Counts, Post
<1>4. pc'[w] = "call" /\ \A v \in Workers : v # w => pc'[v] = pc[v]
  BY DEF CountInv, TypeInv, TypeOK, Post, Goto
<1>5. \A v \in Workers : v # w /\ holder[v] \in Holders => proc'[holder[v]] = proc[holder[v]]
  BY <1>1 DEF CountInv, HeldInv
<1> QED BY <1>3, <1>4, <1>5 DEF CountInv, ProcInv, Counts, Post

(* A process ends or is abandoned, and its row goes on.                    *)
LEMMA EndedProc ==
  ASSUME CountInv, NEW w \in Workers, UNCHANGED <<key, holder>>,
         \A v \in Workers : v # w => pc'[v] = pc[v],
         \A k \in Holders : k # holder[w] => proc'[k] = proc[k],
         holder[w] \in Holders => ~Counts(holder[w])'
  PROVE  ProcInv'
<1>1. \A k \in Holders : Counts(k)' => k # holder[w] /\ proc'[k] = proc[k]
  BY DEF Counts
<1>2. \A k \in Holders : Counts(k)' => key'[k] >= proc'[k].left
  BY <1>1 DEF CountInv, ProcInv, Counts
<1>3. \A v \in Workers : v # w /\ holder[v] \in Holders => proc'[holder[v]] = proc[holder[v]]
  BY DEF CountInv, HeldInv
<1> QED BY <1>2, <1>3 DEF CountInv, ProcInv, Counts

(* A task ends; a key that is deleted has no process that counts.          *)
LEMMA EndTaskProc ==
  ASSUME CountInv, NEW w \in Workers, EndTask(w), UNCHANGED proc,
         \A k \in Holders : Counts(k) => key'[k] = key[k]
  PROVE  ProcInv'
<1>1. \A v \in Workers : v # w => holder'[v] = holder[v] /\ pc'[v] = pc[v]
  BY DEF CountInv, TypeInv, TypeOK, EndTask, Goto
<1>2. pc'[w] = "idle"
  BY DEF CountInv, TypeInv, TypeOK, EndTask, Goto
<1> QED BY <1>1, <1>2 DEF CountInv, ProcInv, Counts

(* A slot is taken, or done without.                                       *)
LEMMA TakenProc ==
  ASSUME CountInv, NEW w \in Workers, Acquire(w) \/ AcquireFailsOpen(w)
  PROVE  ProcInv'
<1>1. UNCHANGED proc /\ \A v \in Workers : v # w => holder'[v] = holder[v] /\ pc'[v] = pc[v]
  BY DEF CountInv, TypeInv, TypeOK, Acquire, AcquireFailsOpen, Goto
<1>2. holder'[w] \in Holders => holder'[w] \in Fresh
  BY SemaphoreAssumption DEF CountInv, TypeInv, TypeOK, Acquire, AcquireFailsOpen
<1>3. \A k \in Fresh : ~Counts(k)
  BY DEF Fresh, Counts
<1>4. \A k \in Holders : key'[k] = key[k] \/ k \in Fresh
  BY DEF CountInv, TypeInv, TypeOK, Acquire, AcquireFailsOpen
<1> QED BY <1>1, <1>2, <1>3, <1>4 DEF CountInv, ProcInv, Counts

LEMMA TickProc == ASSUME CountInv, Tick PROVE ProcInv'
<1>1. ASSUME NEW k \in Holders, Counts(k)'
      PROVE  Counts(k) /\ proc[k].left > 1 /\ proc'[k].left = proc[k].left - 1
  BY <1>1 DEF CountInv, TypeInv, TypeOK, Tick, Counts, NoProc
<1>2. ASSUME NEW k \in Holders, Counts(k)' PROVE key'[k] >= proc'[k].left
  <2>1. key[k] >= proc[k].left /\ key'[k] = Expired(key[k])
    BY <1>1, <1>2 DEF CountInv, ProcInv, Tick
  <2>2. key[k] \in Nat /\ proc[k].left \in Nat
    BY LimitsNest, SemaphoreAssumption DEF CountInv, TypeInv, TypeOK
  <2> QED BY <1>1, <1>2, <2>1, <2>2 DEF Expired
<1> QED BY <1>1, <1>2 DEF CountInv, ProcInv, Tick

LEMMA StepProc ==
  ASSUME HardHeadroom + TtlHeadroom >= Attempt, CountInv, [Next]_vars
  PROVE  ProcInv'
<1>1. CASE Tick
  BY <1>1, TickProc
<1>2. CASE UNCHANGED vars
  BY <1>2 DEF CountInv, ProcInv, Counts, vars, row
<1>3. ASSUME NEW w \in Workers, FirstCall(w) \/ ParseFails(w) \/ PostAgain(w) PROVE ProcInv'
  BY <1>3, PostProc DEF FirstCall, ParseFails, PostAgain
<1>4. ASSUME NEW w \in Workers, CallReturns(w) \/ Throttled(w) \/ RetryLater(w) PROVE ProcInv'
  <2>1. /\ UNCHANGED <<key, holder>>
        /\ \A v \in Workers : v # w => pc'[v] = pc[v]
        /\ proc' = [k \in Holders |-> IF k = holder[w] THEN NoProc ELSE proc[k]]
    BY <1>4 DEF CountInv, TypeInv, TypeOK, CallReturns, Throttled, RetryLater, Goto, Answered
  <2> QED BY <2>1, EndedProc DEF Counts, NoProc
<1>5. ASSUME NEW w \in Workers, SoftLimitHits(w) PROVE ProcInv'
  <2>1. /\ UNCHANGED <<key, holder>>
        /\ \A v \in Workers : v # w => pc'[v] = pc[v]
        /\ \A k \in Holders : k # holder[w] => proc'[k] = proc[k]
    BY <1>5 DEF CountInv, TypeInv, TypeOK, SoftLimitHits, Goto
  <2>2. holder[w] \in Holders => ~Counts(holder[w])'
    BY <1>5 DEF CountInv, TypeInv, TypeOK, SoftLimitHits, Counts
  <2> QED BY <2>1, <2>2, EndedProc
<1>6. ASSUME NEW w \in Workers,
             StartRow(w) \/ GiveUpWaiting(w) \/ PrepareFails(w) \/ Record(w)
      PROVE  ProcInv'
  <2>1. UNCHANGED <<key, proc, holder>> /\ \A v \in Workers : v # w => pc'[v] = pc[v]
    BY <1>6 DEF CountInv, TypeInv, TypeOK, StartRow, GiveUpWaiting, PrepareFails, Record, Goto
  <2>2. holder[w] \in Holders => ~Counts(holder[w])
    BY <1>6, SemaphoreAssumption
    DEF CountInv, HeldInv, ProcInv, StartRow, GiveUpWaiting, PrepareFails, Record
  <2>3. holder[w] \in Holders => ~Counts(holder[w])'
    BY <2>1, <2>2 DEF Counts
  <2> QED BY <2>1, <2>3, EndedProc
<1>7. ASSUME NEW w \in Workers, Release(w) PROVE ProcInv'
  <2>1. \A k \in Holders : Counts(k) => k # holder[w]
    BY <1>7 DEF CountInv, ProcInv, Release
  <2>2. \A k \in Holders : Counts(k) => key'[k] = key[k]
    BY <1>7, <2>1 DEF Release
  <2> QED BY <1>7, <2>2, EndTaskProc DEF Release
<1>8. ASSUME NEW w \in Workers,
             ReleaseFails(w) \/ SoftLimitInRelease(w) \/ HardKill(w) \/ Crash(w)
      PROVE  ProcInv'
  BY <1>8, EndTaskProc DEF ReleaseFails, SoftLimitInRelease, HardKill, Crash
<1>9. ASSUME NEW w \in Workers, Acquire(w) \/ AcquireFailsOpen(w) PROVE ProcInv'
  BY <1>9, TakenProc
<1> QED BY <1>1, <1>2, <1>3, <1>4, <1>5, <1>6, <1>7, <1>8, <1>9 DEF Next, RowStep, FaultStep

LEMMA InitProc == ASSUME Init PROVE ProcInv
BY SemaphoreAssumption DEF Init, ProcInv, Counts, NoProc

(* What AGENTIC_BATCH_MAX_CONCURRENCY promises, for every cap, number of   *)
(* workers and timeout whose attempt is no longer than the two headrooms   *)
(* of limits.py together (90 s against 60 s + 60 s by default): calls of   *)
(* killed workers included, at most Cap run for rows with a slot that the  *)
(* soft limit has not hit.                                                 *)
THEOREM CallsWithinCapHolds ==
  ASSUME HardHeadroom + TtlHeadroom >= Attempt
  PROVE  Spec => []CallsWithinCap
<1> DEFINE Inv == CountInv /\ CapInv
<1>1. Init => Inv
  BY InitTypes, InitHeld, InitAge, InitProc, InitCap DEF CountInv
<1>2. Inv /\ [Next]_vars => Inv'
  BY StepTypes, StepHeld, StepAge, StepProc, StepCap DEF CountInv
<1>3. Inv => CallsWithinCap
  <2> SUFFICES ASSUME Inv PROVE CallsWithinCap
    OBVIOUS
  <2> DEFINE Calls == {k \in Holders : proc[k].left > 0 /\ ~proc[k].abandoned}
  <2>1. \A k \in Calls : key[k] > 0
    <3> TAKE k \in Calls
    <3>1. key[k] >= proc[k].left /\ proc[k].left > 0
      BY DEF CountInv, ProcInv, Counts
    <3>2. key[k] \in Nat /\ proc[k].left \in Nat
      BY LimitsNest, SemaphoreAssumption DEF CountInv, TypeInv, TypeOK
    <3> QED BY <3>1, <3>2
  <2>2. Calls \subseteq Live
    BY <2>1 DEF Live
  <2>3. IsFiniteSet(Calls) /\ Cardinality(Calls) <= Cardinality(Live)
    BY <2>2, LiveFinite, FS_Subset
  <2>4. Cardinality(Calls) \in Nat /\ Cardinality(Live) \in Nat
    BY <2>3, LiveFinite, FS_CardinalityType
  <2> QED BY <2>3, <2>4, SemaphoreAssumption DEF CapInv, CallsWithinCap
<1> QED BY <1>1, <1>2, <1>3, PTL DEF Spec
=============================================================================
