-------------------------- MODULE TitleBatchProofs --------------------------
(***************************************************************************)
(* The type invariant of TitleBatch, the invariant of its counters and,    *)
(* from the tokens of its messages, what becomes of the rows and of the    *)
(* output: for every upload size, set of workers and set of faults.        *)
(*                                                                         *)
(* The lemmas named after a control helper (Release, Goto, Recording,      *)
(* Return) show that it leaves the per-actor variables well typed; a lemma *)
(* XOK shows it of action X, with the data the action writes; StepTypes    *)
(* collects them.                                                          *)
(***************************************************************************)
EXTENDS TitleBatch, FiniteSetTheorems, TLAPS

ActorInv == ActorTypes /\ InHand

LEMMA ReleaseTypes ==
  ASSUME ActorInv, NEW a \in Actors, Release(a)
  PROVE  ActorInv'
<1>1. ActorTypes'
  BY SizeAssumption
  DEF ActorInv, ActorTypes, Release, Goto, Labels, NoRec, NoCas, NoTick, NoMsg, Outcomes
<1>2. InHand'
  BY DEF ActorInv, ActorTypes, InHand, Release, Goto
<1> QED BY <1>1, <1>2 DEF ActorInv

LEMMA GotoTypes ==
  ASSUME ActorInv, NEW a \in Actors, NEW l \in Labels,
         l \notin {"match", "store", "bump", "cas", "args", "publish", "f_put"},
         Goto(a, l), UNCHANGED <<msg, rec, stack, cas, tick, buf>>
  PROVE  ActorInv'
<1>1. ActorTypes'
  BY DEF ActorInv, ActorTypes, Goto
<1>2. InHand'
  BY DEF ActorInv, ActorTypes, InHand, Goto
<1> QED BY <1>1, <1>2 DEF ActorInv

LEMMA RecordingTypes ==
  ASSUME ActorInv, NEW a \in Actors, NEW r \in Rows, NEW o \in Outcomes, NEW b \in BOOLEAN,
         Recording(a, r, o, b)
  PROVE  ActorInv'
<1>1. ActorTypes'
  BY SizeAssumption DEF ActorInv, ActorTypes, Recording, Goto, Labels, Rows
<1>2. InHand'
  BY DEF ActorInv, ActorTypes, InHand, Recording, Goto
<1> QED BY <1>1, <1>2 DEF ActorInv

LEMMA ReturnTypes ==
  ASSUME ActorInv, NEW a \in Actors, NEW st \in Seq(WindowType), Return(a, st)
  PROVE  ActorInv'
<1>1. CASE st = <<>> /\ msg[a] # TickMsg
  BY <1>1, ReleaseTypes DEF Return
<1>2. CASE ~(st = <<>> /\ msg[a] # TickMsg)
  <2>1. AfterChunk(tick[a]) \in [deficit : Int, published : Nat]
    BY DEF ActorInv, ActorTypes, AfterChunk
  <2>2. /\ NoRec \in [row : Nat, outcome : Outcomes, rescue : BOOLEAN]
        /\ NoCas \in [read : 0 .. N, to : 0 .. N, attempts : 0 .. MaxAttempts]
    BY SizeAssumption DEF NoRec, NoCas, Outcomes
  <2>3. /\ stack' = [stack EXCEPT ![a] = st]
        /\ rec' = [rec EXCEPT ![a] = NoRec]
        /\ cas' = [cas EXCEPT ![a] = NoCas]
        /\ UNCHANGED <<msg, buf>>
        /\ \/ st # <<>> /\ pc' = [pc EXCEPT ![a] = "publish"] /\ UNCHANGED tick
           \/ /\ pc' = [pc EXCEPT ![a] = "topup"]
              /\ tick' = [tick EXCEPT ![a] = AfterChunk(tick[a])]
    BY <1>2 DEF Return, Goto
  <2>4. ActorTypes'
    <3>1. pc' \in [Actors -> Labels]
      BY <2>3 DEF ActorInv, ActorTypes, Labels
    <3>2. tick' \in [Actors -> [deficit : Int, published : Nat]]
      BY <2>1, <2>3 DEF ActorInv, ActorTypes
    <3>3. rec' \in [Actors -> [row : Nat, outcome : Outcomes, rescue : BOOLEAN]]
      BY <2>2, <2>3 DEF ActorInv, ActorTypes
    <3>4. cas' \in [Actors -> [read : 0 .. N, to : 0 .. N, attempts : 0 .. MaxAttempts]]
      BY <2>2, <2>3 DEF ActorInv, ActorTypes
    <3>5. stack' \in [Actors -> Seq(WindowType)]
      BY <2>3 DEF ActorInv, ActorTypes
    <3> QED BY <2>3, <3>1, <3>2, <3>3, <3>4, <3>5 DEF ActorInv, ActorTypes
  <2>5. InHand'
    BY <2>3 DEF ActorInv, ActorTypes, InHand
  <2> QED BY <2>4, <2>5 DEF ActorInv
<1> QED BY <1>1, <1>2

(* Claimed windows, and the top of a stack of them, under EXCEPT.          *)
LEMMA WindowFields ==
  ASSUME NEW w \in WindowType
  PROVE  /\ w.rows \in Seq(Rows) /\ w.found \in BOOLEAN
         /\ \A b \in BOOLEAN : [w EXCEPT !.found = b] \in WindowType
         /\ \A q \in Seq(Rows) : [w EXCEPT !.rows = q] \in WindowType
  BY DEF WindowType

LEMMA WindowStack ==
  ASSUME NEW s \in Seq(WindowType), s # <<>>
  PROVE  /\ Head(s) = s[1] /\ s[1] \in WindowType /\ Tail(s) \in Seq(WindowType)
         /\ \A w \in WindowType : [s EXCEPT ![1] = w] \in Seq(WindowType)
         /\ \A w \in WindowType : [s EXCEPT ![1] = w] # <<>>
  OBVIOUS

LEMMA MatchSucceedsOK ==
  ASSUME TypeOK, NEW a \in Actors, MatchSucceeds(a)
  PROVE  TypeOK'
<1>1. ActorInv'
  <2>1. msg[a].row \in Rows
    BY DEF TypeOK, InHand, MatchSucceeds, QueueMsgs, RowMsg, DispatchMsg, FinalizeMsg
  <2>2. PICK oc \in {"matched", "no_match"} : Recording(a, msg[a].row, oc, FALSE)
    BY DEF MatchSucceeds
  <2> QED BY <2>1, <2>2, RecordingTypes DEF TypeOK, ActorInv, Outcomes
<1>2. DataTypes'
  BY DEF TypeOK, DataTypes, MatchSucceeds, storeVars, historyVars
<1> QED BY <1>1, <1>2 DEF TypeOK, ActorInv

LEMMA MatchRetriesOK ==
  ASSUME TypeOK, NEW a \in Actors, MatchRetries(a)
  PROVE  TypeOK'
<1>1. ActorInv'
  BY ReleaseTypes DEF TypeOK, ActorInv, MatchRetries
<1>2. DataTypes'
  <2>1. RowMsg(msg[a].row, msg[a].tries + 1) \in QueueMsgs
    BY SizeAssumption
    DEF TypeOK, InHand, MatchRetries, QueueMsgs, RowMsg, DispatchMsg, FinalizeMsg
  <2> QED BY <2>1 DEF TypeOK, DataTypes, MatchRetries, Publish, storeVars, historyVars
<1> QED BY <1>1, <1>2 DEF TypeOK, ActorInv

LEMMA MatchExhaustedOK ==
  ASSUME TypeOK, NEW a \in Actors, MatchExhausted(a)
  PROVE  TypeOK'
<1>1. ActorInv'
  <2>1. msg[a].row \in Rows
    BY DEF TypeOK, InHand, MatchExhausted, QueueMsgs, RowMsg, DispatchMsg, FinalizeMsg
  <2> QED BY <2>1, RecordingTypes DEF TypeOK, ActorInv, MatchExhausted, Outcomes
<1>2. DataTypes'
  BY DEF TypeOK, DataTypes, MatchExhausted, storeVars, historyVars
<1> QED BY <1>1, <1>2 DEF TypeOK, ActorInv

LEMMA MatchBreaksOK ==
  ASSUME TypeOK, NEW a \in Actors, MatchBreaks(a)
  PROVE  TypeOK'
<1>1. ActorInv'
  <2>1. msg[a].row \in Rows
    BY DEF TypeOK, InHand, MatchBreaks, QueueMsgs, RowMsg, DispatchMsg, FinalizeMsg
  <2> QED BY <2>1, RecordingTypes DEF TypeOK, ActorInv, MatchBreaks, Outcomes
<1>2. DataTypes'
  BY DEF TypeOK, DataTypes, MatchBreaks, storeVars, historyVars
<1> QED BY <1>1, <1>2 DEF TypeOK, ActorInv

LEMMA StoreRowResultOK ==
  ASSUME TypeOK, NEW a \in Actors, StoreRowResult(a)
  PROVE  TypeOK'
<1>1. ActorInv'
  <2>1. CASE FirstWriter(rec[a].row)
    <3>1. ActorTypes'
      BY <2>1 DEF TypeOK, ActorTypes, StoreRowResult, Goto, Labels
    <3>2. InHand'
      BY <2>1 DEF TypeOK, ActorTypes, InHand, StoreRowResult, Goto
    <3> QED BY <3>1, <3>2 DEF ActorInv
  <2>2. CASE ~FirstWriter(rec[a].row)
    BY <2>2, GotoTypes DEF TypeOK, ActorInv, StoreRowResult, Labels
  <2> QED BY <2>1, <2>2
<1>2. DataTypes'
  <2>1. rec[a].outcome \in Outcomes /\ rec[a].row \in Rows
    BY DEF TypeOK, ActorTypes, InHand, StoreRowResult
  <2> QED BY <2>1 DEF TypeOK, DataTypes, StoreRowResult, historyVars
<1> QED BY <1>1, <1>2 DEF TypeOK, ActorInv

LEMMA BumpCountersOK ==
  ASSUME TypeOK, NEW a \in Actors, BumpCounters(a)
  PROVE  TypeOK'
<1>1. ActorInv'
  BY GotoTypes DEF TypeOK, ActorInv, BumpCounters, Labels
<1>2. DataTypes'
  <2>1. rec[a].outcome \in Outcomes /\ rec[a].row \in Rows
    BY DEF TypeOK, ActorTypes, InHand, BumpCounters
  <2>2. job' \in JobType
    <3>1. CASE rec[a].outcome = "matched"
      <4>1. job' = [job EXCEPT !.processed = @ + 1, !.matched = @ + 1]
        BY <3>1 DEF BumpCounters
      <4>2. job \in JobType
        BY DEF TypeOK, DataTypes
      <4>3. job.processed + 1 \in Nat /\ job.matched + 1 \in Nat
        BY <4>2 DEF JobType
      <4>4. [job EXCEPT !.processed = job.processed + 1] \in JobType
        BY <4>2, <4>3 DEF JobType
      <4>5. \A j \in JobType : \A k \in Nat : [j EXCEPT !.matched = k] \in JobType
        BY DEF JobType
      <4>6. job' = [[job EXCEPT !.processed = job.processed + 1] EXCEPT !.matched = job.matched + 1]
        BY <4>1, <4>2 DEF JobType
      <4> QED BY <4>3, <4>4, <4>5, <4>6
    <3>2. CASE rec[a].outcome = "no_match"
      <4>1. job' = [job EXCEPT !.processed = @ + 1, !.no_match = @ + 1]
        BY <3>2 DEF BumpCounters
      <4>2. job \in JobType
        BY DEF TypeOK, DataTypes
      <4>3. job.processed + 1 \in Nat /\ job.no_match + 1 \in Nat
        BY <4>2 DEF JobType
      <4>4. [job EXCEPT !.processed = job.processed + 1] \in JobType
        BY <4>2, <4>3 DEF JobType
      <4>5. \A j \in JobType : \A k \in Nat : [j EXCEPT !.no_match = k] \in JobType
        BY DEF JobType
      <4>6. job' = [[job EXCEPT !.processed = job.processed + 1] EXCEPT !.no_match = job.no_match + 1]
        BY <4>1, <4>2 DEF JobType
      <4> QED BY <4>3, <4>4, <4>5, <4>6
    <3>3. CASE rec[a].outcome = "failed"
      <4>1. job' = [job EXCEPT !.processed = @ + 1, !.failed = @ + 1]
        BY <3>3 DEF BumpCounters
      <4>2. job \in JobType
        BY DEF TypeOK, DataTypes
      <4>3. job.processed + 1 \in Nat /\ job.failed + 1 \in Nat
        BY <4>2 DEF JobType
      <4>4. [job EXCEPT !.processed = job.processed + 1] \in JobType
        BY <4>2, <4>3 DEF JobType
      <4>5. \A j \in JobType : \A k \in Nat : [j EXCEPT !.failed = k] \in JobType
        BY DEF JobType
      <4>6. job' = [[job EXCEPT !.processed = job.processed + 1] EXCEPT !.failed = job.failed + 1]
        BY <4>1, <4>2 DEF JobType
      <4> QED BY <4>3, <4>4, <4>5, <4>6
    <3> QED BY <2>1, <3>1, <3>2, <3>3 DEF Outcomes
  <2> QED BY <2>1, <2>2 DEF TypeOK, DataTypes, BumpCounters, storeVars
<1> QED BY <1>1, <1>2 DEF TypeOK, ActorInv

LEMMA ClaimFinalizeOK ==
  ASSUME TypeOK, NEW a \in Actors, ClaimFinalize(a)
  PROVE  TypeOK'
<1>1. ActorInv'
  BY GotoTypes DEF TypeOK, ActorInv, ClaimFinalize, Labels
<1>2. DataTypes'
  BY ZenonT(60) DEF TypeOK, DataTypes, ClaimFinalize, storeVars, historyVars, JobType
<1> QED BY <1>1, <1>2 DEF TypeOK, ActorInv

LEMMA PublishFinalizeOK ==
  ASSUME TypeOK, NEW a \in Actors, PublishFinalize(a)
  PROVE  TypeOK'
<1>1. ActorInv'
  <2>1. stack[a] \in Seq(WindowType) /\ Return(a, stack[a])
    BY DEF TypeOK, ActorTypes, PublishFinalize
  <2> QED BY <2>1, ReturnTypes DEF TypeOK, ActorInv
<1>2. DataTypes'
  <2>1. FinalizeMsg \in QueueMsgs
    BY DEF QueueMsgs
  <2> QED BY <2>1 DEF TypeOK, DataTypes, PublishFinalize, Publish, storeVars, historyVars
<1> QED BY <1>1, <1>2 DEF TypeOK, ActorInv

LEMMA ReadCursorOK ==
  ASSUME TypeOK, NEW a \in Actors, ReadCursor(a)
  PROVE  TypeOK'
<1>1. ActorInv'
  <2>0. Limit(a) \in Int
    BY SizeAssumption DEF TypeOK, ActorTypes, Limit, Lesser
  <2>1. CASE Return(a, stack[a])
    BY <2>1, ReturnTypes DEF TypeOK, ActorInv, ActorTypes
  <2> DEFINE c == [read |-> job.dispatched, to |-> Lesser(job.dispatched + Limit(a), N),
                   attempts |-> cas[a].attempts]
  <2>2. CASE /\ cas' = [cas EXCEPT ![a] = c] /\ Goto(a, "cas")
             /\ Limit(a) > 0 /\ cas[a].attempts # MaxAttempts
             /\ UNCHANGED <<msg, rec, stack, tick, buf>>
    <3>2. c \in [read : 0 .. N, to : 0 .. N, attempts : 0 .. MaxAttempts] /\ c.attempts < MaxAttempts
      BY <2>0, <2>2, SizeAssumption, SMTT(30) DEF TypeOK, DataTypes, ActorTypes, JobType, Lesser
    <3> HIDE DEF c
    <3>3. ActorTypes'
      BY <2>2, <3>2 DEF TypeOK, ActorTypes, Goto, Labels
    <3>4. InHand'
      BY <2>2, <3>2 DEF TypeOK, ActorTypes, InHand, Goto
    <3> QED BY <3>3, <3>4 DEF ActorInv
  <2> QED BY <2>0, <2>1, <2>2 DEF ReadCursor
<1>2. DataTypes'
  BY DEF TypeOK, DataTypes, ReadCursor, storeVars, historyVars
<1> QED BY <1>1, <1>2 DEF TypeOK, ActorInv

LEMMA WindowDoneOK ==
  ASSUME TypeOK, NEW a \in Actors, WindowDone(a)
  PROVE  TypeOK'
<1>1. ActorInv'
  <2>1. stack[a] \in Seq(WindowType) /\ stack[a] # <<>> /\ Return(a, Tail(stack[a]))
    BY DEF TypeOK, ActorTypes, InHand, WindowDone
  <2>2. Tail(stack[a]) \in Seq(WindowType)
    BY <2>1
  <2> QED BY <2>1, <2>2, ReturnTypes DEF TypeOK, ActorInv
<1>2. DataTypes'
  BY DEF TypeOK, DataTypes, WindowDone, storeVars, historyVars
<1> QED BY <1>1, <1>2 DEF TypeOK, ActorInv

LEMMA DispatchLoadOK ==
  ASSUME TypeOK, NEW a \in Actors, DispatchLoad(a)
  PROVE  TypeOK'
<1>1. ActorInv'
  BY GotoTypes DEF TypeOK, ActorInv, DispatchLoad, Labels
<1>2. DataTypes'
  BY DEF TypeOK, DataTypes, DispatchLoad, storeVars, historyVars
<1> QED BY <1>1, <1>2 DEF TypeOK, ActorInv

LEMMA CacheRowArgsOK ==
  ASSUME TypeOK, NEW a \in Actors, CacheRowArgs(a)
  PROVE  TypeOK'
<1>1. ActorInv'
  BY GotoTypes DEF TypeOK, ActorInv, CacheRowArgs, Labels
<1>2. DataTypes'
  BY DEF TypeOK, DataTypes, CacheRowArgs, storeVars, historyVars
<1> QED BY <1>1, <1>2 DEF TypeOK, ActorInv

LEMMA SweepSelectOK ==
  ASSUME TypeOK, NEW a \in Actors, SweepSelect(a)
  PROVE  TypeOK'
<1>1. ActorInv'
  BY GotoTypes DEF TypeOK, ActorInv, SweepSelect, Labels
<1>2. DataTypes'
  BY DEF TypeOK, DataTypes, SweepSelect, storeVars, historyVars
<1> QED BY <1>1, <1>2 DEF TypeOK, ActorInv

LEMMA DispatchMarkOK ==
  ASSUME TypeOK, NEW a \in Actors, DispatchMark(a)
  PROVE  TypeOK'
<1>1. ActorInv'
  BY GotoTypes DEF TypeOK, ActorInv, DispatchMark, Labels
<1>2. DataTypes'
  <2>1. 0 \in 0 .. N
    BY SizeAssumption
  <2>2. job' \in JobType
    BY <2>1 DEF TypeOK, DataTypes, DispatchMark, JobType
  <2> QED BY <2>2 DEF TypeOK, DataTypes, DispatchMark, storeVars, historyVars
<1> QED BY <1>1, <1>2 DEF TypeOK, ActorInv

LEMMA DispatchFailedOK ==
  ASSUME TypeOK, NEW a \in Actors, DispatchFailed(a)
  PROVE  TypeOK'
<1>1. ActorInv'
  BY ReleaseTypes DEF TypeOK, ActorInv, DispatchFailed
<1>2. DataTypes'
  BY DEF TypeOK, DataTypes, DispatchFailed, storeVars, historyVars, JobType
<1> QED BY <1>1, <1>2 DEF TypeOK, ActorInv

LEMMA FinalizeStartOK ==
  ASSUME TypeOK, NEW a \in Actors, FinalizeStart(a)
  PROVE  TypeOK'
<1>1. ActorInv'
  BY ReleaseTypes, GotoTypes DEF TypeOK, ActorInv, FinalizeStart, Labels
<1>2. DataTypes'
  BY DEF TypeOK, DataTypes, FinalizeStart, storeVars, historyVars
<1> QED BY <1>1, <1>2 DEF TypeOK, ActorInv

LEMMA FinalizeLoadOK ==
  ASSUME TypeOK, NEW a \in Actors, FinalizeLoad(a)
  PROVE  TypeOK'
<1>1. ActorInv'
  BY ReleaseTypes, GotoTypes DEF TypeOK, ActorInv, FinalizeLoad, Labels
<1>2. DataTypes'
  BY DEF TypeOK, DataTypes, FinalizeLoad, storeVars, historyVars
<1> QED BY <1>1, <1>2 DEF TypeOK, ActorInv

LEMMA FinalizeCollectOK ==
  ASSUME TypeOK, NEW a \in Actors, FinalizeCollect(a)
  PROVE  TypeOK'
<1>1. ActorInv'
  <2>1. [r \in Rows |-> IF results[r] = "unset" THEN "gap" ELSE results[r]]
          \in [Rows -> Outcomes \cup {"gap"}]
    BY DEF TypeOK, DataTypes
  <2>2. ActorTypes'
    BY <2>1 DEF TypeOK, ActorTypes, FinalizeCollect, Goto, Labels
  <2>3. InHand'
    BY <2>1 DEF TypeOK, ActorTypes, InHand, FinalizeCollect, Goto
  <2> QED BY <2>2, <2>3 DEF ActorInv
<1>2. DataTypes'
  BY DEF TypeOK, DataTypes, FinalizeCollect, storeVars, historyVars
<1> QED BY <1>1, <1>2 DEF TypeOK, ActorInv

LEMMA FinalizePutOK ==
  ASSUME TypeOK, NEW a \in Actors, FinalizePut(a)
  PROVE  TypeOK'
<1>1. ActorInv'
  BY GotoTypes DEF TypeOK, ActorInv, FinalizePut, Labels
<1>2. DataTypes'
  <2>1. buf[a] \in [Rows -> Outcomes \cup {"gap"}]
    BY DEF TypeOK, InHand, FinalizePut
  <2> QED BY <2>1 DEF TypeOK, DataTypes, FinalizePut, historyVars
<1> QED BY <1>1, <1>2 DEF TypeOK, ActorInv

LEMMA FinalizeCompleteOK ==
  ASSUME TypeOK, NEW a \in Actors, FinalizeComplete(a)
  PROVE  TypeOK'
<1>1. ActorInv'
  BY GotoTypes DEF TypeOK, ActorInv, FinalizeComplete, Labels
<1>2. DataTypes'
  BY DEF TypeOK, DataTypes, FinalizeComplete, storeVars, historyVars, JobType
<1> QED BY <1>1, <1>2 DEF TypeOK, ActorInv

LEMMA CleanUploadOK ==
  ASSUME TypeOK, NEW a \in Actors, CleanUpload(a)
  PROVE  TypeOK'
<1>1. ActorInv'
  BY GotoTypes DEF TypeOK, ActorInv, CleanUpload, Labels
<1>2. DataTypes'
  BY DEF TypeOK, DataTypes, CleanUpload, storeVars, historyVars
<1> QED BY <1>1, <1>2 DEF TypeOK, ActorInv

LEMMA CleanResultsOK ==
  ASSUME TypeOK, NEW a \in Actors, CleanResults(a)
  PROVE  TypeOK'
<1>1. ActorInv'
  BY GotoTypes DEF TypeOK, ActorInv, CleanResults, Labels
<1>2. DataTypes'
  BY DEF TypeOK, DataTypes, CleanResults, storeVars, historyVars
<1> QED BY <1>1, <1>2 DEF TypeOK, ActorInv

LEMMA CleanRowArgsOK ==
  ASSUME TypeOK, NEW a \in Actors, CleanRowArgs(a)
  PROVE  TypeOK'
<1>1. ActorInv'
  BY ReleaseTypes DEF TypeOK, ActorInv, CleanRowArgs
<1>2. DataTypes'
  BY DEF TypeOK, DataTypes, CleanRowArgs, storeVars, historyVars
<1> QED BY <1>1, <1>2 DEF TypeOK, ActorInv

LEMMA SweepClaimOK ==
  ASSUME TypeOK, NEW a \in Actors, SweepClaim(a)
  PROVE  TypeOK'
<1>1. ActorInv'
  BY GotoTypes DEF TypeOK, ActorInv, SweepClaim, Labels
<1>2. DataTypes'
  BY ZenonT(60) DEF TypeOK, DataTypes, SweepClaim, storeVars, historyVars, JobType
<1> QED BY <1>1, <1>2 DEF TypeOK, ActorInv

LEMMA SweepPublishOK ==
  ASSUME TypeOK, NEW a \in Actors, SweepPublish(a)
  PROVE  TypeOK'
<1>1. ActorInv'
  BY GotoTypes DEF TypeOK, ActorInv, SweepPublish, Labels
<1>2. DataTypes'
  <2>1. FinalizeMsg \in QueueMsgs
    BY DEF QueueMsgs
  <2> QED BY <2>1 DEF TypeOK, DataTypes, SweepPublish, Publish, storeVars, historyVars
<1> QED BY <1>1, <1>2 DEF TypeOK, ActorInv

LEMMA TopUpOK ==
  ASSUME TypeOK, NEW a \in Actors, TopUp(a)
  PROVE  TypeOK'
<1>1. ActorInv'
  BY ReleaseTypes, GotoTypes DEF TypeOK, ActorInv, TopUp, Labels
<1>2. DataTypes'
  BY DEF TypeOK, DataTypes, TopUp, storeVars, historyVars
<1> QED BY <1>1, <1>2 DEF TypeOK, ActorInv

LEMMA SwapCursorOK ==
  ASSUME TypeOK, NEW a \in Actors, SwapCursor(a)
  PROVE  TypeOK'
<1>1. ActorInv'
  <2>1. CASE CursorUnchanged(a)
    <3> DEFINE frame == ClaimedWindow(a)
    <3>1. cas[a].read \in 0 .. N /\ cas[a].to \in 0 .. N
      BY DEF TypeOK, ActorTypes
    <3>2. frame \in WindowType
      BY <3>1, SizeAssumption, SMTT(30) DEF WindowType, ClaimedWindow, Rows
    <3> HIDE DEF frame
    <3>3. /\ stack' = [stack EXCEPT ![a] = <<frame>> \o stack[a]]
          /\ cas' = [cas EXCEPT ![a] = NoCas]
          /\ pc' = [pc EXCEPT ![a] = "args"]
          /\ UNCHANGED <<msg, rec, tick, buf>>
      BY <2>1 DEF SwapCursor, Goto, frame
    <3>4. /\ NoCas \in [read : 0 .. N, to : 0 .. N, attempts : 0 .. MaxAttempts]
          /\ <<frame>> \o stack[a] \in Seq(WindowType) /\ <<frame>> \o stack[a] # <<>>
      BY <3>2, SizeAssumption DEF TypeOK, ActorTypes, NoCas
    <3>5. ActorTypes'
      BY <3>3, <3>4 DEF TypeOK, ActorTypes, Labels
    <3>6. InHand'
      BY <3>3, <3>4 DEF TypeOK, ActorTypes, InHand
    <3> QED BY <3>5, <3>6 DEF ActorInv
  <2>2. CASE ~CursorUnchanged(a)
    <3>1. /\ cas' = [cas EXCEPT ![a] = [read |-> 0, to |-> 0, attempts |-> cas[a].attempts + 1]]
          /\ pc' = [pc EXCEPT ![a] = "read"]
          /\ UNCHANGED <<stack, msg, rec, tick, buf>>
      BY <2>2 DEF SwapCursor, Goto
    <3>2. [read |-> 0, to |-> 0, attempts |-> cas[a].attempts + 1]
            \in [read : 0 .. N, to : 0 .. N, attempts : 0 .. MaxAttempts]
      BY SizeAssumption, SMTT(30) DEF TypeOK, ActorTypes, InHand, SwapCursor
    <3>3. ActorTypes'
      BY <3>1, <3>2 DEF TypeOK, ActorTypes, Labels
    <3>4. InHand'
      BY <3>1 DEF TypeOK, ActorTypes, InHand
    <3> QED BY <3>3, <3>4 DEF ActorInv
  <2> QED BY <2>1, <2>2
<1>2. DataTypes'
  <2>1. cas[a].to \in 0 .. N
    BY DEF TypeOK, ActorTypes
  <2> QED BY <2>1 DEF TypeOK, DataTypes, SwapCursor, JobType, storeVars, historyVars
<1> QED BY <1>1, <1>2 DEF TypeOK, ActorInv

LEMMA FetchRowArgsOK ==
  ASSUME TypeOK, NEW a \in Actors, FetchRowArgs(a)
  PROVE  TypeOK'
<1>1. ActorInv'
  <2> DEFINE st == [stack[a] EXCEPT ![1].found = rowargs \/ upload]
  <2>1. stack[a] \in Seq(WindowType) /\ stack[a] # <<>>
    BY DEF TypeOK, ActorTypes, InHand, FetchRowArgs
  <2>2. (rowargs \/ upload) \in BOOLEAN
    BY DEF TypeOK, DataTypes
  <2>3. [stack[a][1] EXCEPT !.found = rowargs \/ upload] \in WindowType
    BY <2>1, <2>2, WindowStack, WindowFields
  <2>4. st \in Seq(WindowType) /\ st # <<>>
    BY <2>1, <2>3, WindowStack
  <2>5. /\ stack' = [stack EXCEPT ![a] = st]
        /\ rec' = [rec EXCEPT ![a] = NoRec]
        /\ pc' = [pc EXCEPT ![a] = "publish"]
        /\ UNCHANGED <<msg, cas, tick, buf>>
    BY DEF FetchRowArgs, Goto, TypeOK, ActorTypes
  <2>6. NoRec \in [row : Nat, outcome : Outcomes, rescue : BOOLEAN]
    BY DEF NoRec, Outcomes
  <2> HIDE DEF st
  <2>7. ActorTypes'
    BY <2>4, <2>5, <2>6 DEF TypeOK, ActorTypes, Labels
  <2>8. InHand'
    BY <2>4, <2>5 DEF TypeOK, ActorTypes, InHand
  <2> QED BY <2>7, <2>8 DEF ActorInv
<1>2. DataTypes'
  BY DEF TypeOK, DataTypes, FetchRowArgs, storeVars, historyVars, Fault
<1> QED BY <1>1, <1>2 DEF TypeOK, ActorInv

LEMMA ArgsMissOK ==
  ASSUME TypeOK, NEW a \in Actors, ArgsMiss(a)
  PROVE  TypeOK'
<1>1. ActorInv'
  <2> DEFINE st == [stack[a] EXCEPT ![1].found = FALSE]
  <2>1. stack[a] \in Seq(WindowType) /\ stack[a] # <<>>
    BY DEF TypeOK, ActorTypes, InHand, ArgsMiss
  <2>2. (FALSE) \in BOOLEAN
    BY DEF TypeOK, DataTypes
  <2>3. [stack[a][1] EXCEPT !.found = FALSE] \in WindowType
    BY <2>1, <2>2, WindowStack, WindowFields
  <2>4. st \in Seq(WindowType) /\ st # <<>>
    BY <2>1, <2>3, WindowStack
  <2>5. /\ stack' = [stack EXCEPT ![a] = st]
        /\ rec' = [rec EXCEPT ![a] = NoRec]
        /\ pc' = [pc EXCEPT ![a] = "publish"]
        /\ UNCHANGED <<msg, cas, tick, buf>>
    BY DEF ArgsMiss, Goto, TypeOK, ActorTypes
  <2>6. NoRec \in [row : Nat, outcome : Outcomes, rescue : BOOLEAN]
    BY DEF NoRec, Outcomes
  <2> HIDE DEF st
  <2>7. ActorTypes'
    BY <2>4, <2>5, <2>6 DEF TypeOK, ActorTypes, Labels
  <2>8. InHand'
    BY <2>4, <2>5 DEF TypeOK, ActorTypes, InHand
  <2> QED BY <2>7, <2>8 DEF ActorInv
<1>2. DataTypes'
  BY DEF TypeOK, DataTypes, ArgsMiss, storeVars, historyVars, Fault
<1> QED BY <1>1, <1>2 DEF TypeOK, ActorInv

LEMMA PublishRowOK ==
  ASSUME TypeOK, NEW a \in Actors, PublishRow(a)
  PROVE  TypeOK'
<1>1. ActorInv'
  <2> DEFINE st == [stack[a] EXCEPT ![1].rows = Tail(@)]
             t == [tick[a] EXCEPT !.published =
                     IF msg[a] = TickMsg /\ Len(stack[a]) = 1 THEN @ + 1 ELSE @]
  <2>1. stack[a] \in Seq(WindowType) /\ stack[a] # <<>>
    BY DEF TypeOK, ActorTypes, InHand, PublishRow
  <2>2. stack[a][1].rows \in Seq(Rows) /\ stack[a][1].rows # <<>>
    BY <2>1, WindowStack, WindowFields DEF PublishRow
  <2>3. /\ Head(Head(stack[a]).rows) \in Rows
        /\ [stack[a][1] EXCEPT !.rows = Tail(@)] \in WindowType
    <3>1. Tail(stack[a][1].rows) \in Seq(Rows) /\ Head(stack[a][1].rows) \in Rows
      BY <2>2
    <3> QED BY <2>1, <3>1, WindowStack, WindowFields
  <2>4. st \in Seq(WindowType) /\ st # <<>>
    BY <2>1, <2>3, WindowStack
  <2>5. t \in [deficit : Int, published : Nat]
    <3>1. tick[a] \in [deficit : Int, published : Nat]
      BY DEF TypeOK, ActorTypes
    <3>2. \A k \in Nat : [tick[a] EXCEPT !.published = k] \in [deficit : Int, published : Nat]
      BY <3>1
    <3>3. tick[a].published \in Nat /\ tick[a].published + 1 \in Nat
      BY <3>1
    <3> QED BY <3>2, <3>3
  <2>6. /\ stack' = [stack EXCEPT ![a] = st]
        /\ tick' = [tick EXCEPT ![a] = t]
        /\ UNCHANGED <<pc, msg, rec, cas, buf>>
    BY DEF PublishRow, TypeOK, ActorTypes
  <2> HIDE DEF st, t
  <2>7. ActorTypes'
    BY <2>4, <2>5, <2>6 DEF TypeOK, ActorTypes
  <2>8. InHand'
    BY <2>4, <2>6 DEF TypeOK, ActorTypes, InHand
  <2> QED BY <2>7, <2>8 DEF ActorInv
<1>2. DataTypes'
  <2>1. stack[a] \in Seq(WindowType) /\ stack[a] # <<>>
    BY DEF TypeOK, ActorTypes, InHand, PublishRow
  <2>2. stack[a][1].rows \in Seq(Rows) /\ stack[a][1].rows # <<>>
    BY <2>1, WindowStack, WindowFields DEF PublishRow
  <2>3. Head(Head(stack[a]).rows) \in Rows
    BY <2>1, <2>2, WindowStack
  <2>4. RowMsg(Head(Head(stack[a]).rows), 0) \in QueueMsgs
    BY <2>3, SizeAssumption DEF QueueMsgs
  <2> QED BY <2>4 DEF TypeOK, DataTypes, PublishRow, Publish, storeVars, historyVars
<1> QED BY <1>1, <1>2 DEF TypeOK, ActorInv

LEMMA FailUnrecoverableOK ==
  ASSUME TypeOK, NEW a \in Actors, FailUnrecoverable(a)
  PROVE  TypeOK'
<1>1. ActorInv'
  <2> DEFINE st == [stack[a] EXCEPT ![1].rows = Tail(@)]
             r == [row |-> Head(Head(stack[a]).rows), outcome |-> "failed", rescue |-> FALSE]
  <2>1. stack[a] \in Seq(WindowType) /\ stack[a] # <<>>
    BY DEF TypeOK, ActorTypes, InHand, FailUnrecoverable
  <2>2. stack[a][1].rows \in Seq(Rows) /\ stack[a][1].rows # <<>>
    BY <2>1, WindowStack, WindowFields DEF FailUnrecoverable
  <2>3. /\ Head(Head(stack[a]).rows) \in Rows
        /\ [stack[a][1] EXCEPT !.rows = Tail(@)] \in WindowType
    <3>1. Tail(stack[a][1].rows) \in Seq(Rows) /\ Head(stack[a][1].rows) \in Rows
      BY <2>2
    <3> QED BY <2>1, <3>1, WindowStack, WindowFields
  <2>4. st \in Seq(WindowType)
    BY <2>1, <2>3, WindowStack
  <2>5. r \in [row : Nat, outcome : Outcomes, rescue : BOOLEAN] /\ r.row \in Rows
    BY <2>3, SizeAssumption DEF Outcomes, Rows
  <2>6. /\ stack' = [stack EXCEPT ![a] = st]
        /\ rec' = [rec EXCEPT ![a] = r]
        /\ pc' = [pc EXCEPT ![a] = "store"]
        /\ UNCHANGED <<msg, cas, tick, buf>>
    BY DEF FailUnrecoverable, Goto, TypeOK, ActorTypes
  <2> HIDE DEF st, r
  <2>7. ActorTypes'
    BY <2>4, <2>5, <2>6 DEF TypeOK, ActorTypes, Labels
  <2>8. InHand'
    BY <2>5, <2>6 DEF TypeOK, ActorTypes, InHand
  <2> QED BY <2>7, <2>8 DEF ActorInv
<1>2. DataTypes'
  BY DEF TypeOK, DataTypes, FailUnrecoverable, storeVars, historyVars
<1> QED BY <1>1, <1>2 DEF TypeOK, ActorInv

LEMMA RaiseInRowOK ==
  ASSUME TypeOK, NEW a \in Actors, RaiseInRow(a)
  PROVE  TypeOK'
<1>1. ActorInv'
  <2>1. rec[a].row \in Rows /\ "failed" \in Outcomes
    BY DEF TypeOK, InHand, RaiseInRow, Outcomes
  <2> QED BY <2>1, ReleaseTypes, RecordingTypes DEF TypeOK, ActorInv, RaiseInRow
<1>2. DataTypes'
  BY DEF TypeOK, DataTypes, RaiseInRow, storeVars, historyVars, Fault
<1> QED BY <1>1, <1>2 DEF TypeOK, ActorInv

LEMMA RaiseInUnrecoverableOK ==
  ASSUME TypeOK, NEW a \in Actors, RaiseInUnrecoverable(a)
  PROVE  TypeOK'
<1>1. ActorInv'
  <2>1. stack[a] \in Seq(WindowType) /\ Return(a, stack[a])
    BY DEF TypeOK, ActorTypes, RaiseInUnrecoverable
  <2> QED BY <2>1, ReturnTypes DEF TypeOK, ActorInv
<1>2. DataTypes'
  BY DEF TypeOK, DataTypes, RaiseInUnrecoverable, storeVars, historyVars, Fault
<1> QED BY <1>1, <1>2 DEF TypeOK, ActorInv

LEMMA RaiseInSettleOK ==
  ASSUME TypeOK, NEW a \in Actors, RaiseInSettle(a)
  PROVE  TypeOK'
<1>1. ActorInv'
  <2>1. stack[a] \in Seq(WindowType) /\ Return(a, stack[a])
    BY DEF TypeOK, ActorTypes, RaiseInSettle
  <2> QED BY <2>1, ReturnTypes DEF TypeOK, ActorInv
<1>2. DataTypes'
  BY DEF TypeOK, DataTypes, RaiseInSettle, storeVars, historyVars, Fault
<1> QED BY <1>1, <1>2 DEF TypeOK, ActorInv

LEMMA RaiseInWindowOK ==
  ASSUME TypeOK, NEW a \in Actors, RaiseInWindow(a)
  PROVE  TypeOK'
<1>1. ActorInv'
  <2> DEFINE left == IF pc[a] \in {"args", "publish"} THEN Tail(stack[a]) ELSE stack[a]
  <2>1. left \in Seq(WindowType)
    BY DEF TypeOK, ActorTypes, InHand
  <2>2. CASE Return(a, left)
    BY <2>1, <2>2, ReturnTypes DEF TypeOK, ActorInv
  <2>3. CASE /\ Goto(a, "d_failed")
             /\ stack' = [stack EXCEPT ![a] = <<>>]
             /\ rec' = [rec EXCEPT ![a] = NoRec]
             /\ cas' = [cas EXCEPT ![a] = NoCas]
             /\ UNCHANGED <<msg, tick, buf>>
    <3>1. /\ NoRec \in [row : Nat, outcome : Outcomes, rescue : BOOLEAN]
          /\ NoCas \in [read : 0 .. N, to : 0 .. N, attempts : 0 .. MaxAttempts]
          /\ <<>> \in Seq(WindowType)
      BY SizeAssumption DEF NoRec, NoCas, Outcomes
    <3>2. ActorTypes'
      BY <2>3, <3>1 DEF TypeOK, ActorTypes, Goto, Labels
    <3>3. InHand'
      BY <2>3 DEF TypeOK, ActorTypes, InHand, Goto
    <3> QED BY <3>2, <3>3 DEF ActorInv
  <2>4. CASE Release(a)
    BY <2>4, ReleaseTypes DEF TypeOK, ActorInv
  <2> QED BY <2>2, <2>3, <2>4 DEF RaiseInWindow
<1>2. DataTypes'
  <2>1. faults' = faults + 1
    BY DEF RaiseInWindow, Fault
  <2> QED BY <2>1 DEF TypeOK, DataTypes, RaiseInWindow, storeVars, historyVars
<1> QED BY <1>1, <1>2 DEF TypeOK, ActorInv

LEMMA RaiseInDispatchOK ==
  ASSUME TypeOK, NEW a \in Actors, RaiseInDispatch(a)
  PROVE  TypeOK'
<1>1. ActorInv'
  <2>1. \/ Goto(a, "read") /\ UNCHANGED <<msg, rec, stack, cas, tick, buf>>
        \/ Release(a)
        \/ Goto(a, "d_failed") /\ UNCHANGED <<msg, rec, stack, cas, tick, buf>>
    BY DEF RaiseInDispatch
  <2> QED BY <2>1, ReleaseTypes, GotoTypes DEF TypeOK, ActorInv, Labels
<1>2. DataTypes'
  BY DEF TypeOK, DataTypes, RaiseInDispatch, storeVars, historyVars, Fault
<1> QED BY <1>1, <1>2 DEF TypeOK, ActorInv

LEMMA RaiseInFinalizeOK ==
  ASSUME TypeOK, NEW a \in Actors, RaiseInFinalize(a)
  PROVE  TypeOK'
<1>1. ActorInv'
  <2>1. \/ Goto(a, "f_clean_results") /\ UNCHANGED <<msg, rec, stack, cas, tick, buf>>
        \/ Goto(a, "f_clean_rowargs") /\ UNCHANGED <<msg, rec, stack, cas, tick, buf>>
        \/ Release(a)
    BY DEF RaiseInFinalize
  <2> QED BY <2>1, ReleaseTypes, GotoTypes DEF TypeOK, ActorInv, Labels
<1>2. DataTypes'
  BY DEF TypeOK, DataTypes, RaiseInFinalize, storeVars, historyVars, Fault
<1> QED BY <1>1, <1>2 DEF TypeOK, ActorInv

LEMMA RaiseInSweepOK ==
  ASSUME TypeOK, NEW a \in Actors, RaiseInSweep(a)
  PROVE  TypeOK'
<1>1. ActorInv'
  BY GotoTypes DEF TypeOK, ActorInv, RaiseInSweep, Labels
<1>2. DataTypes'
  BY DEF TypeOK, DataTypes, RaiseInSweep, storeVars, historyVars, Fault
<1> QED BY <1>1, <1>2 DEF TypeOK, ActorInv

LEMMA CrashOK ==
  ASSUME TypeOK, NEW a \in Actors, Crash(a)
  PROVE  TypeOK'
<1>1. ActorInv'
  BY ReleaseTypes DEF TypeOK, ActorInv, Crash
<1>2. DataTypes'
  BY DEF TypeOK, DataTypes, Crash, storeVars, historyVars, Fault
<1> QED BY <1>1, <1>2 DEF TypeOK, ActorInv

LEMMA TakeOK ==
  ASSUME TypeOK, NEW a \in Actors, Take(a)
  PROVE  TypeOK'
<1>1. ActorInv'
  <2>1. PICK m \in QueueMsgs : msg' = [msg EXCEPT ![a] = m] /\ Goto(a, Entry(m.task))
                               /\ UNCHANGED <<rec, stack, cas, tick, buf>>
    BY DEF Take
  <2>2. m.task \in {"row", "dispatch", "finalize"}
    BY DEF QueueMsgs, RowMsg, DispatchMsg, FinalizeMsg
  <2>3. /\ Entry(m.task) \in {"match", "d_load", "f_start"}
        /\ Entry(m.task) = "match" => m.task = "row"
    BY <2>2 DEF Entry
  <2>4. ActorTypes'
    BY <2>1, <2>3 DEF TypeOK, ActorTypes, Goto, Labels
  <2>5. InHand'
    BY <2>1, <2>3 DEF TypeOK, ActorTypes, InHand, Goto
  <2> QED BY <2>4, <2>5 DEF ActorInv
<1>2. DataTypes'
  <2>1. PICK m \in QueueMsgs : queue[m] > 0 /\ queue' = [queue EXCEPT ![m] = @ - 1]
    BY DEF Take
  <2> QED BY <2>1 DEF TypeOK, DataTypes, Take, storeVars, historyVars
<1> QED BY <1>1, <1>2 DEF TypeOK, ActorInv

LEMMA TickStartOK ==
  ASSUME TypeOK, NEW a \in Actors, TickStart(a)
  PROVE  TypeOK'
<1>1. ActorInv'
  <2> DEFINE t == [deficit |-> IF job.status = "processing" THEN Deficit ELSE 0, published |-> 0]
  <2>1. Deficit \in Int
    BY SizeAssumption DEF TypeOK, DataTypes, JobType, Deficit, Lesser
  <2>2. t \in [deficit : Int, published : Nat]
    BY <2>1
  <2>3. /\ msg' = [msg EXCEPT ![a] = TickMsg]
        /\ tick' = [tick EXCEPT ![a] = t]
        /\ pc' = [pc EXCEPT ![a] = "sweep_select"]
        /\ UNCHANGED <<rec, stack, cas, buf>>
    BY DEF TickStart, Goto
  <2> HIDE DEF t
  <2>4. ActorTypes'
    BY <2>2, <2>3 DEF TypeOK, ActorTypes, Labels
  <2>5. InHand'
    BY <2>3 DEF TypeOK, ActorTypes, InHand
  <2> QED BY <2>4, <2>5 DEF ActorInv
<1>2. DataTypes'
  BY DEF TypeOK, DataTypes, TickStart, storeVars, historyVars
<1> QED BY <1>1, <1>2 DEF TypeOK, ActorInv

LEMMA RedeliverOK ==
  ASSUME TypeOK, NEW m \in QueueMsgs, Redeliver(m)
  PROVE  TypeOK'
<1>1. DataTypes'
  BY DEF TypeOK, DataTypes, Redeliver, Publish, Fault, storeVars, historyVars
<1>2. ActorTypes' /\ InHand'
  BY DEF TypeOK, ActorTypes, InHand, Redeliver, actorVars
<1> QED BY <1>1, <1>2 DEF TypeOK

-----------------------------------------------------------------------------
LEMMA InitTypes == ASSUME Init PROVE TypeOK
<1>1. job \in JobType
  BY SizeAssumption DEF Init, JobType
<1>2. DataTypes
  BY <1>1 DEF Init, DataTypes
<1>3. ActorTypes
  BY SizeAssumption
  DEF Init, ActorTypes, Labels, NoRec, NoCas, NoTick, NoMsg, Outcomes
<1>4. InHand
  BY DEF Init, InHand
<1> QED BY <1>2, <1>3, <1>4 DEF TypeOK

LEMMA StepTypes == ASSUME TypeOK, [Next]_vars PROVE TypeOK'
<1>1. ASSUME NEW a \in Actors, Run(a) PROVE TypeOK'
  <2>1. CASE RowStep(a)
    BY <2>1, MatchSucceedsOK, MatchRetriesOK, MatchExhaustedOK, MatchBreaksOK,
       StoreRowResultOK, BumpCountersOK, ClaimFinalizeOK, PublishFinalizeOK DEF RowStep
  <2>2. CASE WindowStep(a)
    BY <2>2, ReadCursorOK, SwapCursorOK, FetchRowArgsOK, PublishRowOK,
       FailUnrecoverableOK, WindowDoneOK DEF WindowStep
  <2>3. CASE DispatchStep(a)
    BY <2>3, DispatchLoadOK, DispatchMarkOK, CacheRowArgsOK,
       DispatchFailedOK DEF DispatchStep
  <2>4. CASE FinalizeStep(a)
    BY <2>4, FinalizeStartOK, FinalizeLoadOK, FinalizeCollectOK, FinalizePutOK,
       FinalizeCompleteOK, CleanUploadOK, CleanResultsOK, CleanRowArgsOK DEF FinalizeStep
  <2>5. CASE TickStep(a)
    BY <2>5, SweepSelectOK, SweepClaimOK, SweepPublishOK, TopUpOK DEF TickStep
  <2> QED BY <1>1, <2>1, <2>2, <2>3, <2>4, <2>5 DEF Run
<1>2. ASSUME NEW a \in Actors, Raise(a) PROVE TypeOK'
  BY <1>2, RaiseInRowOK, RaiseInUnrecoverableOK, RaiseInSettleOK, RaiseInWindowOK,
     RaiseInDispatchOK, RaiseInFinalizeOK, RaiseInSweepOK DEF Raise
<1>3. CASE UNCHANGED vars
  <2>1. DataTypes'
    BY <1>3 DEF vars, storeVars, historyVars, TypeOK, DataTypes
  <2>2. ActorTypes' /\ InHand'
    BY <1>3 DEF vars, actorVars, TypeOK, ActorTypes, InHand
  <2> QED BY <2>1, <2>2 DEF TypeOK
<1>4. ASSUME NEW a \in Workers, Take(a) PROVE TypeOK'
  BY <1>4, TakeOK DEF Actors
<1>5. ASSUME NEW a \in Beats, TickStart(a) PROVE TypeOK'
  BY <1>5, TickStartOK DEF Actors
<1> QED
  BY <1>1, <1>2, <1>3, <1>4, <1>5, CrashOK, ArgsMissOK, RedeliverOK DEF Next

(* Whatever fails, dies or is delivered twice, every variable of the job   *)
(* keeps its type, the cursor of agentic_match_task.dispatch_batch stays   *)
(* within the upload and every call has in hand the row, window or file it *)
(* works on.                                                               *)
THEOREM TypeCorrect == Spec => []TypeOK
<1>1. Init => TypeOK
  BY InitTypes
<1>2. TypeOK /\ [Next]_vars => TypeOK'
  BY StepTypes
<1> QED BY <1>1, <1>2, PTL DEF Spec

-----------------------------------------------------------------------------
(* The counters and the finalize claim: the counters never run ahead of    *)
(* the stored results, and the claim is only ever won with every row's     *)
(* result stored.  CountingInv is the inductive invariant; only five       *)
(* actions change what it speaks of, all others are quiet.                 *)


(* A quiet step leaves the counted data alone, publishes a finalize        *)
(* message only when that is already justified, and takes no actor into    *)
(* the counter bump, into finalize_batch or into a publication of it.      *)
ActorQuiet ==
  \A b \in Actors :
    /\ pc'[b] = "bump" => pc[b] = "bump" /\ rec'[b].row = rec[b].row
    /\ pc'[b] \in FinalizeLabels => pc[b] \in FinalizeLabels \/ queue[FinalizeMsg] > 0
    /\ pc'[b] = "d_empty" => pc[b] = "d_empty" \/ N = 0
    /\ pc'[b] \in {"publish_finalize", "sweep_publish"} => pc'[b] = pc[b]

DataQuiet ==
  /\ UNCHANGED <<results, counted, purged>>
  /\ job'.processed = job.processed /\ job'.claimed = job.claimed
  /\ queue'[FinalizeMsg] > 0 => queue[FinalizeMsg] > 0 \/ job.claimed \/ N = 0

LEMMA QuietStep ==
  ASSUME TypeOK, CountingInv, ActorQuiet, DataQuiet
  PROVE  CountingInv'
<1>1. /\ results' = results /\ counted' = counted /\ purged' = purged
      /\ job'.processed = job.processed /\ job'.claimed = job.claimed
      /\ Stored' = Stored
  BY DEF DataQuiet, Stored
<1>2. ~purged' => /\ counted' \subseteq Stored'
                  /\ job'.processed = Cardinality(counted')
  BY <1>1 DEF CountingInv
<1>3. ~purged' => \A a \in Actors : pc'[a] = "bump" => rec'[a].row \in Stored' \ counted'
  BY <1>1 DEF CountingInv, ActorQuiet
<1>4. ~purged' => \A a, b \in Actors :
        pc'[a] = "bump" /\ pc'[b] = "bump" /\ a # b => rec'[a].row # rec'[b].row
  BY <1>1 DEF CountingInv, ActorQuiet
<1>5. N = 0 => counted = Rows
  BY DEF TypeOK, DataTypes, Rows
<1>6. (\/ job'.claimed \/ purged' \/ queue'[FinalizeMsg] > 0
       \/ \E a \in Actors : pc'[a] \in FinalizeLabels) => counted' = Rows
  BY <1>1, <1>5 DEF CountingInv, ActorQuiet, DataQuiet
<1>7. \A a \in Actors :
        /\ pc'[a] = "d_empty" => N = 0
        /\ pc'[a] \in {"publish_finalize", "sweep_publish"} => job'.claimed
  BY <1>1 DEF CountingInv, ActorQuiet
<1> QED BY <1>2, <1>3, <1>4, <1>6, <1>7 DEF CountingInv

LEMMA GotoQuiet ==
  ASSUME TypeOK, NEW a \in Actors, NEW l, Goto(a, l), rec' = rec,
         l \notin {"bump", "d_empty", "publish_finalize", "sweep_publish"},
         l \in FinalizeLabels => pc[a] \in FinalizeLabels
  PROVE  ActorQuiet
  BY DEF TypeOK, ActorTypes, Goto, ActorQuiet

LEMMA ReleaseQuiet ==
  ASSUME TypeOK, NEW a \in Actors, Release(a)
  PROVE  ActorQuiet
  BY DEF TypeOK, ActorTypes, Release, Goto, ActorQuiet, FinalizeLabels

LEMMA RecordingQuiet ==
  ASSUME TypeOK, NEW a \in Actors, NEW r, NEW oc, NEW b, Recording(a, r, oc, b)
  PROVE  ActorQuiet
  BY DEF TypeOK, ActorTypes, Recording, Goto, ActorQuiet, FinalizeLabels

LEMMA ReturnQuiet ==
  ASSUME TypeOK, NEW a \in Actors, NEW st, Return(a, st)
  PROVE  ActorQuiet
<1>1. CASE Release(a)
  BY <1>1, ReleaseQuiet
<1>2. CASE /\ rec' = [rec EXCEPT ![a] = NoRec]
           /\ Goto(a, "publish") \/ Goto(a, "topup")
  BY <1>2 DEF TypeOK, ActorTypes, Goto, ActorQuiet, FinalizeLabels
<1> QED BY <1>1, <1>2 DEF Return

-----------------------------------------------------------------------------
LEMMA MatchSucceedsQuiet ==
  ASSUME TypeOK, CountingInv, NEW a \in Actors, MatchSucceeds(a)
  PROVE  CountingInv'
<1>1. ActorQuiet
  BY RecordingQuiet DEF MatchSucceeds
<1>2. DataQuiet
  BY DEF DataQuiet, MatchSucceeds, storeVars, historyVars
<1> QED BY <1>1, <1>2, QuietStep

LEMMA MatchRetriesQuiet ==
  ASSUME TypeOK, CountingInv, NEW a \in Actors, MatchRetries(a)
  PROVE  CountingInv'
<1>1. ActorQuiet
  BY ReleaseQuiet DEF MatchRetries
<1>2. DataQuiet
  <2>1. RowMsg(msg[a].row, msg[a].tries + 1) \in QueueMsgs /\ RowMsg(msg[a].row, msg[a].tries + 1) # FinalizeMsg
    BY SizeAssumption
    DEF TypeOK, InHand, MatchRetries, QueueMsgs, RowMsg, DispatchMsg, FinalizeMsg
  <2> QED BY <2>1 DEF DataQuiet, MatchRetries, Publish, storeVars, historyVars, TypeOK, DataTypes
<1> QED BY <1>1, <1>2, QuietStep

LEMMA MatchExhaustedQuiet ==
  ASSUME TypeOK, CountingInv, NEW a \in Actors, MatchExhausted(a)
  PROVE  CountingInv'
<1>1. ActorQuiet
  BY RecordingQuiet DEF MatchExhausted
<1>2. DataQuiet
  BY DEF DataQuiet, MatchExhausted, storeVars, historyVars
<1> QED BY <1>1, <1>2, QuietStep

LEMMA MatchBreaksQuiet ==
  ASSUME TypeOK, CountingInv, NEW a \in Actors, MatchBreaks(a)
  PROVE  CountingInv'
<1>1. ActorQuiet
  BY RecordingQuiet DEF MatchBreaks
<1>2. DataQuiet
  BY DEF DataQuiet, MatchBreaks, storeVars, historyVars
<1> QED BY <1>1, <1>2, QuietStep

LEMMA PublishFinalizeQuiet ==
  ASSUME TypeOK, CountingInv, NEW a \in Actors, PublishFinalize(a)
  PROVE  CountingInv'
<1>1. ActorQuiet
  BY ReturnQuiet DEF PublishFinalize
<1>2. DataQuiet
  <2>1. job.claimed \/ N = 0
    BY DEF CountingInv, PublishFinalize
  <2> QED BY <2>1 DEF DataQuiet, PublishFinalize, Publish, storeVars, historyVars
<1> QED BY <1>1, <1>2, QuietStep

LEMMA ReadCursorQuiet ==
  ASSUME TypeOK, CountingInv, NEW a \in Actors, ReadCursor(a)
  PROVE  CountingInv'
<1>1. ActorQuiet
  <2>1. CASE Return(a, stack[a])
    BY <2>1, ReturnQuiet
  <2>2. CASE Goto(a, "cas") /\ rec' = rec
    BY <2>2, GotoQuiet DEF FinalizeLabels
  <2> QED BY <2>1, <2>2 DEF ReadCursor
<1>2. DataQuiet
  BY DEF DataQuiet, ReadCursor, storeVars, historyVars
<1> QED BY <1>1, <1>2, QuietStep

LEMMA SwapCursorQuiet ==
  ASSUME TypeOK, CountingInv, NEW a \in Actors, SwapCursor(a)
  PROVE  CountingInv'
<1>1. ActorQuiet
  <2>1. /\ Goto(a, "args") \/ Goto(a, "read")
        /\ rec' = rec
    BY DEF SwapCursor
  <2> QED BY <2>1, GotoQuiet DEF FinalizeLabels
<1>2. DataQuiet
  <2>1. job'.processed = job.processed /\ job'.claimed = job.claimed
    BY DEF SwapCursor, TypeOK, DataTypes, JobType
  <2> QED BY <2>1 DEF DataQuiet, SwapCursor, storeVars, historyVars
<1> QED BY <1>1, <1>2, QuietStep

LEMMA FetchRowArgsQuiet ==
  ASSUME TypeOK, CountingInv, NEW a \in Actors, FetchRowArgs(a)
  PROVE  CountingInv'
<1>1. ActorQuiet
  BY DEF FetchRowArgs, Goto, ActorQuiet, FinalizeLabels, TypeOK, ActorTypes
<1>2. DataQuiet
  BY DEF DataQuiet, FetchRowArgs, storeVars, historyVars
<1> QED BY <1>1, <1>2, QuietStep

LEMMA ArgsMissQuiet ==
  ASSUME TypeOK, CountingInv, NEW a \in Actors, ArgsMiss(a)
  PROVE  CountingInv'
<1>1. ActorQuiet
  BY DEF ArgsMiss, Goto, ActorQuiet, FinalizeLabels, TypeOK, ActorTypes
<1>2. DataQuiet
  BY DEF DataQuiet, ArgsMiss, storeVars, historyVars, Fault
<1> QED BY <1>1, <1>2, QuietStep

LEMMA PublishRowQuiet ==
  ASSUME TypeOK, CountingInv, NEW a \in Actors, PublishRow(a)
  PROVE  CountingInv'
<1>1. ActorQuiet
  BY DEF PublishRow, ActorQuiet
<1>2. DataQuiet
  <2>1. RowMsg(Head(Head(stack[a]).rows), 0) \in QueueMsgs /\ RowMsg(Head(Head(stack[a]).rows), 0) # FinalizeMsg
    <3>1. stack[a] \in Seq(WindowType) /\ stack[a] # <<>>
      BY DEF TypeOK, ActorTypes, InHand, PublishRow
    <3>2. Head(stack[a]).rows \in Seq(Rows) /\ Head(stack[a]).rows # <<>>
      BY <3>1, WindowStack, WindowFields DEF PublishRow
    <3>3. Head(Head(stack[a]).rows) \in Rows
      BY <3>2
    <3> QED BY <3>3, SizeAssumption DEF QueueMsgs, RowMsg, FinalizeMsg
  <2> QED BY <2>1 DEF DataQuiet, PublishRow, Publish, storeVars, historyVars, TypeOK, DataTypes
<1> QED BY <1>1, <1>2, QuietStep

LEMMA FailUnrecoverableQuiet ==
  ASSUME TypeOK, CountingInv, NEW a \in Actors, FailUnrecoverable(a)
  PROVE  CountingInv'
<1>1. ActorQuiet
  BY DEF FailUnrecoverable, Goto, ActorQuiet, FinalizeLabels, TypeOK, ActorTypes
<1>2. DataQuiet
  BY DEF DataQuiet, FailUnrecoverable, storeVars, historyVars
<1> QED BY <1>1, <1>2, QuietStep

LEMMA WindowDoneQuiet ==
  ASSUME TypeOK, CountingInv, NEW a \in Actors, WindowDone(a)
  PROVE  CountingInv'
<1>1. ActorQuiet
  BY ReturnQuiet DEF WindowDone
<1>2. DataQuiet
  BY DEF DataQuiet, WindowDone, storeVars, historyVars
<1> QED BY <1>1, <1>2, QuietStep

LEMMA DispatchLoadQuiet ==
  ASSUME TypeOK, CountingInv, NEW a \in Actors, DispatchLoad(a)
  PROVE  CountingInv'
<1>1. ActorQuiet
  BY GotoQuiet, ReleaseQuiet DEF DispatchLoad, FinalizeLabels
<1>2. DataQuiet
  BY DEF DataQuiet, DispatchLoad, storeVars, historyVars
<1> QED BY <1>1, <1>2, QuietStep

LEMMA DispatchMarkQuiet ==
  ASSUME TypeOK, CountingInv, NEW a \in Actors, DispatchMark(a)
  PROVE  CountingInv'
<1>1. ActorQuiet
  BY DEF DispatchMark, Goto, ActorQuiet, FinalizeLabels, TypeOK, ActorTypes
<1>2. DataQuiet
  <2>1. job'.processed = job.processed /\ job'.claimed = job.claimed
    BY DEF DispatchMark, TypeOK, DataTypes, JobType
  <2> QED BY <2>1 DEF DataQuiet, DispatchMark, storeVars, historyVars
<1> QED BY <1>1, <1>2, QuietStep

LEMMA CacheRowArgsQuiet ==
  ASSUME TypeOK, CountingInv, NEW a \in Actors, CacheRowArgs(a)
  PROVE  CountingInv'
<1>1. ActorQuiet
  BY GotoQuiet DEF CacheRowArgs, FinalizeLabels
<1>2. DataQuiet
  BY DEF DataQuiet, CacheRowArgs, storeVars, historyVars
<1> QED BY <1>1, <1>2, QuietStep

LEMMA DispatchFailedQuiet ==
  ASSUME TypeOK, CountingInv, NEW a \in Actors, DispatchFailed(a)
  PROVE  CountingInv'
<1>1. ActorQuiet
  BY ReleaseQuiet DEF DispatchFailed
<1>2. DataQuiet
  BY DEF DataQuiet, DispatchFailed, storeVars, historyVars, TypeOK, DataTypes, JobType
<1> QED BY <1>1, <1>2, QuietStep

LEMMA FinalizeStartQuiet ==
  ASSUME TypeOK, CountingInv, NEW a \in Actors, FinalizeStart(a)
  PROVE  CountingInv'
<1>1. ActorQuiet
  BY GotoQuiet, ReleaseQuiet DEF FinalizeStart, FinalizeLabels
<1>2. DataQuiet
  BY DEF DataQuiet, FinalizeStart, storeVars, historyVars
<1> QED BY <1>1, <1>2, QuietStep

LEMMA FinalizeLoadQuiet ==
  ASSUME TypeOK, CountingInv, NEW a \in Actors, FinalizeLoad(a)
  PROVE  CountingInv'
<1>1. ActorQuiet
  BY GotoQuiet, ReleaseQuiet DEF FinalizeLoad, FinalizeLabels
<1>2. DataQuiet
  BY DEF DataQuiet, FinalizeLoad, storeVars, historyVars
<1> QED BY <1>1, <1>2, QuietStep

LEMMA FinalizeCollectQuiet ==
  ASSUME TypeOK, CountingInv, NEW a \in Actors, FinalizeCollect(a)
  PROVE  CountingInv'
<1>1. ActorQuiet
  BY GotoQuiet DEF FinalizeCollect, FinalizeLabels
<1>2. DataQuiet
  BY DEF DataQuiet, FinalizeCollect, storeVars, historyVars
<1> QED BY <1>1, <1>2, QuietStep

LEMMA FinalizePutQuiet ==
  ASSUME TypeOK, CountingInv, NEW a \in Actors, FinalizePut(a)
  PROVE  CountingInv'
<1>1. ActorQuiet
  BY GotoQuiet DEF FinalizePut, FinalizeLabels
<1>2. DataQuiet
  BY DEF DataQuiet, FinalizePut, storeVars, historyVars
<1> QED BY <1>1, <1>2, QuietStep

LEMMA CleanUploadQuiet ==
  ASSUME TypeOK, CountingInv, NEW a \in Actors, CleanUpload(a)
  PROVE  CountingInv'
<1>1. ActorQuiet
  BY GotoQuiet DEF CleanUpload, FinalizeLabels
<1>2. DataQuiet
  BY DEF DataQuiet, CleanUpload, storeVars, historyVars
<1> QED BY <1>1, <1>2, QuietStep

LEMMA FinalizeCompleteQuiet ==
  ASSUME TypeOK, CountingInv, NEW a \in Actors, FinalizeComplete(a)
  PROVE  CountingInv'
<1>1. ActorQuiet
  BY GotoQuiet DEF FinalizeComplete, FinalizeLabels
<1>2. DataQuiet
  BY DEF DataQuiet, FinalizeComplete, storeVars, historyVars, TypeOK, DataTypes, JobType
<1> QED BY <1>1, <1>2, QuietStep

LEMMA CleanRowArgsQuiet ==
  ASSUME TypeOK, CountingInv, NEW a \in Actors, CleanRowArgs(a)
  PROVE  CountingInv'
<1>1. ActorQuiet
  BY ReleaseQuiet DEF CleanRowArgs
<1>2. DataQuiet
  BY DEF DataQuiet, CleanRowArgs, storeVars, historyVars
<1> QED BY <1>1, <1>2, QuietStep

LEMMA SweepSelectQuiet ==
  ASSUME TypeOK, CountingInv, NEW a \in Actors, SweepSelect(a)
  PROVE  CountingInv'
<1>1. ActorQuiet
  BY GotoQuiet DEF SweepSelect, FinalizeLabels
<1>2. DataQuiet
  BY DEF DataQuiet, SweepSelect, storeVars, historyVars
<1> QED BY <1>1, <1>2, QuietStep

LEMMA SweepPublishQuiet ==
  ASSUME TypeOK, CountingInv, NEW a \in Actors, SweepPublish(a)
  PROVE  CountingInv'
<1>1. ActorQuiet
  BY GotoQuiet DEF SweepPublish, FinalizeLabels
<1>2. DataQuiet
  <2>1. job.claimed
    BY DEF CountingInv, SweepPublish
  <2> QED BY <2>1 DEF DataQuiet, SweepPublish, Publish, storeVars, historyVars
<1> QED BY <1>1, <1>2, QuietStep

LEMMA TopUpQuiet ==
  ASSUME TypeOK, CountingInv, NEW a \in Actors, TopUp(a)
  PROVE  CountingInv'
<1>1. ActorQuiet
  BY GotoQuiet, ReleaseQuiet DEF TopUp, FinalizeLabels
<1>2. DataQuiet
  BY DEF DataQuiet, TopUp, storeVars, historyVars
<1> QED BY <1>1, <1>2, QuietStep

LEMMA RaiseInRowQuiet ==
  ASSUME TypeOK, CountingInv, NEW a \in Actors, RaiseInRow(a)
  PROVE  CountingInv'
<1>1. ActorQuiet
  BY ReleaseQuiet, RecordingQuiet DEF RaiseInRow
<1>2. DataQuiet
  BY DEF DataQuiet, RaiseInRow, storeVars, historyVars
<1> QED BY <1>1, <1>2, QuietStep

LEMMA RaiseInUnrecoverableQuiet ==
  ASSUME TypeOK, CountingInv, NEW a \in Actors, RaiseInUnrecoverable(a)
  PROVE  CountingInv'
<1>1. ActorQuiet
  BY ReturnQuiet DEF RaiseInUnrecoverable
<1>2. DataQuiet
  BY DEF DataQuiet, RaiseInUnrecoverable, storeVars, historyVars
<1> QED BY <1>1, <1>2, QuietStep

LEMMA RaiseInSettleQuiet ==
  ASSUME TypeOK, CountingInv, NEW a \in Actors, RaiseInSettle(a)
  PROVE  CountingInv'
<1>1. ActorQuiet
  BY ReturnQuiet DEF RaiseInSettle
<1>2. DataQuiet
  BY DEF DataQuiet, RaiseInSettle, storeVars, historyVars
<1> QED BY <1>1, <1>2, QuietStep

LEMMA RaiseInWindowQuiet ==
  ASSUME TypeOK, CountingInv, NEW a \in Actors, RaiseInWindow(a)
  PROVE  CountingInv'
<1>1. ActorQuiet
  <2>1. \/ \E st : Return(a, st)
        \/ Goto(a, "d_failed") /\ rec' = [rec EXCEPT ![a] = NoRec]
        \/ Release(a)
    BY DEF RaiseInWindow
  <2>2. CASE Goto(a, "d_failed") /\ rec' = [rec EXCEPT ![a] = NoRec]
    BY <2>2 DEF Goto, ActorQuiet, FinalizeLabels, TypeOK, ActorTypes
  <2> QED BY <2>1, <2>2, ReturnQuiet, ReleaseQuiet
<1>2. DataQuiet
  BY DEF DataQuiet, RaiseInWindow, storeVars, historyVars
<1> QED BY <1>1, <1>2, QuietStep

LEMMA RaiseInDispatchQuiet ==
  ASSUME TypeOK, CountingInv, NEW a \in Actors, RaiseInDispatch(a)
  PROVE  CountingInv'
<1>1. ActorQuiet
  <2>1. \/ Goto(a, "read") /\ rec' = rec
        \/ Release(a)
        \/ Goto(a, "d_failed") /\ rec' = rec
    BY DEF RaiseInDispatch
  <2> QED BY <2>1, GotoQuiet, ReleaseQuiet DEF FinalizeLabels
<1>2. DataQuiet
  BY DEF DataQuiet, RaiseInDispatch, storeVars, historyVars
<1> QED BY <1>1, <1>2, QuietStep

LEMMA RaiseInFinalizeQuiet ==
  ASSUME TypeOK, CountingInv, NEW a \in Actors, RaiseInFinalize(a)
  PROVE  CountingInv'
<1>1. ActorQuiet
  <2>1. \/ Goto(a, "f_clean_results") /\ rec' = rec
        \/ Goto(a, "f_clean_rowargs") /\ rec' = rec
        \/ Release(a)
    BY DEF RaiseInFinalize
  <2>2. pc[a] \in FinalizeLabels
    BY DEF RaiseInFinalize, FinalizeLabels
  <2> QED BY <2>1, <2>2, GotoQuiet, ReleaseQuiet
<1>2. DataQuiet
  BY DEF DataQuiet, RaiseInFinalize, storeVars, historyVars
<1> QED BY <1>1, <1>2, QuietStep

LEMMA RaiseInSweepQuiet ==
  ASSUME TypeOK, CountingInv, NEW a \in Actors, RaiseInSweep(a)
  PROVE  CountingInv'
<1>1. ActorQuiet
  BY GotoQuiet DEF RaiseInSweep, FinalizeLabels
<1>2. DataQuiet
  BY DEF DataQuiet, RaiseInSweep, storeVars, historyVars
<1> QED BY <1>1, <1>2, QuietStep

LEMMA CrashQuiet ==
  ASSUME TypeOK, CountingInv, NEW a \in Actors, Crash(a)
  PROVE  CountingInv'
<1>1. ActorQuiet
  BY ReleaseQuiet DEF Crash
<1>2. DataQuiet
  BY DEF DataQuiet, Crash, storeVars, historyVars
<1> QED BY <1>1, <1>2, QuietStep

LEMMA TakeQuiet ==
  ASSUME TypeOK, CountingInv, NEW a \in Actors, Take(a)
  PROVE  CountingInv'
<1>1. ActorQuiet
  <2>1. PICK m \in QueueMsgs : queue[m] > 0 /\ Goto(a, Entry(m.task)) /\ rec' = rec
    BY DEF Take
  <2>2. /\ m.task \in {"row", "dispatch", "finalize"}
        /\ m.task = "finalize" => m = FinalizeMsg
    BY <2>1 DEF QueueMsgs, RowMsg, DispatchMsg, FinalizeMsg
  <2>3. /\ Entry(m.task) \in {"match", "d_load", "f_start"}
        /\ Entry(m.task) = "f_start" => m = FinalizeMsg
    BY <2>2 DEF Entry
  <2> QED BY <2>1, <2>3 DEF Goto, ActorQuiet, FinalizeLabels, TypeOK, ActorTypes
<1>2. DataQuiet
  <2>1. PICK m \in QueueMsgs : queue[m] > 0 /\ queue' = [queue EXCEPT ![m] = @ - 1]
    BY DEF Take
  <2>2. FinalizeMsg \in QueueMsgs /\ queue[FinalizeMsg] \in Nat
    BY DEF QueueMsgs, TypeOK, DataTypes
  <2>3. queue'[FinalizeMsg] > 0 => queue[FinalizeMsg] > 0
    BY <2>1, <2>2 DEF TypeOK, DataTypes
  <2> QED BY <2>3 DEF DataQuiet, Take, storeVars, historyVars
<1> QED BY <1>1, <1>2, QuietStep

LEMMA TickStartQuiet ==
  ASSUME TypeOK, CountingInv, NEW a \in Actors, TickStart(a)
  PROVE  CountingInv'
<1>1. ActorQuiet
  BY DEF TickStart, Goto, ActorQuiet, FinalizeLabels, TypeOK, ActorTypes
<1>2. DataQuiet
  BY DEF DataQuiet, TickStart, storeVars, historyVars
<1> QED BY <1>1, <1>2, QuietStep

LEMMA RedeliverQuiet ==
  ASSUME TypeOK, CountingInv, NEW m \in QueueMsgs, Redeliver(m)
  PROVE  CountingInv'
<1>1. ActorQuiet
  BY DEF ActorQuiet, Redeliver, actorVars
<1>2. queue'[FinalizeMsg] > 0 => queue[FinalizeMsg] > 0
  BY DEF Redeliver, Publish, TypeOK, DataTypes
<1>3. DataQuiet
  BY <1>2 DEF DataQuiet, Redeliver, storeVars, historyVars
<1> QED BY <1>1, <1>3, QuietStep

-----------------------------------------------------------------------------
LEMMA CountedFinite ==
  ASSUME TypeOK
  PROVE  /\ IsFiniteSet(Rows) /\ Cardinality(Rows) = N
         /\ IsFiniteSet(counted) /\ Cardinality(counted) \in Nat
         /\ IsFiniteSet(Stored)
<1>1. IsFiniteSet(Rows) /\ Cardinality(Rows) = N
  BY SizeAssumption, FS_Interval DEF Rows
<1>2. IsFiniteSet(counted)
  BY <1>1, FS_Subset DEF TypeOK, DataTypes
<1>3. IsFiniteSet(Stored)
  BY <1>1, FS_Subset DEF Stored
<1> QED BY <1>1, <1>2, <1>3, FS_CardinalityType

(* claim_finalize's condition holds only once every row is counted.        *)
LEMMA ClaimMeansCounted ==
  ASSUME TypeOK, CountingInv, ClaimMatches
  PROVE  counted = Rows
<1>1. CASE purged
  BY <1>1 DEF CountingInv
<1>2. CASE ~purged
  <2>1. Cardinality(counted) >= N
    BY <1>2 DEF CountingInv, ClaimMatches
  <2>2. counted \subseteq Rows
    BY DEF TypeOK, DataTypes
  <2>3. /\ Cardinality(counted) <= Cardinality(Rows)
        /\ Cardinality(Rows) = Cardinality(counted) => Rows = counted
    BY <2>2, CountedFinite, FS_Subset
  <2> QED BY <2>1, <2>3, CountedFinite, SizeAssumption
<1> QED BY <1>1, <1>2

LEMMA StoreRowResultCounts ==
  ASSUME TypeOK, CountingInv, NEW a \in Actors, StoreRowResult(a)
  PROVE  CountingInv'
<1>1. CASE ~FirstWriter(rec[a].row)
  <2>1. ActorQuiet
    BY <1>1, GotoQuiet DEF StoreRowResult, FinalizeLabels
  <2>2. DataQuiet
    BY <1>1 DEF DataQuiet, StoreRowResult, historyVars
  <2> QED BY <2>1, <2>2, QuietStep
<1>2. CASE FirstWriter(rec[a].row)
  <2>1. /\ results' = [results EXCEPT ![rec[a].row] = rec[a].outcome]
        /\ pc' = [pc EXCEPT ![a] = "bump"]
        /\ UNCHANGED <<job, rec, queue, counted, purged>>
    BY <1>2 DEF StoreRowResult, Goto, historyVars
  <2>2. rec[a].row \in Rows /\ rec[a].outcome # "unset" /\ rec[a].row \notin Stored
    BY <1>2 DEF TypeOK, ActorTypes, InHand, StoreRowResult, FirstWriter, Stored, Outcomes
  <2>3. Stored' = Stored \cup {rec[a].row}
    BY <2>1, <2>2 DEF Stored, TypeOK, DataTypes
  <2>4. ~purged' => /\ counted' \subseteq Stored'
                    /\ job'.processed = Cardinality(counted')
    BY <2>1, <2>3 DEF CountingInv
  <2>5. ~purged' => \A b \in Actors : pc'[b] = "bump" => rec'[b].row \in Stored' \ counted'
    BY <2>1, <2>2, <2>3 DEF CountingInv, TypeOK, ActorTypes
  <2>6. ~purged' => \A b, c \in Actors :
          pc'[b] = "bump" /\ pc'[c] = "bump" /\ b # c => rec'[b].row # rec'[c].row
    BY <2>1, <2>2 DEF CountingInv, TypeOK, ActorTypes
  <2>7. /\ (\/ job'.claimed \/ purged' \/ queue'[FinalizeMsg] > 0
            \/ \E b \in Actors : pc'[b] \in FinalizeLabels) => counted' = Rows
        /\ \A b \in Actors :
             /\ pc'[b] = "d_empty" => N = 0
             /\ pc'[b] \in {"publish_finalize", "sweep_publish"} => job'.claimed
    BY <2>1 DEF CountingInv, FinalizeLabels, TypeOK, ActorTypes
  <2> QED BY <2>4, <2>5, <2>6, <2>7 DEF CountingInv
<1> QED BY <1>1, <1>2

LEMMA BumpCountersCounts ==
  ASSUME TypeOK, CountingInv, NEW a \in Actors, BumpCounters(a)
  PROVE  CountingInv'
<1>1. /\ counted' = counted \cup {rec[a].row}
      /\ pc' = [pc EXCEPT ![a] = "settle"]
      /\ UNCHANGED <<results, rec, queue, purged>>
  BY DEF BumpCounters, Goto, storeVars
<1>2. job'.processed = job.processed + 1 /\ job'.claimed = job.claimed
  <2>1. rec[a].outcome \in {"matched", "no_match", "failed"}
    BY DEF TypeOK, ActorTypes, Outcomes
  <2>2. CASE rec[a].outcome = "matched"
    BY <2>2 DEF BumpCounters, TypeOK, DataTypes, JobType
  <2>3. CASE rec[a].outcome = "no_match"
    BY <2>3 DEF BumpCounters, TypeOK, DataTypes, JobType
  <2>4. CASE rec[a].outcome = "failed"
    BY <2>4 DEF BumpCounters, TypeOK, DataTypes, JobType
  <2> QED BY <2>1, <2>2, <2>3, <2>4
<1>3. rec[a].row \in Rows /\ Stored' = Stored /\ pc[a] = "bump"
  BY <1>1 DEF TypeOK, InHand, BumpCounters, Stored
<1>4. ~purged' => /\ counted' \subseteq Stored'
                  /\ job'.processed = Cardinality(counted')
  <2>1. HAVE ~purged'
  <2>2. rec[a].row \in Stored \ counted /\ job.processed = Cardinality(counted)
    BY <1>1, <1>3, <2>1 DEF CountingInv
  <2>3. Cardinality(counted \cup {rec[a].row}) = Cardinality(counted) + 1
    BY <2>2, CountedFinite, FS_AddElement
  <2> QED BY <1>1, <1>2, <1>3, <2>1, <2>2, <2>3 DEF CountingInv
<1>5. ~purged' => \A b \in Actors : pc'[b] = "bump" => rec'[b].row \in Stored' \ counted'
  BY <1>1, <1>3 DEF CountingInv, TypeOK, ActorTypes
<1>6. ~purged' => \A b, c \in Actors :
        pc'[b] = "bump" /\ pc'[c] = "bump" /\ b # c => rec'[b].row # rec'[c].row
  BY <1>1 DEF CountingInv, TypeOK, ActorTypes
<1>7. counted = Rows => counted' = Rows
  BY <1>1, <1>3
<1>8. /\ (\/ job'.claimed \/ purged' \/ queue'[FinalizeMsg] > 0
          \/ \E b \in Actors : pc'[b] \in FinalizeLabels) => counted' = Rows
      /\ \A b \in Actors :
           /\ pc'[b] = "d_empty" => N = 0
           /\ pc'[b] \in {"publish_finalize", "sweep_publish"} => job'.claimed
  BY <1>1, <1>2, <1>7 DEF CountingInv, FinalizeLabels, TypeOK, ActorTypes
<1> QED BY <1>4, <1>5, <1>6, <1>8 DEF CountingInv

LEMMA ClaimFinalizeCounts ==
  ASSUME TypeOK, CountingInv, NEW a \in Actors, ClaimFinalize(a)
  PROVE  CountingInv'
<1>1. CASE ~ClaimMatches
  <2>1. ActorQuiet
    BY <1>1, GotoQuiet DEF ClaimFinalize, FinalizeLabels
  <2>2. DataQuiet
    BY <1>1 DEF DataQuiet, ClaimFinalize, storeVars, historyVars
  <2> QED BY <2>1, <2>2, QuietStep
<1>2. CASE ClaimMatches
  <2>1. counted = Rows
    BY <1>2, ClaimMeansCounted
  <2>2. /\ job'.processed = job.processed /\ job'.claimed
        /\ pc' = [pc EXCEPT ![a] = "publish_finalize"]
        /\ UNCHANGED <<results, rec, queue, counted, purged>>
    BY <1>2 DEF ClaimFinalize, Goto, storeVars, historyVars, TypeOK, DataTypes, JobType
  <2>3. Stored' = Stored
    BY <2>2 DEF Stored
  <2>4. \A b \in Actors : pc'[b] = "bump" => pc[b] = "bump"
    BY <2>2 DEF TypeOK, ActorTypes
  <2>5. ~purged' => /\ counted' \subseteq Stored'
                    /\ job'.processed = Cardinality(counted')
    BY <2>2, <2>3 DEF CountingInv
  <2>6. ~purged' => \A b \in Actors : pc'[b] = "bump" => rec'[b].row \in Stored' \ counted'
    BY <2>2, <2>3, <2>4 DEF CountingInv
  <2>7. ~purged' => \A b, c \in Actors :
          pc'[b] = "bump" /\ pc'[c] = "bump" /\ b # c => rec'[b].row # rec'[c].row
    BY <2>2, <2>4 DEF CountingInv
  <2>8. \A b \in Actors : pc'[b] = "d_empty" => N = 0
    BY <2>2 DEF CountingInv, TypeOK, ActorTypes
  <2> QED BY <2>1, <2>2, <2>5, <2>6, <2>7, <2>8 DEF CountingInv
<1> QED BY <1>1, <1>2

LEMMA SweepClaimCounts ==
  ASSUME TypeOK, CountingInv, NEW a \in Actors, SweepClaim(a)
  PROVE  CountingInv'
<1>1. CASE ~ClaimMatches
  <2>1. ActorQuiet
    BY <1>1, GotoQuiet DEF SweepClaim, FinalizeLabels
  <2>2. DataQuiet
    BY <1>1 DEF DataQuiet, SweepClaim, storeVars, historyVars
  <2> QED BY <2>1, <2>2, QuietStep
<1>2. CASE ClaimMatches
  <2>1. counted = Rows
    BY <1>2, ClaimMeansCounted
  <2>2. /\ job'.processed = job.processed /\ job'.claimed
        /\ pc' = [pc EXCEPT ![a] = "sweep_publish"]
        /\ UNCHANGED <<results, rec, queue, counted, purged>>
    BY <1>2 DEF SweepClaim, Goto, storeVars, historyVars, TypeOK, DataTypes, JobType
  <2>3. Stored' = Stored
    BY <2>2 DEF Stored
  <2>4. \A b \in Actors : pc'[b] = "bump" => pc[b] = "bump"
    BY <2>2 DEF TypeOK, ActorTypes
  <2>5. ~purged' => /\ counted' \subseteq Stored'
                    /\ job'.processed = Cardinality(counted')
    BY <2>2, <2>3 DEF CountingInv
  <2>6. ~purged' => \A b \in Actors : pc'[b] = "bump" => rec'[b].row \in Stored' \ counted'
    BY <2>2, <2>3, <2>4 DEF CountingInv
  <2>7. ~purged' => \A b, c \in Actors :
          pc'[b] = "bump" /\ pc'[c] = "bump" /\ b # c => rec'[b].row # rec'[c].row
    BY <2>2, <2>4 DEF CountingInv
  <2>8. \A b \in Actors : pc'[b] = "d_empty" => N = 0
    BY <2>2 DEF CountingInv, TypeOK, ActorTypes
  <2> QED BY <2>1, <2>2, <2>5, <2>6, <2>7, <2>8 DEF CountingInv
<1> QED BY <1>1, <1>2

LEMMA CleanResultsCounts ==
  ASSUME TypeOK, CountingInv, NEW a \in Actors, CleanResults(a)
  PROVE  CountingInv'
<1>1. counted = Rows
  BY DEF CountingInv, CleanResults, FinalizeLabels
<1>2. /\ purged' = TRUE /\ counted' = counted /\ job' = job
      /\ pc' = [pc EXCEPT ![a] = "f_clean_rowargs"]
  BY DEF CleanResults, Goto
<1>3. \A b \in Actors :
        /\ pc'[b] = "d_empty" => N = 0
        /\ pc'[b] \in {"publish_finalize", "sweep_publish"} => job'.claimed
  BY <1>2 DEF CountingInv, TypeOK, ActorTypes
<1> QED BY <1>1, <1>2, <1>3 DEF CountingInv

-----------------------------------------------------------------------------
LEMMA InitCounts == ASSUME Init PROVE CountingInv
<1>1. counted = {} /\ Cardinality({}) = 0 /\ job.processed = 0
  BY FS_EmptySet DEF Init
<1>2. queue[FinalizeMsg] = 0
  BY DEF Init, QueueMsgs, FinalizeMsg, DispatchMsg
<1> QED BY <1>1, <1>2 DEF Init, CountingInv, Stored, FinalizeLabels

LEMMA StepCounts == ASSUME TypeOK, CountingInv, [Next]_vars PROVE CountingInv'
<1>1. ASSUME NEW a \in Actors, Run(a) PROVE CountingInv'
  <2>1. CASE RowStep(a)
    BY <2>1, MatchSucceedsQuiet, MatchRetriesQuiet, MatchExhaustedQuiet, MatchBreaksQuiet,
       StoreRowResultCounts, BumpCountersCounts, ClaimFinalizeCounts, PublishFinalizeQuiet
    DEF RowStep
  <2>2. CASE WindowStep(a)
    BY <2>2, ReadCursorQuiet, SwapCursorQuiet, FetchRowArgsQuiet, PublishRowQuiet,
       FailUnrecoverableQuiet, WindowDoneQuiet DEF WindowStep
  <2>3. CASE DispatchStep(a)
    BY <2>3, DispatchLoadQuiet, DispatchMarkQuiet, CacheRowArgsQuiet,
       DispatchFailedQuiet DEF DispatchStep
  <2>4. CASE FinalizeStep(a)
    BY <2>4, FinalizeStartQuiet, FinalizeLoadQuiet, FinalizeCollectQuiet, FinalizePutQuiet,
       FinalizeCompleteQuiet, CleanUploadQuiet, CleanResultsCounts, CleanRowArgsQuiet
    DEF FinalizeStep
  <2>5. CASE TickStep(a)
    BY <2>5, SweepSelectQuiet, SweepClaimCounts, SweepPublishQuiet, TopUpQuiet DEF TickStep
  <2> QED BY <1>1, <2>1, <2>2, <2>3, <2>4, <2>5 DEF Run
<1>2. ASSUME NEW a \in Actors, Raise(a) PROVE CountingInv'
  BY <1>2, RaiseInRowQuiet, RaiseInUnrecoverableQuiet, RaiseInSettleQuiet, RaiseInWindowQuiet,
     RaiseInDispatchQuiet, RaiseInFinalizeQuiet, RaiseInSweepQuiet DEF Raise
<1>3. CASE UNCHANGED vars
  <2>1. ActorQuiet
    BY <1>3 DEF vars, actorVars, ActorQuiet
  <2>2. DataQuiet
    BY <1>3 DEF vars, storeVars, historyVars, DataQuiet
  <2> QED BY <2>1, <2>2, QuietStep
<1>4. ASSUME NEW a \in Workers, Take(a) PROVE CountingInv'
  BY <1>4, TakeQuiet DEF Actors
<1>5. ASSUME NEW a \in Beats, TickStart(a) PROVE CountingInv'
  BY <1>5, TickStartQuiet DEF Actors
<1> QED
  BY <1>1, <1>2, <1>3, <1>4, <1>5, CrashQuiet, ArgsMissQuiet, RedeliverQuiet DEF Next

(* CountingInv is an invariant: _store_row_result's first writer bumps the *)
(* counters at most once, and nothing of finalize_batch starts before the  *)
(* last row is counted, under any faults and redeliveries.                 *)
THEOREM CountingCorrect == Spec => []CountingInv
<1>1. Init => TypeOK /\ CountingInv
  BY InitTypes, InitCounts
<1>2. TypeOK /\ CountingInv /\ [Next]_vars => TypeOK' /\ CountingInv'
  BY StepTypes, StepCounts
<1> QED BY <1>1, <1>2, PTL DEF Spec

(* processed never runs ahead of the results hash (_bump_counters is only  *)
(* reached by the task whose HSETNX wrote the row).                        *)
THEOREM NeverOvercountedHolds == Spec => []NeverOvercounted
<1>1. TypeOK /\ CountingInv => NeverOvercounted
  <2> SUFFICES ASSUME TypeOK, CountingInv, ~purged
               PROVE  job.processed <= Cardinality(Stored)
    BY DEF NeverOvercounted
  <2>1. job.processed = Cardinality(counted) /\ counted \subseteq Stored
    BY DEF CountingInv
  <2> QED BY <2>1, CountedFinite, FS_Subset
<1> QED BY <1>1, TypeCorrect, CountingCorrect, PTL

(* The finalize claim of dispatch_window.claim_finalize is never won while *)
(* a row's outcome is missing, whoever wins it and whatever fails.         *)
THEOREM FinalizeCoversAllRowsHolds == Spec => []FinalizeCoversAllRows
<1>1. TypeOK /\ CountingInv => FinalizeCoversAllRows
  BY DEF CountingInv, FinalizeCoversAllRows, Stored
<1> QED BY <1>1, TypeCorrect, CountingCorrect, PTL

-----------------------------------------------------------------------------
(***************************************************************************)
(* dispatch_batch, finalize_batch and the rows: the uploaded file and the  *)
(* results hash outlive the output, no delivered file has a gap, the job   *)
(* keeps the promise of RowLedger, and no row is out in two copies.        *)
(*                                                                         *)
(* Three tokens carry the argument.  The dispatch token is the one         *)
(* dispatch message of the job, in the queue or with the task that has not *)
(* yet marked the job processing; while it exists nothing of the job has   *)
(* been handed out (DispatchInv).  The finalize token comes into being     *)
(* with the claim and is the message, its publisher or the task            *)
(* (FinalInv).  Each row below the cursor has a token: its message, the    *)
(* task that has it in hand, or its place in a window somebody claimed and *)
(* has not published yet (CopyInv).  A token is unique as long as the      *)
(* broker does not redeliver that message.                                 *)
(***************************************************************************)


(* What DispatchInv asks of the environment: the dispatch message is       *)
(* handed out once.                                                        *)
DispatchedOnce == <<"redeliver", "dispatch">> \notin FaultPoints

(* dispatch_batch raises no error once it has marked the job processing:   *)
(* its except branch marks the job failed whatever has become of the job   *)
(* meanwhile, a completed one included.                                    *)
FailsEarly == {<<"raise", "d_window">>, <<"raise", "d_empty">>} \cap FaultPoints = {}

(* What FinalInv asks of it: the finalize message is handed out once.      *)
FinalizeOnce == <<"redeliver", "finalize">> \notin FaultPoints

(* dispatch_batch before it marks the job processing; its except branch,   *)
(* where that is only ever entered from there.                             *)
EarlyLabels == {"d_load", "d_mark"} \cup (IF FailsEarly THEN {"d_failed"} ELSE {})

(* The job has not been marked processing yet.                             *)
Early == queue[DispatchMsg] > 0 \/ \E a \in Actors : pc[a] \in EarlyLabels

(* Then nothing of it has been handed out.                                 *)
Pristine ==
  /\ job.status = "queued" /\ upload /\ ~purged
  /\ \A m \in QueueMsgs : m # DispatchMsg => queue[m] = 0
  /\ \A a \in Actors : /\ pc[a] \in EarlyLabels \cup {"idle", "sweep_select", "topup"}
                       /\ tick[a].deficit <= 0
                       /\ stack[a] = <<>>

DispatchInv ==
  /\ queue[DispatchMsg] <= 1
  /\ \A a \in Actors : pc[a] \in EarlyLabels =>
       queue[DispatchMsg] = 0 /\ \A b \in Actors : pc[b] \in EarlyLabels => b = a
  /\ Early => Pristine

CleanLabels == {"f_clean_upload", "f_clean_results", "f_clean_rowargs"}

(* The order of finalize_batch: files, then the commit, then the cleanup.  *)
DeliverInv ==
  /\ \A a \in Actors : pc[a] \in CleanLabels => job.status = "completed"
  /\ \A a \in Actors : pc[a] = "f_complete" => output # {}
  /\ job.status = "completed" => output # {}
  /\ InputsOutliveTheOutput

(* The actor holds the finalize token.                                     *)
Held(a) == pc[a] \in {"publish_finalize", "sweep_publish"} \cup FinalizeLabels

(* The one finalize_batch of a job with rows: the claim brings its token   *)
(* into being, completion leaves it only the cleanup, and what it has read *)
(* and written until then are the results as they still stand.             *)
FinalInv ==
  N # 0 =>
    /\ queue[FinalizeMsg] <= 1
    /\ queue[FinalizeMsg] > 0 => job.claimed /\ \A a \in Actors : ~Held(a)
    /\ \A a \in Actors : Held(a) => job.claimed /\ \A b \in Actors : Held(b) => b = a
    /\ job.status = "completed" \/ purged =>
         job.claimed /\ queue[FinalizeMsg] = 0 /\ \A a \in Actors : Held(a) => pc[a] \in CleanLabels
    /\ \A a \in Actors :
         /\ pc[a] = "f_put" => buf[a] = results
         /\ pc[a] = "f_complete" => output = {results}
         /\ purged /\ Held(a) => pc[a] = "f_clean_rowargs"

-----------------------------------------------------------------------------
(* Plain steps: the tokens and what the invariants say of the job stay as  *)
(* they are.                                                               *)
Watched == EarlyLabels \cup {"publish_finalize", "sweep_publish"} \cup FinalizeLabels

ActorPlain ==
  \A b \in Actors : pc'[b] \in Watched => pc'[b] = pc[b] /\ buf'[b] = buf[b]

DataPlain ==
  /\ UNCHANGED <<upload, output, purged>>
  /\ job'.status = job.status /\ job'.claimed = job.claimed
  /\ queue'[DispatchMsg] = queue[DispatchMsg]
  /\ queue'[FinalizeMsg] = queue[FinalizeMsg]

LEMMA GotoPlain ==
  ASSUME TypeOK, NEW a \in Actors, NEW l, Goto(a, l), buf' = buf,
         l \notin Watched
  PROVE  ActorPlain
  BY DEF TypeOK, ActorTypes, Goto, ActorPlain

LEMMA ReleasePlain ==
  ASSUME TypeOK, NEW a \in Actors, Release(a)
  PROVE  ActorPlain
  BY DEF TypeOK, ActorTypes, Release, Goto, ActorPlain, Watched, EarlyLabels, FinalizeLabels

LEMMA RecordingPlain ==
  ASSUME TypeOK, NEW a \in Actors, NEW r, NEW oc, NEW b, Recording(a, r, oc, b)
  PROVE  ActorPlain
  BY GotoPlain DEF Recording, Watched, EarlyLabels, FinalizeLabels

LEMMA ReturnPlain ==
  ASSUME TypeOK, NEW a \in Actors, NEW st, Return(a, st)
  PROVE  ActorPlain
<1>1. CASE Release(a)
  BY <1>1, ReleasePlain
<1>2. CASE /\ buf' = buf
           /\ Goto(a, "publish") \/ Goto(a, "topup")
  BY <1>2, GotoPlain DEF Watched, EarlyLabels, FinalizeLabels
<1> QED BY <1>1, <1>2 DEF Return

(* While the dispatch token exists every other step of the job is blocked, *)
(* so a plain step from a later label leaves it gone.                      *)
LEMMA LateDispatch ==
  ASSUME TypeOK, DispatchInv, NEW a \in Actors,
         pc[a] \notin EarlyLabels \cup {"idle", "sweep_select", "topup"},
         queue'[DispatchMsg] = queue[DispatchMsg],
         \A b \in Actors : pc'[b] \in EarlyLabels => pc'[b] = pc[b]
  PROVE  DispatchInv' /\ ~Early'
<1>1. ~Early
  BY DEF DispatchInv, Pristine
<1>2. queue[DispatchMsg] = 0 /\ \A b \in Actors : pc[b] \notin EarlyLabels
  <2>1. queue[DispatchMsg] \in Nat
    BY DEF TypeOK, DataTypes, QueueMsgs
  <2> QED BY <1>1, <2>1 DEF Early
<1>3. queue'[DispatchMsg] = 0 /\ \A b \in Actors : pc'[b] \notin EarlyLabels
  BY <1>2
<1> QED BY <1>3 DEF DispatchInv, Early

LEMMA PlainDelivers ==
  ASSUME DeliverInv, ActorPlain, DataPlain
  PROVE  DeliverInv'
<1>1. \A b \in Actors : pc'[b] \in CleanLabels \cup {"f_complete"} => pc'[b] = pc[b]
  BY DEF ActorPlain, Watched, CleanLabels, FinalizeLabels
<1> QED BY <1>1 DEF DeliverInv, DataPlain, InputsOutliveTheOutput

-----------------------------------------------------------------------------
(* The plain steps of the row task, the windows, the tick and the faults.  *)
Plain == ActorPlain /\ DataPlain /\ results' = results
Late(a) == pc[a] \notin EarlyLabels \cup {"idle", "sweep_select", "topup"}

LEMMA MatchSucceedsPlain ==
  ASSUME TypeOK, NEW a \in Actors, MatchSucceeds(a)
  PROVE  Plain /\ Late(a)
<1>1. ActorPlain
  BY RecordingPlain DEF MatchSucceeds
<1>2. DataPlain /\ results' = results
  BY DEF DataPlain, MatchSucceeds, storeVars, historyVars
<1>3. Late(a)
  BY DEF MatchSucceeds, Late, EarlyLabels
<1> QED BY <1>1, <1>2, <1>3 DEF Plain

LEMMA MatchExhaustedPlain ==
  ASSUME TypeOK, NEW a \in Actors, MatchExhausted(a)
  PROVE  Plain /\ Late(a)
<1>1. ActorPlain
  BY RecordingPlain DEF MatchExhausted
<1>2. DataPlain /\ results' = results
  BY DEF DataPlain, MatchExhausted, storeVars, historyVars
<1>3. Late(a)
  BY DEF MatchExhausted, Late, EarlyLabels
<1> QED BY <1>1, <1>2, <1>3 DEF Plain

LEMMA MatchBreaksPlain ==
  ASSUME TypeOK, NEW a \in Actors, MatchBreaks(a)
  PROVE  Plain /\ Late(a)
<1>1. ActorPlain
  BY RecordingPlain DEF MatchBreaks
<1>2. DataPlain /\ results' = results
  BY DEF DataPlain, MatchBreaks, storeVars, historyVars
<1>3. Late(a)
  BY DEF MatchBreaks, Late, EarlyLabels
<1> QED BY <1>1, <1>2, <1>3 DEF Plain

LEMMA MatchRetriesPlain ==
  ASSUME TypeOK, NEW a \in Actors, MatchRetries(a)
  PROVE  Plain /\ Late(a)
<1>1. ActorPlain
  BY ReleasePlain DEF MatchRetries
<1>2. DataPlain /\ results' = results
  <2>1. RowMsg(msg[a].row, msg[a].tries + 1) \in QueueMsgs /\ RowMsg(msg[a].row, msg[a].tries + 1) \notin {FinalizeMsg, DispatchMsg}
    BY SizeAssumption
    DEF TypeOK, InHand, MatchRetries, QueueMsgs, RowMsg, DispatchMsg, FinalizeMsg
  <2> QED BY <2>1 DEF DataPlain, MatchRetries, Publish, storeVars, historyVars, TypeOK, DataTypes
<1>3. Late(a)
  BY DEF MatchRetries, Late, EarlyLabels
<1> QED BY <1>1, <1>2, <1>3 DEF Plain

LEMMA PublishRowPlain ==
  ASSUME TypeOK, NEW a \in Actors, PublishRow(a)
  PROVE  Plain /\ Late(a)
<1>1. ActorPlain
  BY DEF PublishRow, ActorPlain
<1>2. DataPlain /\ results' = results
  <2>1. RowMsg(Head(Head(stack[a]).rows), 0) \in QueueMsgs /\ RowMsg(Head(Head(stack[a]).rows), 0) \notin {FinalizeMsg, DispatchMsg}
    <3>1. stack[a] \in Seq(WindowType) /\ stack[a] # <<>>
      BY DEF TypeOK, ActorTypes, InHand, PublishRow
    <3>2. Head(stack[a]).rows \in Seq(Rows) /\ Head(stack[a]).rows # <<>>
      BY <3>1, WindowStack, WindowFields DEF PublishRow
    <3>3. Head(Head(stack[a]).rows) \in Rows
      BY <3>2
    <3> QED BY <3>3, SizeAssumption DEF QueueMsgs, RowMsg, FinalizeMsg, DispatchMsg
  <2> QED BY <2>1 DEF DataPlain, PublishRow, Publish, storeVars, historyVars, TypeOK, DataTypes
<1>3. Late(a)
  BY DEF PublishRow, Late, EarlyLabels
<1> QED BY <1>1, <1>2, <1>3 DEF Plain

LEMMA BumpCountersPlain ==
  ASSUME TypeOK, NEW a \in Actors, BumpCounters(a)
  PROVE  Plain /\ Late(a)
<1>1. ActorPlain
  BY GotoPlain DEF BumpCounters, Watched, EarlyLabels, FinalizeLabels
<1>2. DataPlain /\ results' = results
  BY DEF DataPlain, BumpCounters, storeVars, historyVars, Outcomes, ActorTypes, TypeOK, DataTypes, JobType
<1>3. Late(a)
  BY DEF BumpCounters, Late, EarlyLabels
<1> QED BY <1>1, <1>2, <1>3 DEF Plain

LEMMA ReadCursorPlain ==
  ASSUME TypeOK, NEW a \in Actors, ReadCursor(a)
  PROVE  Plain /\ Late(a)
<1>1. ActorPlain
  <2>1. CASE Return(a, stack[a])
    BY <2>1, ReturnPlain
  <2>2. CASE Goto(a, "cas") /\ buf' = buf
    BY <2>2, GotoPlain DEF Watched, EarlyLabels, FinalizeLabels
  <2> QED BY <2>1, <2>2 DEF ReadCursor
<1>2. DataPlain /\ results' = results
  BY DEF DataPlain, ReadCursor, storeVars, historyVars
<1>3. Late(a)
  BY DEF ReadCursor, Late, EarlyLabels
<1> QED BY <1>1, <1>2, <1>3 DEF Plain

LEMMA SwapCursorPlain ==
  ASSUME TypeOK, NEW a \in Actors, SwapCursor(a)
  PROVE  Plain /\ Late(a)
<1>1. ActorPlain
  <2>1. buf' = buf /\ (Goto(a, "args") \/ Goto(a, "read"))
    BY DEF SwapCursor
  <2> QED BY <2>1, GotoPlain DEF Watched, EarlyLabels, FinalizeLabels
<1>2. DataPlain /\ results' = results
  BY DEF DataPlain, SwapCursor, storeVars, historyVars, TypeOK, DataTypes, JobType
<1>3. Late(a)
  BY DEF SwapCursor, Late, EarlyLabels
<1> QED BY <1>1, <1>2, <1>3 DEF Plain

LEMMA FetchRowArgsPlain ==
  ASSUME TypeOK, NEW a \in Actors, FetchRowArgs(a)
  PROVE  Plain /\ Late(a)
<1>1. ActorPlain
  BY GotoPlain DEF FetchRowArgs, Watched, EarlyLabels, FinalizeLabels
<1>2. DataPlain /\ results' = results
  BY DEF DataPlain, FetchRowArgs, storeVars, historyVars
<1>3. Late(a)
  BY DEF FetchRowArgs, Late, EarlyLabels
<1> QED BY <1>1, <1>2, <1>3 DEF Plain

LEMMA FailUnrecoverablePlain ==
  ASSUME TypeOK, NEW a \in Actors, FailUnrecoverable(a)
  PROVE  Plain /\ Late(a)
<1>1. ActorPlain
  BY GotoPlain DEF FailUnrecoverable, Watched, EarlyLabels, FinalizeLabels
<1>2. DataPlain /\ results' = results
  BY DEF DataPlain, FailUnrecoverable, storeVars, historyVars
<1>3. Late(a)
  BY DEF FailUnrecoverable, Late, EarlyLabels
<1> QED BY <1>1, <1>2, <1>3 DEF Plain

LEMMA CacheRowArgsPlain ==
  ASSUME TypeOK, NEW a \in Actors, CacheRowArgs(a)
  PROVE  Plain /\ Late(a)
<1>1. ActorPlain
  BY GotoPlain DEF CacheRowArgs, Watched, EarlyLabels, FinalizeLabels
<1>2. DataPlain /\ results' = results
  BY DEF DataPlain, CacheRowArgs, storeVars, historyVars
<1>3. Late(a)
  BY DEF CacheRowArgs, Late, EarlyLabels
<1> QED BY <1>1, <1>2, <1>3 DEF Plain

LEMMA ArgsMissPlain ==
  ASSUME TypeOK, NEW a \in Actors, ArgsMiss(a)
  PROVE  Plain /\ Late(a)
<1>1. ActorPlain
  BY GotoPlain DEF ArgsMiss, Watched, EarlyLabels, FinalizeLabels
<1>2. DataPlain /\ results' = results
  BY DEF DataPlain, ArgsMiss, storeVars, historyVars, Fault
<1>3. Late(a)
  BY DEF ArgsMiss, Late, EarlyLabels
<1> QED BY <1>1, <1>2, <1>3 DEF Plain

LEMMA WindowDonePlain ==
  ASSUME TypeOK, NEW a \in Actors, WindowDone(a)
  PROVE  Plain /\ Late(a)
<1>1. ActorPlain
  BY ReturnPlain DEF WindowDone
<1>2. DataPlain /\ results' = results
  BY DEF DataPlain, WindowDone, storeVars, historyVars
<1>3. Late(a)
  BY DEF WindowDone, Late, EarlyLabels
<1> QED BY <1>1, <1>2, <1>3 DEF Plain

LEMMA CleanRowArgsPlain ==
  ASSUME TypeOK, NEW a \in Actors, CleanRowArgs(a)
  PROVE  Plain /\ Late(a)
<1>1. ActorPlain
  BY ReleasePlain DEF CleanRowArgs
<1>2. DataPlain /\ results' = results
  BY DEF DataPlain, CleanRowArgs, storeVars, historyVars
<1>3. Late(a)
  BY DEF CleanRowArgs, Late, EarlyLabels
<1> QED BY <1>1, <1>2, <1>3 DEF Plain

LEMMA RaiseInRowPlain ==
  ASSUME TypeOK, NEW a \in Actors, RaiseInRow(a)
  PROVE  Plain /\ Late(a)
<1>1. ActorPlain
  BY ReleasePlain, RecordingPlain DEF RaiseInRow
<1>2. DataPlain /\ results' = results
  BY DEF DataPlain, RaiseInRow, storeVars, historyVars
<1>3. Late(a)
  BY DEF RaiseInRow, Late, EarlyLabels
<1> QED BY <1>1, <1>2, <1>3 DEF Plain

LEMMA RaiseInUnrecoverablePlain ==
  ASSUME TypeOK, NEW a \in Actors, RaiseInUnrecoverable(a)
  PROVE  Plain /\ Late(a)
<1>1. ActorPlain
  BY ReturnPlain DEF RaiseInUnrecoverable
<1>2. DataPlain /\ results' = results
  BY DEF DataPlain, RaiseInUnrecoverable, storeVars, historyVars
<1>3. Late(a)
  BY DEF RaiseInUnrecoverable, Late, EarlyLabels
<1> QED BY <1>1, <1>2, <1>3 DEF Plain

LEMMA RaiseInSettlePlain ==
  ASSUME TypeOK, NEW a \in Actors, RaiseInSettle(a)
  PROVE  Plain /\ Late(a)
<1>1. ActorPlain
  BY ReturnPlain DEF RaiseInSettle
<1>2. DataPlain /\ results' = results
  BY DEF DataPlain, RaiseInSettle, storeVars, historyVars
<1>3. Late(a)
  BY DEF RaiseInSettle, Late, EarlyLabels
<1> QED BY <1>1, <1>2, <1>3 DEF Plain

LEMMA TickStartPlain ==
  ASSUME TypeOK, NEW a \in Actors, TickStart(a)
  PROVE  Plain
<1>1. ActorPlain
  BY GotoPlain DEF TickStart, Watched, EarlyLabels, FinalizeLabels
<1>2. DataPlain /\ results' = results
  BY DEF DataPlain, TickStart, storeVars, historyVars
<1> QED BY <1>1, <1>2 DEF Plain

LEMMA SweepSelectPlain ==
  ASSUME TypeOK, NEW a \in Actors, SweepSelect(a)
  PROVE  Plain
<1>1. ActorPlain
  BY GotoPlain DEF SweepSelect, Watched, EarlyLabels, FinalizeLabels
<1>2. DataPlain /\ results' = results
  BY DEF DataPlain, SweepSelect, storeVars, historyVars
<1> QED BY <1>1, <1>2 DEF Plain

LEMMA TopUpPlain ==
  ASSUME TypeOK, NEW a \in Actors, TopUp(a)
  PROVE  Plain
<1>1. ActorPlain
  BY GotoPlain, ReleasePlain DEF TopUp, Watched, EarlyLabels, FinalizeLabels
<1>2. DataPlain /\ results' = results
  BY DEF DataPlain, TopUp, storeVars, historyVars
<1> QED BY <1>1, <1>2 DEF Plain

LEMMA RaiseInSweepPlain ==
  ASSUME TypeOK, NEW a \in Actors, RaiseInSweep(a)
  PROVE  Plain
<1>1. ActorPlain
  BY GotoPlain DEF RaiseInSweep, Watched, EarlyLabels, FinalizeLabels
<1>2. DataPlain /\ results' = results
  BY DEF DataPlain, RaiseInSweep, storeVars, historyVars
<1> QED BY <1>1, <1>2 DEF Plain

LEMMA CrashPlain ==
  ASSUME TypeOK, NEW a \in Actors, Crash(a)
  PROVE  Plain
<1>1. ActorPlain
  BY ReleasePlain DEF Crash
<1>2. DataPlain /\ results' = results
  BY DEF DataPlain, Crash, storeVars, historyVars
<1> QED BY <1>1, <1>2 DEF Plain

-----------------------------------------------------------------------------
(* The dispatch token.                                                     *)
EarlyActor(b) ==
  /\ pc[b] \in EarlyLabels \cup {"idle", "sweep_select", "topup"}
  /\ tick[b].deficit <= 0
  /\ stack[b] = <<>>

(* A step that keeps the token where it is, or drops it, leaves the job    *)
(* untouched.                                                              *)
LEMMA EarlyDispatch ==
  ASSUME TypeOK, DispatchInv,
         UNCHANGED <<upload, purged>>, job' = job,
         queue'[DispatchMsg] = queue[DispatchMsg],
         Early => /\ \A m \in QueueMsgs : m # DispatchMsg => queue'[m] = 0
                  /\ \A b \in Actors : EarlyActor(b)',
         \A b \in Actors : pc'[b] \in EarlyLabels => pc[b] \in EarlyLabels
  PROVE  DispatchInv'
<1>1. Early' => Early
  BY DEF Early
<1>2. Early' => Pristine'
  BY <1>1 DEF DispatchInv, Pristine, EarlyActor
<1> QED BY <1>2 DEF DispatchInv

LEMMA EarlyBlocks ==
  ASSUME DispatchInv, Early
  PROVE  /\ job.status = "queued" /\ upload /\ ~purged
         /\ \A m \in QueueMsgs : m # DispatchMsg => queue[m] = 0
         /\ \A b \in Actors : EarlyActor(b)
  BY DEF DispatchInv, Pristine, EarlyActor

LEMMA TickStartDispatch ==
  ASSUME TypeOK, DispatchInv, NEW a \in Actors, TickStart(a)
  PROVE  DispatchInv'
<1>1. /\ UNCHANGED <<upload, purged, queue, job, stack>>
      /\ pc' = [pc EXCEPT ![a] = "sweep_select"]
      /\ job.status # "processing" => tick' = [tick EXCEPT ![a] = [deficit |-> 0, published |-> 0]]
  BY DEF TickStart, Goto, storeVars, historyVars
<1>2. Early => \A b \in Actors : EarlyActor(b)'
  <2> SUFFICES ASSUME Early, NEW b \in Actors PROVE EarlyActor(b)'
    OBVIOUS
  <2>1. EarlyActor(b) /\ job.status = "queued"
    BY EarlyBlocks
  <2>2. tick'[b].deficit <= 0
    <3>1. tick' = [tick EXCEPT ![a] = [deficit |-> 0, published |-> 0]]
      BY <1>1, <2>1
    <3>2. tick[b].deficit <= 0 /\ DOMAIN tick = Actors
      BY <2>1 DEF TypeOK, ActorTypes, EarlyActor
    <3> QED BY <3>1, <3>2
  <2>3. pc'[b] \in EarlyLabels \cup {"idle", "sweep_select", "topup"} /\ stack'[b] = <<>>
    BY <1>1, <2>1 DEF TypeOK, ActorTypes, EarlyActor
  <2> QED BY <2>2, <2>3 DEF EarlyActor
<1>3. \A b \in Actors : pc'[b] \in EarlyLabels => pc[b] \in EarlyLabels
  BY <1>1 DEF TypeOK, ActorTypes, EarlyLabels
<1> QED BY <1>1, <1>2, <1>3, EarlyBlocks, EarlyDispatch

LEMMA GotoDispatch ==
  ASSUME TypeOK, DispatchInv, NEW a \in Actors, NEW l, Goto(a, l),
         Early => l \in {"idle", "sweep_select", "topup"}, l \notin EarlyLabels,
         UNCHANGED <<job, upload, purged, queue, stack, tick>>
  PROVE  DispatchInv'
<1>1. pc' = [pc EXCEPT ![a] = l]
  BY DEF Goto
<1>2. Early => \A b \in Actors : EarlyActor(b)'
  <2> SUFFICES ASSUME Early, NEW b \in Actors PROVE EarlyActor(b)'
    OBVIOUS
  <2>1. EarlyActor(b)
    BY EarlyBlocks
  <2> QED BY <1>1, <2>1 DEF TypeOK, ActorTypes, EarlyActor
<1>3. \A b \in Actors : pc'[b] \in EarlyLabels => pc[b] \in EarlyLabels
  BY <1>1 DEF TypeOK, ActorTypes
<1> QED BY <1>2, <1>3, EarlyBlocks, EarlyDispatch

LEMMA ReleaseDispatch ==
  ASSUME TypeOK, DispatchInv, NEW a \in Actors, Release(a),
         UNCHANGED <<job, upload, purged, queue>>
  PROVE  DispatchInv'
<1>1. /\ pc' = [pc EXCEPT ![a] = "idle"]
      /\ stack' = [stack EXCEPT ![a] = <<>>]
      /\ tick' = [tick EXCEPT ![a] = NoTick]
  BY DEF Release, Goto
<1>2. Early => \A b \in Actors : EarlyActor(b)'
  <2> SUFFICES ASSUME Early, NEW b \in Actors PROVE EarlyActor(b)'
    OBVIOUS
  <2>1. EarlyActor(b)
    BY EarlyBlocks
  <2> QED BY <1>1, <2>1 DEF TypeOK, ActorTypes, EarlyActor, NoTick
<1>3. \A b \in Actors : pc'[b] \in EarlyLabels => pc[b] \in EarlyLabels
  BY <1>1 DEF TypeOK, ActorTypes, EarlyLabels
<1> QED BY <1>2, <1>3, EarlyBlocks, EarlyDispatch

LEMMA SweepSelectDispatch ==
  ASSUME TypeOK, DispatchInv, NEW a \in Actors, SweepSelect(a)
  PROVE  DispatchInv'
<1>1. Early => ~Stuck
  BY EarlyBlocks DEF Stuck
<1>2. PICK l \in {"sweep_claim", "topup"} : Goto(a, l) /\ (l = "sweep_claim" => Stuck)
  BY DEF SweepSelect
<1> QED BY <1>1, <1>2, GotoDispatch DEF SweepSelect, storeVars, historyVars, EarlyLabels

LEMMA TopUpDispatch ==
  ASSUME TypeOK, DispatchInv, NEW a \in Actors, TopUp(a)
  PROVE  DispatchInv'
<1>1. UNCHANGED <<job, upload, purged, queue>>
  BY DEF TopUp, storeVars, historyVars
<1>2. CASE tick[a].deficit > 0
  <2>1. ~Early
    <3>1. tick[a].deficit \in Int
      BY DEF TypeOK, ActorTypes
    <3> QED BY <1>2, <3>1, EarlyBlocks DEF EarlyActor
  <2> QED BY <1>1, <1>2, <2>1, GotoDispatch DEF TopUp, EarlyLabels
<1>3. CASE ~(tick[a].deficit > 0)
  BY <1>1, <1>3, ReleaseDispatch DEF TopUp
<1> QED BY <1>2, <1>3

LEMMA RaiseInSweepDispatch ==
  ASSUME TypeOK, DispatchInv, NEW a \in Actors, RaiseInSweep(a)
  PROVE  DispatchInv'
  BY GotoDispatch DEF RaiseInSweep, storeVars, historyVars, EarlyLabels

LEMMA CrashDispatch ==
  ASSUME TypeOK, DispatchInv, NEW a \in Actors, Crash(a)
  PROVE  DispatchInv'
  BY ReleaseDispatch DEF Crash, storeVars, historyVars

(* The token ends with the actor that leaves the early labels.             *)
LEMMA TokenEnds ==
  ASSUME TypeOK, DispatchInv, NEW a \in Actors, NEW l, Goto(a, l),
         pc[a] \in EarlyLabels, l \notin EarlyLabels, queue' = queue
  PROVE  DispatchInv'
<1>1. pc' = [pc EXCEPT ![a] = l]
  BY DEF Goto
<1>2. queue[DispatchMsg] = 0 /\ \A b \in Actors : pc[b] \in EarlyLabels => b = a
  BY DEF DispatchInv
<1>3. queue'[DispatchMsg] = 0 /\ \A b \in Actors : pc'[b] \notin EarlyLabels
  BY <1>1, <1>2 DEF TypeOK, ActorTypes
<1> QED BY <1>3 DEF DispatchInv, Early

LEMMA DispatchFailedDispatch ==
  ASSUME TypeOK, DispatchInv, NEW a \in Actors, DispatchFailed(a)
  PROVE  DispatchInv'
<1>1. /\ pc[a] = "d_failed" /\ queue' = queue
      /\ Goto(a, "idle") /\ "idle" \notin EarlyLabels
  BY DEF DispatchFailed, Release, EarlyLabels
<1>2. CASE FailsEarly
  BY <1>1, <1>2, TokenEnds DEF EarlyLabels
<1>3. CASE ~FailsEarly
  <2>1. \A b \in Actors : pc'[b] \in EarlyLabels => pc'[b] = pc[b]
    BY <1>1 DEF TypeOK, ActorTypes, Goto
  <2> QED BY <1>1, <1>3, <2>1, LateDispatch DEF EarlyLabels
<1> QED BY <1>2, <1>3

LEMMA DispatchMarkDispatch ==
  ASSUME TypeOK, DispatchInv, NEW a \in Actors, DispatchMark(a)
  PROVE  DispatchInv'
<1>1. PICK l \in {"d_empty", "d_cache"} : Goto(a, l)
  BY DEF DispatchMark
<1>2. pc[a] \in EarlyLabels /\ l \notin EarlyLabels /\ queue' = queue
  BY DEF DispatchMark, EarlyLabels
<1> QED BY <1>1, <1>2, TokenEnds

(* The token goes on to another label of dispatch_batch.                   *)
LEMMA TokenStays ==
  ASSUME TypeOK, DispatchInv, NEW a \in Actors, NEW l \in EarlyLabels,
         pc[a] \in EarlyLabels, Goto(a, l),
         UNCHANGED <<job, upload, purged, queue, stack, tick>>
  PROVE  DispatchInv'
<1>1. Early /\ pc' = [pc EXCEPT ![a] = l]
  BY DEF Early, Goto
<1>2. \A b \in Actors : EarlyActor(b)'
  <2> SUFFICES ASSUME NEW b \in Actors PROVE EarlyActor(b)'
    OBVIOUS
  <2>1. EarlyActor(b)
    BY <1>1, EarlyBlocks
  <2> QED BY <1>1, <2>1 DEF TypeOK, ActorTypes, EarlyActor
<1>3. \A b \in Actors : pc'[b] \in EarlyLabels => pc[b] \in EarlyLabels
  BY <1>1 DEF TypeOK, ActorTypes
<1> QED BY <1>1, <1>2, <1>3, EarlyBlocks, EarlyDispatch

LEMMA DispatchLoadDispatch ==
  ASSUME TypeOK, DispatchInv, NEW a \in Actors, DispatchLoad(a)
  PROVE  DispatchInv'
<1>1. pc[a] \in EarlyLabels
  BY DEF DispatchLoad, EarlyLabels
<1>2. upload
  BY <1>1, EarlyBlocks DEF Early
<1>3. Goto(a, "d_mark") /\ "d_mark" \in EarlyLabels
  BY <1>2 DEF DispatchLoad, EarlyLabels
<1> QED BY <1>1, <1>3, TokenStays DEF DispatchLoad, storeVars, historyVars

LEMMA RaiseInDispatchDispatch ==
  ASSUME TypeOK, DispatchInv, NEW a \in Actors, RaiseInDispatch(a)
  PROVE  DispatchInv'
<1>1. UNCHANGED <<job, upload, purged, queue>>
  BY DEF RaiseInDispatch, storeVars, historyVars
<1>2. CASE pc[a] = "d_cache"
  <2>1. ~Early
    BY <1>2, EarlyBlocks DEF EarlyActor, EarlyLabels
  <2> QED BY <1>1, <1>2, <2>1, GotoDispatch DEF RaiseInDispatch, EarlyLabels
<1>3. CASE pc[a] = "d_failed"
  BY <1>1, <1>3, ReleaseDispatch DEF RaiseInDispatch
<1>4. CASE pc[a] = "d_empty"
  <2>1. ~Early
    BY <1>4, EarlyBlocks DEF EarlyActor, EarlyLabels
  <2>2. "d_failed" \notin EarlyLabels
    BY <1>4 DEF RaiseInDispatch, Fault, FailsEarly, EarlyLabels
  <2> QED BY <1>1, <1>4, <2>1, <2>2, GotoDispatch DEF RaiseInDispatch
<1>5. CASE pc[a] \in {"d_load", "d_mark"}
  <2>1. Goto(a, "d_failed") /\ UNCHANGED <<stack, tick>> /\ pc[a] \in EarlyLabels
    BY <1>5 DEF RaiseInDispatch, EarlyLabels
  <2>2. CASE "d_failed" \in EarlyLabels
    BY <1>1, <2>1, <2>2, TokenStays
  <2>3. CASE "d_failed" \notin EarlyLabels
    BY <1>1, <2>1, <2>3, TokenEnds
  <2> QED BY <2>2, <2>3
<1> QED BY <1>1, <1>2, <1>3, <1>4, <1>5 DEF RaiseInDispatch

LEMMA TakeDispatch ==
  ASSUME TypeOK, DispatchInv, NEW a \in Actors, Take(a)
  PROVE  DispatchInv'
<1>1. PICK m \in QueueMsgs : /\ queue[m] > 0
                             /\ queue' = [queue EXCEPT ![m] = @ - 1]
                             /\ pc' = [pc EXCEPT ![a] = Entry(m.task)]
  BY DEF Take, Goto
<1>2. /\ UNCHANGED <<job, upload, purged, stack, tick>>
      /\ DispatchMsg \in QueueMsgs /\ queue[DispatchMsg] \in Nat
      /\ pc[a] = "idle"
  BY DEF Take, storeVars, historyVars, TypeOK, DataTypes, QueueMsgs
<1>3. CASE m = DispatchMsg
  <2>1. Entry(m.task) = "d_load"
    BY <1>3 DEF Entry, DispatchMsg
  <2>2. Early /\ queue[DispatchMsg] = 1 /\ \A b \in Actors : pc[b] \notin EarlyLabels
    BY <1>1, <1>2, <1>3 DEF Early, DispatchInv
  <2>3. queue'[DispatchMsg] = 0 /\ \A n \in QueueMsgs : n # DispatchMsg => queue'[n] = 0
    BY <1>1, <1>3, <2>2, EarlyBlocks DEF TypeOK, DataTypes
  <2>4. \A b \in Actors : pc'[b] \in EarlyLabels => b = a
    BY <1>1, <2>2 DEF TypeOK, ActorTypes
  <2>5. \A b \in Actors : EarlyActor(b)'
    <3> SUFFICES ASSUME NEW b \in Actors PROVE EarlyActor(b)'
      OBVIOUS
    <3>1. EarlyActor(b)
      BY <2>2, EarlyBlocks
    <3> QED BY <1>1, <1>2, <2>1, <3>1 DEF TypeOK, ActorTypes, EarlyActor, EarlyLabels
  <2>6. Pristine'
    BY <1>2, <2>2, <2>3, <2>5, EarlyBlocks DEF Pristine, EarlyActor
  <2> QED BY <2>3, <2>4, <2>6 DEF DispatchInv
<1>4. CASE m # DispatchMsg
  <2>1. ~Early
    <3>1. queue[m] # 0
      BY <1>1
    <3> QED BY <1>4, <3>1, EarlyBlocks
  <2>2. queue[DispatchMsg] = 0 /\ \A b \in Actors : pc[b] \notin EarlyLabels
    BY <1>2, <2>1 DEF Early
  <2>3. m.task \in {"row", "finalize"}
    BY <1>4 DEF QueueMsgs, RowMsg, DispatchMsg, FinalizeMsg
  <2>4. Entry(m.task) \notin EarlyLabels
    BY <2>3 DEF Entry, EarlyLabels
  <2>5. \A b \in Actors : pc'[b] \notin EarlyLabels
    BY <1>1, <2>2, <2>4 DEF TypeOK, ActorTypes
  <2>6. queue'[DispatchMsg] = 0
    BY <1>1, <1>4, <2>2 DEF TypeOK, DataTypes
  <2> QED BY <2>5, <2>6 DEF DispatchInv, Early
<1> QED BY <1>3, <1>4

LEMMA RedeliverDispatch ==
  ASSUME TypeOK, DispatchInv, DispatchedOnce, NEW m \in QueueMsgs, Redeliver(m)
  PROVE  DispatchInv'
<1>1. /\ queue[m] > 0 /\ m # DispatchMsg
      /\ queue' = [queue EXCEPT ![m] = @ + 1] /\ pc' = pc
  BY DEF Redeliver, Publish, Fault, DispatchedOnce, DispatchMsg, actorVars
<1>2. ~Early
  <2>1. queue[m] # 0
    BY <1>1
  <2> QED BY <1>1, <2>1, EarlyBlocks
<1>3. queue[DispatchMsg] = 0 /\ \A b \in Actors : pc[b] \notin EarlyLabels
  <2>1. queue[DispatchMsg] \in Nat
    BY DEF TypeOK, DataTypes, QueueMsgs
  <2> QED BY <1>2, <2>1 DEF Early
<1>4. queue'[DispatchMsg] = 0 /\ \A b \in Actors : pc'[b] \notin EarlyLabels
  BY <1>1, <1>3 DEF TypeOK, DataTypes
<1> QED BY <1>4 DEF DispatchInv, Early

LEMMA RaiseInWindowPlain ==
  ASSUME TypeOK, NEW a \in Actors, RaiseInWindow(a)
  PROVE  Plain /\ Late(a)
<1>1. \/ \E st : Return(a, st)
      \/ Release(a)
      \/ Goto(a, "d_failed") /\ buf' = buf /\ <<"raise", "d_window">> \in FaultPoints
  BY DEF RaiseInWindow, Fault
<1>2. <<"raise", "d_window">> \in FaultPoints => "d_failed" \notin Watched
  BY DEF Watched, EarlyLabels, FinalizeLabels, FailsEarly
<1>3. ActorPlain
  BY <1>1, <1>2, ReturnPlain, ReleasePlain, GotoPlain
<1>4. DataPlain /\ results' = results
  BY DEF DataPlain, RaiseInWindow, storeVars, historyVars
<1>5. Late(a)
  BY DEF RaiseInWindow, Late, EarlyLabels
<1> QED BY <1>3, <1>4, <1>5 DEF Plain

(* The labels of an actor that holds no dispatch token.                    *)
LEMMA GotoLate ==
  ASSUME TypeOK, NEW a \in Actors, NEW l, Goto(a, l), l \notin EarlyLabels
  PROVE  \A b \in Actors : pc'[b] \in EarlyLabels => pc'[b] = pc[b]
  BY DEF TypeOK, ActorTypes, Goto

LEMMA StoreRowResultDispatch ==
  ASSUME TypeOK, DispatchInv, NEW a \in Actors, StoreRowResult(a)
  PROVE  DispatchInv' /\ ActorPlain /\ DataPlain
<1>1. PICK l \in {"bump", "settle"} : Goto(a, l)
  BY DEF StoreRowResult
<1>2. ActorPlain
  BY <1>1, GotoPlain DEF StoreRowResult, Watched, EarlyLabels, FinalizeLabels
<1>3. DataPlain
  BY DEF DataPlain, StoreRowResult, historyVars
<1> QED BY <1>1, <1>2, <1>3, GotoLate, LateDispatch DEF StoreRowResult, EarlyLabels, DataPlain

LEMMA ClaimFinalizeDispatch ==
  ASSUME TypeOK, DispatchInv, NEW a \in Actors, ClaimFinalize(a)
  PROVE  DispatchInv'
<1>1. PICK l \in {"publish_finalize", "read"} : Goto(a, l)
  BY DEF ClaimFinalize
<1> QED BY <1>1, GotoLate, LateDispatch DEF ClaimFinalize, EarlyLabels

LEMMA SweepClaimDispatch ==
  ASSUME TypeOK, DispatchInv, NEW a \in Actors, SweepClaim(a)
  PROVE  DispatchInv'
<1>1. PICK l \in {"sweep_publish", "topup"} : Goto(a, l)
  BY DEF SweepClaim
<1> QED BY <1>1, GotoLate, LateDispatch DEF SweepClaim, EarlyLabels

LEMMA PublishFinalizeQueue ==
  ASSUME TypeOK, Publish(FinalizeMsg)
  PROVE  /\ queue'[DispatchMsg] = queue[DispatchMsg]
         /\ queue'[FinalizeMsg] = queue[FinalizeMsg] + 1
  BY DEF TypeOK, DataTypes, Publish, DispatchMsg, FinalizeMsg, QueueMsgs

LEMMA PublishFinalizeDispatch ==
  ASSUME TypeOK, DispatchInv, NEW a \in Actors, PublishFinalize(a)
  PROVE  DispatchInv'
<1>1. \A b \in Actors : pc'[b] \in EarlyLabels => pc'[b] = pc[b]
  BY ReturnPlain DEF PublishFinalize, ActorPlain, Watched
<1> QED BY <1>1, PublishFinalizeQueue, LateDispatch DEF PublishFinalize, EarlyLabels

LEMMA SweepPublishDispatch ==
  ASSUME TypeOK, DispatchInv, NEW a \in Actors, SweepPublish(a)
  PROVE  DispatchInv'
<1>1. \A b \in Actors : pc'[b] \in EarlyLabels => pc'[b] = pc[b]
  BY GotoLate DEF SweepPublish, EarlyLabels
<1> QED BY <1>1, PublishFinalizeQueue, LateDispatch DEF SweepPublish, EarlyLabels

LEMMA FinalizeDispatch ==
  ASSUME TypeOK, DispatchInv, NEW a \in Actors, FinalizeStep(a) \/ RaiseInFinalize(a)
  PROVE  DispatchInv'
<1>1. pc[a] \in FinalizeLabels /\ queue' = queue
  BY DEF FinalizeStep, FinalizeStart, FinalizeLoad, FinalizeCollect, FinalizePut,
     FinalizeComplete, CleanUpload, CleanResults, CleanRowArgs, RaiseInFinalize,
     FinalizeLabels
<1>2. \/ Release(a)
      \/ \E l \in FinalizeLabels : Goto(a, l)
  BY DEF FinalizeStep, FinalizeStart, FinalizeLoad, FinalizeCollect, FinalizePut,
     FinalizeComplete, CleanUpload, CleanResults, CleanRowArgs, RaiseInFinalize,
     FinalizeLabels
<1>3. \A b \in Actors : pc'[b] \in EarlyLabels => pc'[b] = pc[b]
  <2>1. CASE Release(a)
    BY <2>1, ReleasePlain DEF ActorPlain, Watched
  <2>2. CASE \E l \in FinalizeLabels : Goto(a, l)
    BY <2>2, GotoLate DEF EarlyLabels, FinalizeLabels
  <2> QED BY <1>2, <2>1, <2>2
<1> QED BY <1>1, <1>3, LateDispatch DEF FinalizeLabels, EarlyLabels

LEMMA PlainDispatch ==
  ASSUME TypeOK, DispatchInv, NEW a \in Actors, Plain /\ Late(a)
  PROVE  DispatchInv'
  BY LateDispatch DEF Plain, Late, ActorPlain, DataPlain, Watched

LEMMA InitDispatch == ASSUME Init PROVE DispatchInv
<1>1. queue[DispatchMsg] = 1 /\ \A m \in QueueMsgs : m # DispatchMsg => queue[m] = 0
  BY DEF Init, QueueMsgs
<1>2. \A a \in Actors : pc[a] = "idle" /\ tick[a].deficit <= 0 /\ stack[a] = <<>>
  BY DEF Init, NoTick
<1>3. Pristine
  BY <1>1, <1>2 DEF Init, Pristine
<1> QED BY <1>1, <1>2, <1>3 DEF DispatchInv, EarlyLabels

LEMMA StepDispatch ==
  ASSUME TypeOK, DispatchInv, DispatchedOnce, [Next]_vars
  PROVE  DispatchInv'
<1>1. ASSUME NEW a \in Actors, Run(a) PROVE DispatchInv'
  <2>1. CASE RowStep(a)
    BY <2>1, PlainDispatch, MatchSucceedsPlain, MatchRetriesPlain, MatchExhaustedPlain,
       MatchBreaksPlain, StoreRowResultDispatch, BumpCountersPlain, ClaimFinalizeDispatch,
       PublishFinalizeDispatch DEF RowStep
  <2>2. CASE WindowStep(a)
    BY <2>2, PlainDispatch, ReadCursorPlain, SwapCursorPlain, FetchRowArgsPlain,
       PublishRowPlain, FailUnrecoverablePlain, WindowDonePlain DEF WindowStep
  <2>3. CASE DispatchStep(a)
    BY <2>3, PlainDispatch, DispatchLoadDispatch, DispatchMarkDispatch, CacheRowArgsPlain,
       DispatchFailedDispatch DEF DispatchStep
  <2>4. CASE TickStep(a)
    BY <2>4, SweepSelectDispatch, SweepClaimDispatch, SweepPublishDispatch, TopUpDispatch
    DEF TickStep
  <2> QED BY <1>1, <2>1, <2>2, <2>3, <2>4, FinalizeDispatch DEF Run
<1>2. ASSUME NEW a \in Actors, Raise(a) PROVE DispatchInv'
  BY <1>2, PlainDispatch, RaiseInRowPlain, RaiseInUnrecoverablePlain, RaiseInSettlePlain,
     RaiseInWindowPlain, RaiseInDispatchDispatch, FinalizeDispatch, RaiseInSweepDispatch
  DEF Raise
<1>3. CASE UNCHANGED vars
  <2>1. UNCHANGED <<job, upload, purged, queue, pc, stack, tick>>
    BY <1>3 DEF vars, storeVars, historyVars, actorVars
  <2> QED BY <2>1 DEF DispatchInv, Early, Pristine
<1>4. ASSUME NEW a \in Workers, Take(a) PROVE DispatchInv'
  BY <1>4, TakeDispatch DEF Actors
<1>5. ASSUME NEW a \in Beats, TickStart(a) PROVE DispatchInv'
  BY <1>5, TickStartDispatch DEF Actors
<1> QED
  BY <1>1, <1>2, <1>3, <1>4, <1>5, PlainDispatch, CrashDispatch, ArgsMissPlain,
     RedeliverDispatch DEF Next

-----------------------------------------------------------------------------
(* The order of finalize_batch.                                            *)
LEMMA GotoDelivers ==
  ASSUME TypeOK, DeliverInv, NEW a \in Actors, NEW l, Goto(a, l),
         job'.status = job.status,
         l \in CleanLabels => job.status = "completed",
         l = "f_complete" \/ output # {} => output' # {},
         ~upload' \/ purged' => ~upload \/ purged \/ job.status = "completed"
  PROVE  DeliverInv'
<1>1. pc' = [pc EXCEPT ![a] = l]
  BY DEF Goto
<1>2. \A b \in Actors : pc'[b] \in CleanLabels => job'.status = "completed"
  BY <1>1 DEF DeliverInv, TypeOK, ActorTypes
<1>3. \A b \in Actors : pc'[b] = "f_complete" => output' # {}
  BY <1>1 DEF DeliverInv, TypeOK, ActorTypes
<1> QED BY <1>2, <1>3 DEF DeliverInv, InputsOutliveTheOutput

LEMMA ActorDelivers ==
  ASSUME DeliverInv, ActorPlain, job'.status = job.status, UNCHANGED <<upload, output, purged>>
  PROVE  DeliverInv'
<1>1. \A b \in Actors : pc'[b] \in CleanLabels \cup {"f_complete"} => pc'[b] = pc[b]
  BY DEF ActorPlain, Watched, CleanLabels, FinalizeLabels
<1> QED BY <1>1 DEF DeliverInv, InputsOutliveTheOutput

LEMMA ClaimDelivers ==
  ASSUME TypeOK, DeliverInv, NEW a \in Actors, ClaimFinalize(a) \/ SweepClaim(a)
  PROVE  DeliverInv'
<1>1. PICK l \in {"publish_finalize", "read", "sweep_publish", "topup"} : Goto(a, l)
  BY DEF ClaimFinalize, SweepClaim
<1>2. job'.status = job.status /\ UNCHANGED <<upload, output, purged>>
  BY DEF ClaimFinalize, SweepClaim, storeVars, historyVars, TypeOK, DataTypes, JobType
<1> QED BY <1>1, <1>2, GotoDelivers DEF CleanLabels

LEMMA PublishFinalizeDelivers ==
  ASSUME TypeOK, DeliverInv, NEW a \in Actors, PublishFinalize(a)
  PROVE  DeliverInv'
  BY ReturnPlain, ActorDelivers DEF PublishFinalize, storeVars, historyVars

LEMMA SweepPublishDelivers ==
  ASSUME TypeOK, DeliverInv, NEW a \in Actors, SweepPublish(a)
  PROVE  DeliverInv'
  BY GotoDelivers DEF SweepPublish, storeVars, historyVars, CleanLabels

LEMMA TakeDelivers ==
  ASSUME TypeOK, DeliverInv, NEW a \in Actors, Take(a)
  PROVE  DeliverInv'
<1>1. PICK m \in QueueMsgs : Goto(a, Entry(m.task))
  BY DEF Take
<1>2. Entry(m.task) \in {"match", "d_load", "f_start"}
  BY DEF QueueMsgs, RowMsg, DispatchMsg, FinalizeMsg, Entry
<1> QED BY <1>1, <1>2, GotoDelivers DEF Take, storeVars, historyVars, CleanLabels

LEMMA DispatchDelivers ==
  ASSUME TypeOK, DispatchInv, DeliverInv, FailsEarly, NEW a \in Actors,
         DispatchLoad(a) \/ DispatchMark(a) \/ DispatchFailed(a) \/ RaiseInDispatch(a)
  PROVE  DeliverInv'
<1>1. CASE DispatchLoad(a)
  <2>1. PICK l \in {"d_mark", "d_failed"} : Goto(a, l)
    BY <1>1 DEF DispatchLoad
  <2> QED BY <1>1, <2>1, GotoDelivers DEF DispatchLoad, storeVars, historyVars, CleanLabels
<1>2. CASE RaiseInDispatch(a)
  <2>1. /\ job' = job /\ UNCHANGED <<upload, output, purged>>
        /\ Release(a) \/ Goto(a, "read") \/ Goto(a, "d_failed")
    BY <1>2 DEF RaiseInDispatch, storeVars, historyVars
  <2> QED BY <2>1, GotoDelivers, ReleasePlain, ActorDelivers DEF CleanLabels
<1>3. CASE DispatchMark(a) \/ DispatchFailed(a)
  <2>1. Early
    BY <1>3 DEF DispatchMark, DispatchFailed, Early, EarlyLabels
  <2>2. \A b \in Actors : pc[b] \notin CleanLabels \cup {"f_complete"}
    BY <2>1, EarlyBlocks DEF EarlyActor, EarlyLabels, CleanLabels
  <2>3. upload /\ ~purged
    BY <2>1, EarlyBlocks
  <2>4. job'.status # "completed" /\ UNCHANGED <<upload, output, purged>>
    BY <1>3 DEF DispatchMark, DispatchFailed, storeVars, historyVars, TypeOK, DataTypes, JobType
  <2>5. PICK l \in {"idle", "d_empty", "d_cache"} : Goto(a, l)
    BY <1>3 DEF DispatchMark, DispatchFailed, Release
  <2>6. \A b \in Actors : pc'[b] \notin CleanLabels \cup {"f_complete"}
    BY <2>2, <2>5 DEF Goto, TypeOK, ActorTypes, CleanLabels
  <2> QED BY <2>3, <2>4, <2>6 DEF DeliverInv, InputsOutliveTheOutput
<1> QED BY <1>1, <1>2, <1>3

LEMMA FinalizeDelivers ==
  ASSUME TypeOK, DeliverInv, NEW a \in Actors, FinalizeStep(a) \/ RaiseInFinalize(a)
  PROVE  DeliverInv'
<1>1. CASE FinalizeStart(a) \/ FinalizeLoad(a)
  <2>1. /\ job' = job /\ UNCHANGED <<upload, output, purged>>
        /\ Release(a) \/ Goto(a, "f_load") \/ Goto(a, "f_collect")
    BY <1>1 DEF FinalizeStart, FinalizeLoad, storeVars, historyVars
  <2> QED BY <2>1, GotoDelivers, ReleasePlain, ActorDelivers DEF CleanLabels
<1>2. CASE FinalizeCollect(a)
  BY <1>2, GotoDelivers DEF FinalizeCollect, storeVars, historyVars, CleanLabels
<1>3. CASE FinalizePut(a)
  BY <1>3, GotoDelivers DEF FinalizePut, historyVars, CleanLabels
<1>4. CASE FinalizeComplete(a)
  <2>1. /\ job'.status = "completed" /\ UNCHANGED <<upload, output, purged>>
        /\ pc' = [pc EXCEPT ![a] = "f_clean_upload"]
    BY <1>4 DEF FinalizeComplete, Goto, storeVars, historyVars, TypeOK, DataTypes, JobType
  <2>2. output # {}
    BY <1>4 DEF FinalizeComplete, DeliverInv
  <2> QED BY <2>1, <2>2 DEF DeliverInv, InputsOutliveTheOutput
<1>5. CASE CleanUpload(a)
  <2>1. job.status = "completed"
    BY <1>5 DEF CleanUpload, DeliverInv, CleanLabels
  <2> QED BY <1>5, <2>1, GotoDelivers DEF CleanUpload, historyVars, CleanLabels
<1>6. CASE CleanResults(a)
  <2>1. job.status = "completed"
    BY <1>6 DEF CleanResults, DeliverInv, CleanLabels
  <2> QED BY <1>6, <2>1, GotoDelivers DEF CleanResults, CleanLabels
<1>7. CASE CleanRowArgs(a)
  BY <1>7, CleanRowArgsPlain, PlainDelivers DEF Plain
<1>8. CASE RaiseInFinalize(a)
  <2>1. /\ job' = job /\ UNCHANGED <<upload, output, purged>>
        /\ \/ Release(a)
           \/ \E l \in CleanLabels : Goto(a, l) /\ pc[a] \in CleanLabels
    BY <1>8 DEF RaiseInFinalize, storeVars, historyVars, CleanLabels
  <2>2. CASE Release(a)
    BY <2>1, <2>2, ReleasePlain, ActorDelivers
  <2>3. CASE \E l \in CleanLabels : Goto(a, l) /\ pc[a] \in CleanLabels
    <3>1. PICK l \in CleanLabels : Goto(a, l) /\ pc[a] \in CleanLabels
      BY <2>3
    <3>2. job.status = "completed" /\ l # "f_complete"
      BY <3>1 DEF DeliverInv, CleanLabels
    <3> QED BY <2>1, <3>1, <3>2, GotoDelivers
  <2> QED BY <2>1, <2>2, <2>3
<1> QED BY <1>1, <1>2, <1>3, <1>4, <1>5, <1>6, <1>7, <1>8 DEF FinalizeStep

LEMMA StepDelivers ==
  ASSUME TypeOK, DispatchInv, DeliverInv, FailsEarly, [Next]_vars
  PROVE  DeliverInv'
<1>1. ASSUME Plain PROVE DeliverInv'
  BY <1>1, PlainDelivers DEF Plain
<1>2. ASSUME NEW a \in Actors, StoreRowResult(a) PROVE DeliverInv'
  BY <1>2, StoreRowResultDispatch, PlainDelivers
<1>3. ASSUME NEW a \in Actors, Run(a) PROVE DeliverInv'
  <2>1. CASE RowStep(a)
    BY <2>1, <1>1, <1>2, MatchSucceedsPlain, MatchRetriesPlain, MatchExhaustedPlain,
       MatchBreaksPlain, BumpCountersPlain, ClaimDelivers, PublishFinalizeDelivers
    DEF RowStep
  <2>2. CASE WindowStep(a)
    BY <2>2, <1>1, ReadCursorPlain, SwapCursorPlain, FetchRowArgsPlain,
       PublishRowPlain, FailUnrecoverablePlain, WindowDonePlain DEF WindowStep
  <2>3. CASE DispatchStep(a)
    BY <2>3, <1>1, DispatchDelivers, CacheRowArgsPlain DEF DispatchStep
  <2>4. CASE TickStep(a)
    BY <2>4, <1>1, SweepSelectPlain, ClaimDelivers, SweepPublishDelivers, TopUpPlain
    DEF TickStep
  <2> QED BY <1>3, <2>1, <2>2, <2>3, <2>4, FinalizeDelivers DEF Run
<1>4. ASSUME NEW a \in Actors, Raise(a) PROVE DeliverInv'
  BY <1>4, <1>1, RaiseInRowPlain, RaiseInUnrecoverablePlain, RaiseInSettlePlain,
     RaiseInWindowPlain, DispatchDelivers, FinalizeDelivers, RaiseInSweepPlain
  DEF Raise
<1>5. CASE UNCHANGED vars
  BY <1>5 DEF DeliverInv, InputsOutliveTheOutput, vars, storeVars, historyVars, actorVars
<1>6. ASSUME NEW a \in Workers, Take(a) PROVE DeliverInv'
  BY <1>6, TakeDelivers DEF Actors
<1>7. ASSUME NEW a \in Beats, TickStart(a) PROVE DeliverInv'
  BY <1>7, <1>1, TickStartPlain DEF Actors
<1>8. ASSUME NEW m \in QueueMsgs, Redeliver(m) PROVE DeliverInv'
  BY <1>8 DEF DeliverInv, InputsOutliveTheOutput, Redeliver, storeVars, historyVars, actorVars
<1> QED
  BY <1>1, <1>3, <1>4, <1>5, <1>6, <1>7, <1>8, CrashPlain, ArgsMissPlain DEF Next

LEMMA InitDelivers == ASSUME Init PROVE DeliverInv
  BY DEF Init, DeliverInv, InputsOutliveTheOutput, CleanLabels

(* finalize_batch gives up the upload and the results hash only after the  *)
(* output is written and the job committed as completed, and no dispatch   *)
(* takes that back: for every upload, any number of workers, any crash and *)
(* any error but those FailsEarly names.                                   *)
THEOREM InputsOutliveTheOutputHolds ==
  ASSUME DispatchedOnce, FailsEarly
  PROVE  Spec => []InputsOutliveTheOutput
<1>1. Init => TypeOK /\ DispatchInv /\ DeliverInv
  BY InitTypes, InitDispatch, InitDelivers
<1>2. TypeOK /\ DispatchInv /\ DeliverInv /\ [Next]_vars
        => TypeOK' /\ DispatchInv' /\ DeliverInv'
  BY DispatchedOnce, FailsEarly, StepTypes, StepDispatch, StepDelivers
<1>3. DeliverInv => InputsOutliveTheOutput
  BY DEF DeliverInv
<1> QED BY <1>1, <1>2, <1>3, PTL DEF Spec

-----------------------------------------------------------------------------
(* The finalize token.                                                     *)
LEMMA FinalKeeps ==
  ASSUME FinalInv,
         \A b \in Actors : Held(b)' => pc'[b] = pc[b] /\ buf'[b] = buf[b],
         UNCHANGED <<results, output, purged>>, job'.claimed = job.claimed,
         job'.status = "completed" => job.status = "completed",
         queue'[FinalizeMsg] = queue[FinalizeMsg]
  PROVE  FinalInv'
<1>1. \A b \in Actors : Held(b)' => Held(b)
  BY DEF Held
<1>2. \A b \in Actors : pc'[b] \in {"f_put", "f_complete"} => Held(b)'
  BY DEF Held, FinalizeLabels
<1> QED BY <1>1, <1>2 DEF FinalInv

LEMMA PlainFinal ==
  ASSUME FinalInv, ActorPlain, DataPlain, results' = results
  PROVE  FinalInv'
<1>1. \A b \in Actors : Held(b)' => pc'[b] = pc[b] /\ buf'[b] = buf[b]
  BY DEF ActorPlain, Watched, Held
<1> QED BY <1>1, FinalKeeps DEF DataPlain

LEMMA GotoFinal ==
  ASSUME TypeOK, FinalInv, NEW a \in Actors, NEW l, Goto(a, l), buf' = buf,
         l \notin Watched \/ l \in EarlyLabels,
         UNCHANGED <<results, output, purged>>, job'.claimed = job.claimed,
         job'.status = "completed" => job.status = "completed",
         queue'[FinalizeMsg] = queue[FinalizeMsg]
  PROVE  FinalInv'
<1>1. l \notin {"publish_finalize", "sweep_publish"} \cup FinalizeLabels
  BY DEF Watched, EarlyLabels, FinalizeLabels
<1>2. \A b \in Actors : Held(b)' => pc'[b] = pc[b] /\ buf'[b] = buf[b]
  BY <1>1 DEF Goto, TypeOK, ActorTypes, Held
<1> QED BY <1>2, FinalKeeps

LEMMA ReleaseFinal ==
  ASSUME TypeOK, FinalInv, NEW a \in Actors, Release(a),
         UNCHANGED <<results, output, purged>>, job'.claimed = job.claimed,
         job'.status = "completed" => job.status = "completed",
         queue'[FinalizeMsg] = queue[FinalizeMsg]
  PROVE  FinalInv'
<1>1. \A b \in Actors : Held(b)' => pc'[b] = pc[b] /\ buf'[b] = buf[b]
  BY ReleasePlain DEF ActorPlain, Watched, Held
<1> QED BY <1>1, FinalKeeps

(* While the finalize task runs and has not deleted the results hash,      *)
(* every row has its outcome.                                              *)
LEMMA FinalStored ==
  ASSUME TypeOK, CountingInv, FinalInv, N # 0, NEW a \in Actors,
         pc[a] \in FinalizeLabels \ {"f_clean_rowargs"}
  PROVE  ~purged /\ Stored = Rows
<1>1. Held(a) /\ pc[a] # "f_clean_rowargs"
  BY DEF Held
<1>2. ~purged
  BY <1>1 DEF FinalInv
<1>3. counted = Rows
  BY DEF CountingInv
<1> QED BY <1>2, <1>3 DEF CountingInv, Stored

LEMMA StoreRowResultFinal ==
  ASSUME TypeOK, CountingInv, FinalInv, NEW a \in Actors, StoreRowResult(a)
  PROVE  FinalInv'
<1> SUFFICES ASSUME N # 0 PROVE FinalInv'
  BY DEF FinalInv
<1>1. PICK l \in {"bump", "settle"} : Goto(a, l)
  BY DEF StoreRowResult
<1>2. /\ UNCHANGED <<output, purged, job, queue, buf>>
      /\ \A b \in Actors : pc'[b] = IF b = a THEN l ELSE pc[b]
  BY <1>1 DEF StoreRowResult, historyVars, Goto, TypeOK, ActorTypes
<1>3. \A b \in Actors : Held(b)' <=> (Held(b) /\ b # a)
  BY <1>2 DEF Held, FinalizeLabels, StoreRowResult
<1>4. ASSUME NEW b \in Actors, pc'[b] \in {"f_put", "f_complete"}
      PROVE  results' = results /\ pc[b] = pc'[b]
  <2>1. pc[b] = pc'[b]
    BY <1>2, <1>4
  <2>2. Stored = Rows
    BY <1>4, <2>1, FinalStored DEF FinalizeLabels
  <2>3. rec[a].row \in Rows
    BY DEF TypeOK, InHand, StoreRowResult
  <2>4. ~FirstWriter(rec[a].row)
    BY <2>2, <2>3 DEF FirstWriter, Stored
  <2> QED BY <2>1, <2>4 DEF StoreRowResult
<1>5. /\ queue'[FinalizeMsg] <= 1
      /\ queue'[FinalizeMsg] > 0 => job'.claimed /\ \A b \in Actors : ~Held(b)'
      /\ \A b \in Actors : Held(b)' => job'.claimed /\ \A c \in Actors : Held(c)' => c = b
  BY <1>2, <1>3 DEF FinalInv
<1>6. job'.status = "completed" \/ purged' =>
        job'.claimed /\ queue'[FinalizeMsg] = 0 /\ \A b \in Actors : Held(b)' => pc'[b] \in CleanLabels
  BY <1>2, <1>3 DEF FinalInv
<1>7. \A b \in Actors :
        /\ pc'[b] = "f_put" => buf'[b] = results'
        /\ pc'[b] = "f_complete" => output' = {results'}
        /\ purged' /\ Held(b)' => pc'[b] = "f_clean_rowargs"
  BY <1>2, <1>3, <1>4 DEF FinalInv
<1> QED BY <1>5, <1>6, <1>7 DEF FinalInv

(* The claim: nobody held the token before.                                *)
LEMMA ClaimFinal ==
  ASSUME TypeOK, CountingInv, FinalInv, NEW a \in Actors, ClaimFinalize(a) \/ SweepClaim(a)
  PROVE  FinalInv'
<1> SUFFICES ASSUME N # 0 PROVE FinalInv'
  BY DEF FinalInv
<1>1. /\ UNCHANGED <<results, output, purged, queue, buf>>
      /\ job'.status = job.status
  BY DEF ClaimFinalize, SweepClaim, storeVars, historyVars, TypeOK, DataTypes, JobType
<1>2. CASE ~ClaimMatches
  <2>1. job' = job /\ (Goto(a, "read") \/ Goto(a, "topup"))
    BY <1>2 DEF ClaimFinalize, SweepClaim
  <2> QED BY <1>1, <2>1, GotoFinal DEF Watched, EarlyLabels, FinalizeLabels
<1>3. CASE ClaimMatches
  <2>1. PICK l \in {"publish_finalize", "sweep_publish"} : Goto(a, l)
    BY <1>3 DEF ClaimFinalize, SweepClaim
  <2>2. ~job.claimed /\ job'.claimed
    BY <1>3 DEF ClaimFinalize, SweepClaim, ClaimMatches, TypeOK, DataTypes, JobType
  <2>3. \A b \in Actors : pc'[b] = IF b = a THEN l ELSE pc[b]
    BY <2>1 DEF Goto, TypeOK, ActorTypes
  <2>4. /\ \A b \in Actors : ~Held(b)
        /\ job.status # "completed" /\ ~purged
    BY <2>2 DEF FinalInv
  <2>5. queue[FinalizeMsg] = 0
    <3>1. ~(queue[FinalizeMsg] > 0)
      BY <2>2 DEF FinalInv
    <3>2. queue[FinalizeMsg] \in Nat
      BY DEF TypeOK, DataTypes, QueueMsgs
    <3> QED BY <3>1, <3>2
  <2>6. \A b \in Actors : Held(b)' => b = a
    BY <2>3, <2>4 DEF Held
  <2>7. \A b \in Actors : pc'[b] \notin {"f_put", "f_complete"}
    BY <2>3, <2>4 DEF Held, FinalizeLabels
  <2>8. queue'[FinalizeMsg] = 0 /\ job'.status # "completed" /\ ~purged'
    BY <1>1, <2>4, <2>5
  <2> QED BY <2>2, <2>6, <2>7, <2>8 DEF FinalInv
<1> QED BY <1>2, <1>3

(* The holder publishes the message and lets go.                           *)
LEMMA PublishFinal ==
  ASSUME TypeOK, CountingInv, FinalInv, NEW a \in Actors, PublishFinalize(a) \/ SweepPublish(a)
  PROVE  FinalInv'
<1> SUFFICES ASSUME N # 0 PROVE FinalInv'
  BY DEF FinalInv
<1>1. pc[a] \in {"publish_finalize", "sweep_publish"}
  BY DEF PublishFinalize, SweepPublish, CountingInv
<1>2. Held(a) /\ pc[a] \notin CleanLabels
  BY <1>1 DEF Held, CleanLabels
<1>3. /\ job.claimed /\ \A b \in Actors : Held(b) => b = a
      /\ job.status # "completed" /\ ~purged
  BY <1>2 DEF FinalInv
<1>4. queue[FinalizeMsg] = 0
  <2>1. ~(queue[FinalizeMsg] > 0)
    BY <1>2 DEF FinalInv
  <2>2. queue[FinalizeMsg] \in Nat
    BY DEF TypeOK, DataTypes, QueueMsgs
  <2> QED BY <2>1, <2>2
<1>5. queue'[FinalizeMsg] = 1 /\ UNCHANGED <<job, purged>>
  BY <1>4, PublishFinalizeQueue DEF PublishFinalize, SweepPublish, storeVars, historyVars
<1>6. ActorPlain /\ pc'[a] \notin Watched
  <2>1. CASE SweepPublish(a)
    BY <2>1, GotoPlain DEF SweepPublish, Goto, Watched, EarlyLabels, FinalizeLabels, TypeOK, ActorTypes
  <2>2. CASE PublishFinalize(a)
    <3>1. Return(a, stack[a])
      BY <2>2 DEF PublishFinalize
    <3>2. Goto(a, "idle") \/ Goto(a, "publish") \/ Goto(a, "topup")
      BY <3>1 DEF Return, Release
    <3> QED BY <3>1, <3>2, ReturnPlain DEF Goto, Watched, EarlyLabels, FinalizeLabels, TypeOK, ActorTypes
  <2> QED BY <2>1, <2>2
<1>7. \A b \in Actors : ~Held(b)'
  BY <1>3, <1>6 DEF ActorPlain, Watched, Held
<1>8. \A b \in Actors : pc'[b] \notin {"f_put", "f_complete"}
  BY <1>7 DEF Held, FinalizeLabels
<1> QED BY <1>3, <1>5, <1>7, <1>8 DEF FinalInv

LEMMA TakeFinal ==
  ASSUME TypeOK, FinalInv, NEW a \in Actors, Take(a)
  PROVE  FinalInv'
<1> SUFFICES ASSUME N # 0 PROVE FinalInv'
  BY DEF FinalInv
<1>1. PICK m \in QueueMsgs : /\ queue[m] > 0
                             /\ queue' = [queue EXCEPT ![m] = @ - 1]
                             /\ Goto(a, Entry(m.task))
  BY DEF Take
<1>2. /\ UNCHANGED <<job, results, output, purged, buf>>
      /\ FinalizeMsg \in QueueMsgs /\ queue[FinalizeMsg] \in Nat
  BY DEF Take, storeVars, historyVars, TypeOK, DataTypes, QueueMsgs
<1>3. CASE m # FinalizeMsg
  <2>1. m.task \in {"row", "dispatch"}
    BY <1>3 DEF QueueMsgs, RowMsg, DispatchMsg, FinalizeMsg
  <2>2. Entry(m.task) \in {"match", "d_load"}
    BY <2>1 DEF Entry
  <2>3. queue'[FinalizeMsg] = queue[FinalizeMsg]
    BY <1>1, <1>3 DEF TypeOK, DataTypes
  <2> QED BY <1>1, <1>2, <2>2, <2>3, GotoFinal DEF Watched, EarlyLabels, FinalizeLabels
<1>4. CASE m = FinalizeMsg
  <2>1. \A b \in Actors : pc'[b] = IF b = a THEN "f_start" ELSE pc[b]
    BY <1>1, <1>4 DEF Entry, FinalizeMsg, Goto, TypeOK, ActorTypes
  <2>2. /\ job.claimed /\ (\A b \in Actors : ~Held(b))
        /\ queue[FinalizeMsg] = 1
    BY <1>1, <1>2, <1>4 DEF FinalInv
  <2>3. job.status # "completed" /\ ~purged
    BY <2>2 DEF FinalInv
  <2>4. queue'[FinalizeMsg] = 0
    BY <1>1, <1>4, <2>2 DEF TypeOK, DataTypes
  <2>5. \A b \in Actors : Held(b)' => b = a
    BY <2>1, <2>2 DEF Held
  <2>6. \A b \in Actors : pc'[b] \notin {"f_put", "f_complete"}
    BY <2>1, <2>2 DEF Held, FinalizeLabels
  <2> QED BY <1>2, <2>2, <2>3, <2>4, <2>5, <2>6 DEF FinalInv
<1> QED BY <1>3, <1>4

LEMMA RedeliverFinal ==
  ASSUME TypeOK, FinalInv, FinalizeOnce, NEW m \in QueueMsgs, Redeliver(m)
  PROVE  FinalInv'
<1>1. m # FinalizeMsg /\ queue' = [queue EXCEPT ![m] = @ + 1]
  BY DEF Redeliver, Publish, Fault, FinalizeOnce, FinalizeMsg
<1>2. queue'[FinalizeMsg] = queue[FinalizeMsg]
  BY <1>1 DEF TypeOK, DataTypes
<1>3. \A b \in Actors : Held(b)' => pc'[b] = pc[b] /\ buf'[b] = buf[b]
  BY DEF Redeliver, actorVars
<1> QED BY <1>2, <1>3, FinalKeeps DEF Redeliver, storeVars, historyVars

LEMMA DispatchFinal ==
  ASSUME TypeOK, FinalInv, NEW a \in Actors,
         DispatchLoad(a) \/ DispatchMark(a) \/ DispatchFailed(a) \/ RaiseInDispatch(a)
           \/ RaiseInWindow(a)
  PROVE  FinalInv'
<1>1. /\ UNCHANGED <<results, output, purged, queue>> /\ job'.claimed = job.claimed
      /\ job'.status = "completed" => job.status = "completed"
  BY DEF DispatchLoad, DispatchMark, DispatchFailed, RaiseInDispatch, RaiseInWindow,
     storeVars, historyVars, TypeOK, DataTypes, JobType
<1>2. \/ Release(a)
      \/ \E st : Return(a, st)
      \/ \E l \in {"d_mark", "d_failed", "d_empty", "d_cache", "read"} : Goto(a, l) /\ buf' = buf
  BY DEF DispatchLoad, DispatchMark, DispatchFailed, RaiseInDispatch, RaiseInWindow
<1>3. CASE Release(a)
  BY <1>1, <1>3, ReleaseFinal
<1>4. CASE \E st : Return(a, st)
  <2>1. \A b \in Actors : Held(b)' => pc'[b] = pc[b] /\ buf'[b] = buf[b]
    BY <1>4, ReturnPlain DEF ActorPlain, Watched, Held
  <2> QED BY <1>1, <2>1, FinalKeeps
<1>5. CASE \E l \in {"d_mark", "d_failed", "d_empty", "d_cache", "read"} : Goto(a, l) /\ buf' = buf
  BY <1>1, <1>5, GotoFinal DEF Watched, EarlyLabels, FinalizeLabels
<1> QED BY <1>2, <1>3, <1>4, <1>5

(* The holder goes on in finalize_batch.                                   *)
LEMMA HolderMoves ==
  ASSUME TypeOK, FinalInv, N # 0, NEW a \in Actors, NEW l \in FinalizeLabels,
         pc[a] \in FinalizeLabels, Goto(a, l), queue' = queue,
         job'.claimed = job.claimed,
         job'.status = "completed" \/ purged' => l \in CleanLabels,
         l = "f_put" => buf'[a] = results',
         l = "f_complete" => output' = {results'},
         purged' => l = "f_clean_rowargs"
  PROVE  FinalInv'
<1>1. Held(a)
  BY DEF Held
<1>2. /\ job.claimed /\ \A b \in Actors : Held(b) => b = a
      /\ ~(queue[FinalizeMsg] > 0)
  BY <1>1 DEF FinalInv
<1>3. queue'[FinalizeMsg] = 0
  <2>1. queue[FinalizeMsg] \in Nat
    BY DEF TypeOK, DataTypes, QueueMsgs
  <2> QED BY <1>2, <2>1
<1>4. \A b \in Actors : pc'[b] = IF b = a THEN l ELSE pc[b]
  BY DEF Goto, TypeOK, ActorTypes
<1>5. \A b \in Actors : Held(b)' => b = a
  BY <1>2, <1>4 DEF Held
<1>6. \A b \in Actors : pc'[b] \in {"f_put", "f_complete"} => b = a
  BY <1>5 DEF Held, FinalizeLabels
<1> QED BY <1>2, <1>3, <1>4, <1>5, <1>6 DEF FinalInv

LEMMA CollectReadsAll ==
  ASSUME TypeOK, CountingInv, FinalInv, N # 0, NEW a \in Actors, FinalizeCollect(a)
  PROVE  buf'[a] = results /\ results' = results
<1>1. Stored = Rows
  BY FinalStored DEF FinalizeCollect, FinalizeLabels
<1>2. \A r \in Rows : results[r] # "unset"
  BY <1>1 DEF Stored
<1>3. buf'[a] = [r \in Rows |-> IF results[r] = "unset" THEN "gap" ELSE results[r]]
  BY DEF FinalizeCollect, TypeOK, ActorTypes
<1>4. results = [r \in Rows |-> results[r]]
  BY DEF TypeOK, DataTypes
<1>5. [r \in Rows |-> IF results[r] = "unset" THEN "gap" ELSE results[r]] = [r \in Rows |-> results[r]]
  BY <1>2
<1> QED BY <1>3, <1>4, <1>5 DEF FinalizeCollect, storeVars

LEMMA FinalizeFinal ==
  ASSUME TypeOK, CountingInv, FinalInv, NEW a \in Actors, FinalizeStep(a) \/ RaiseInFinalize(a)
  PROVE  FinalInv'
<1> SUFFICES ASSUME N # 0 PROVE FinalInv'
  BY DEF FinalInv
<1>1. pc[a] \in FinalizeLabels /\ queue' = queue /\ job'.claimed = job.claimed
  BY DEF FinalizeStep, FinalizeStart, FinalizeLoad, FinalizeCollect, FinalizePut,
     FinalizeComplete, CleanUpload, CleanResults, CleanRowArgs, RaiseInFinalize,
     FinalizeLabels, TypeOK, DataTypes, JobType
<1>2. Held(a)
  BY <1>1 DEF Held
<1>3. /\ job.status = "completed" \/ purged => pc[a] \in CleanLabels
      /\ purged => pc[a] = "f_clean_rowargs"
  BY <1>2 DEF FinalInv
<1>4. ASSUME Release(a), UNCHANGED <<job, results, output, purged>>
      PROVE  FinalInv'
  BY <1>1, <1>4, ReleaseFinal
<1>5. CASE FinalizeStart(a) \/ FinalizeLoad(a)
  <2>1. /\ UNCHANGED <<job, results, output, purged>> /\ pc[a] \notin CleanLabels
        /\ Release(a) \/ \E l \in {"f_load", "f_collect"} : Goto(a, l)
    BY <1>5 DEF FinalizeStart, FinalizeLoad, storeVars, historyVars, CleanLabels
  <2> QED BY <1>1, <1>3, <1>4, <2>1, HolderMoves DEF FinalizeLabels
<1>6. CASE FinalizeCollect(a)
  <2>1. UNCHANGED <<job, purged>> /\ pc[a] \notin CleanLabels
    BY <1>6 DEF FinalizeCollect, historyVars, CleanLabels
  <2> QED BY <1>1, <1>3, <1>6, <2>1, CollectReadsAll, HolderMoves
          DEF FinalizeCollect, FinalizeLabels
<1>7. CASE FinalizePut(a)
  <2>1. UNCHANGED <<job, purged, results>> /\ pc[a] \notin CleanLabels
    BY <1>7 DEF FinalizePut, historyVars, CleanLabels
  <2>2. output' = {results'}
    BY <1>7, <2>1 DEF FinalizePut, FinalInv
  <2> QED BY <1>1, <1>3, <1>7, <2>1, <2>2, HolderMoves DEF FinalizePut, FinalizeLabels
<1>8. CASE FinalizeComplete(a)
  <2>1. ~purged'
    BY <1>3, <1>8 DEF FinalizeComplete, historyVars
  <2> QED BY <1>1, <1>8, <2>1, HolderMoves DEF FinalizeComplete, FinalizeLabels, CleanLabels
<1>9. CASE CleanUpload(a)
  <2>1. ~purged'
    BY <1>3, <1>9 DEF CleanUpload, historyVars
  <2> QED BY <1>1, <1>9, <2>1, HolderMoves DEF CleanUpload, FinalizeLabels, CleanLabels
<1>10. CASE CleanResults(a)
  BY <1>1, <1>10, HolderMoves DEF CleanResults, FinalizeLabels, CleanLabels
<1>11. CASE CleanRowArgs(a)
  BY <1>4, <1>11 DEF CleanRowArgs, historyVars
<1>12. CASE RaiseInFinalize(a)
  <2>1. UNCHANGED <<job, results, output, purged>>
    BY <1>12 DEF RaiseInFinalize, storeVars, historyVars
  <2>2. \/ Release(a)
        \/ Goto(a, "f_clean_results") /\ ~purged
        \/ Goto(a, "f_clean_rowargs")
    BY <1>3, <1>12 DEF RaiseInFinalize
  <2> QED BY <1>1, <1>4, <2>1, <2>2, HolderMoves DEF FinalizeLabels, CleanLabels
<1> QED BY <1>5, <1>6, <1>7, <1>8, <1>9, <1>10, <1>11, <1>12 DEF FinalizeStep

LEMMA StepFinal ==
  ASSUME TypeOK, CountingInv, FinalInv, FinalizeOnce, [Next]_vars
  PROVE  FinalInv'
<1>1. ASSUME Plain PROVE FinalInv'
  BY <1>1, PlainFinal DEF Plain
<1>2. ASSUME NEW a \in Actors, Run(a) PROVE FinalInv'
  <2>1. CASE RowStep(a)
    BY <2>1, <1>1, MatchSucceedsPlain, MatchRetriesPlain, MatchExhaustedPlain,
       MatchBreaksPlain, StoreRowResultFinal, BumpCountersPlain, ClaimFinal, PublishFinal
    DEF RowStep
  <2>2. CASE WindowStep(a)
    BY <2>2, <1>1, ReadCursorPlain, SwapCursorPlain, FetchRowArgsPlain,
       PublishRowPlain, FailUnrecoverablePlain, WindowDonePlain DEF WindowStep
  <2>3. CASE DispatchStep(a)
    BY <2>3, <1>1, DispatchFinal, CacheRowArgsPlain DEF DispatchStep
  <2>4. CASE TickStep(a)
    BY <2>4, <1>1, SweepSelectPlain, ClaimFinal, PublishFinal, TopUpPlain DEF TickStep
  <2> QED BY <1>2, <2>1, <2>2, <2>3, <2>4, FinalizeFinal DEF Run
<1>3. ASSUME NEW a \in Actors, Raise(a) PROVE FinalInv'
  BY <1>1, <1>3, RaiseInRowPlain, RaiseInUnrecoverablePlain, RaiseInSettlePlain,
     DispatchFinal, FinalizeFinal, RaiseInSweepPlain DEF Raise
<1>4. CASE UNCHANGED vars
  <2>1. \A b \in Actors : Held(b)' => pc'[b] = pc[b] /\ buf'[b] = buf[b]
    BY <1>4 DEF vars, actorVars
  <2> QED BY <1>4, <2>1, FinalKeeps DEF vars, storeVars, historyVars
<1>5. ASSUME NEW a \in Workers, Take(a) PROVE FinalInv'
  BY <1>5, TakeFinal DEF Actors
<1>6. ASSUME NEW a \in Beats, TickStart(a) PROVE FinalInv'
  BY <1>6, <1>1, TickStartPlain DEF Actors
<1> QED
  BY <1>1, <1>2, <1>3, <1>4, <1>5, <1>6, CrashPlain, ArgsMissPlain, RedeliverFinal DEF Next

LEMMA InitFinal == ASSUME Init PROVE FinalInv
<1>1. queue[FinalizeMsg] = 0
  BY DEF Init, QueueMsgs, FinalizeMsg, DispatchMsg
<1>2. \A a \in Actors : ~Held(a) /\ pc[a] = "idle"
  BY DEF Init, Held, FinalizeLabels
<1> QED BY <1>1, <1>2 DEF Init, FinalInv

(* What the job keeps about its own finalize_batch, whatever else fails.   *)
LEMMA FinalCorrect ==
  ASSUME FinalizeOnce
  PROVE  Spec => [](TypeOK /\ CountingInv /\ FinalInv)
<1>1. Init => TypeOK /\ CountingInv /\ FinalInv
  BY InitTypes, InitCounts, InitFinal
<1>2. TypeOK /\ CountingInv /\ FinalInv /\ [Next]_vars => TypeOK' /\ CountingInv' /\ FinalInv'
  BY FinalizeOnce, StepTypes, StepCounts, StepFinal
<1> QED BY <1>1, <1>2, PTL DEF Spec

(* Only the upload of the assembled rows writes the output.                *)
LEMMA OutputOnlyPut ==
  ASSUME TypeOK, [Next]_vars
  PROVE  output' = output \/ \E a \in Actors : FinalizePut(a)
<1>1. ASSUME NEW a \in Actors, Run(a) PROVE output' = output \/ FinalizePut(a)
  BY <1>1 DEF Run, RowStep, MatchSucceeds, MatchRetries, MatchExhausted, MatchBreaks,
     StoreRowResult, BumpCounters, ClaimFinalize, PublishFinalize, WindowStep, ReadCursor,
     SwapCursor, FetchRowArgs, PublishRow, FailUnrecoverable, WindowDone, DispatchStep,
     DispatchLoad, DispatchMark, CacheRowArgs, DispatchFailed, FinalizeStep, FinalizeStart,
     FinalizeLoad, FinalizeCollect, FinalizeComplete, CleanUpload, CleanResults,
     CleanRowArgs, TickStep, SweepSelect, SweepClaim, SweepPublish, TopUp, storeVars
<1>2. ASSUME NEW a \in Actors, Raise(a) PROVE output' = output
  BY <1>2 DEF Raise, RaiseInRow, RaiseInUnrecoverable, RaiseInSettle, RaiseInWindow,
     RaiseInDispatch, RaiseInFinalize, RaiseInSweep, storeVars
<1>3. CASE UNCHANGED vars
  BY <1>3 DEF vars, storeVars
<1> QED BY <1>1, <1>2, <1>3 DEF Next, Take, TickStart, Crash, ArgsMiss, Redeliver, storeVars

(* No delivered file has a placeholder: results are read after the last of *)
(* them is stored and before they are deleted, by the one finalize_batch.  *)
THEOREM OutputHasNoGapHolds ==
  ASSUME FinalizeOnce
  PROVE  Spec => []OutputHasNoGap
<1>1. Init => OutputHasNoGap
  BY DEF Init, OutputHasNoGap
<1>2. TypeOK /\ CountingInv /\ FinalInv /\ OutputHasNoGap /\ [Next]_vars => OutputHasNoGap'
  <2> SUFFICES ASSUME TypeOK, CountingInv, FinalInv, OutputHasNoGap, [Next]_vars
               PROVE  OutputHasNoGap'
    OBVIOUS
  <2>1. CASE N = 0
    BY <2>1 DEF OutputHasNoGap, Rows
  <2>2. CASE N # 0
    <3>1. CASE output' = output
      BY <3>1 DEF OutputHasNoGap
    <3>2. CASE \E a \in Actors : FinalizePut(a)
      <4>1. output' = {results}
        BY <2>2, <3>2 DEF FinalizePut, FinalInv
      <4>2. \A r \in Rows : results[r] # "gap"
        BY DEF TypeOK, DataTypes, Outcomes
      <4> QED BY <4>1, <4>2 DEF OutputHasNoGap
    <3> QED BY <3>1, <3>2, OutputOnlyPut
  <2> QED BY <2>1, <2>2
<1> QED BY <1>1, <1>2, FinalCorrect, PTL DEF Spec

-----------------------------------------------------------------------------
(* The refinement of RowLedger.                                            *)
LedgerQuiet == UNCHANGED <<results, output>> /\ job'.status = job.status

LEMMA QuietOrNot ==
  ASSUME TypeOK, [Next]_vars
  PROVE  LedgerQuiet \/ \E a \in Actors :
           \/ StoreRowResult(a) \/ DispatchMark(a) \/ DispatchFailed(a)
           \/ FinalizePut(a) \/ FinalizeComplete(a) \/ CleanResults(a)
<1>1. ASSUME Plain PROVE LedgerQuiet
  BY <1>1 DEF Plain, DataPlain, LedgerQuiet
<1>2. ASSUME NEW a \in Actors, ClaimFinalize(a) \/ SweepClaim(a) PROVE LedgerQuiet
  BY <1>2 DEF ClaimFinalize, SweepClaim, LedgerQuiet, storeVars, TypeOK, DataTypes, JobType
<1>3. ASSUME NEW a \in Actors,
             PublishFinalize(a) \/ SweepPublish(a) \/ DispatchLoad(a) \/ RaiseInDispatch(a)
               \/ RaiseInWindow(a) \/ RaiseInFinalize(a) \/ Take(a)
      PROVE  LedgerQuiet
  BY <1>3 DEF PublishFinalize, SweepPublish, DispatchLoad, RaiseInDispatch, RaiseInWindow,
     RaiseInFinalize, Take, LedgerQuiet, storeVars
<1>4. ASSUME NEW a \in Actors,
             FinalizeStart(a) \/ FinalizeLoad(a) \/ FinalizeCollect(a) \/ CleanUpload(a)
      PROVE  LedgerQuiet
  BY <1>4 DEF FinalizeStart, FinalizeLoad, FinalizeCollect, CleanUpload, LedgerQuiet, storeVars
<1>5. ASSUME NEW a \in Actors, Run(a)
      PROVE  LedgerQuiet \/ \/ StoreRowResult(a) \/ DispatchMark(a) \/ DispatchFailed(a)
                            \/ FinalizePut(a) \/ FinalizeComplete(a) \/ CleanResults(a)
  <2>1. CASE RowStep(a)
    BY <2>1, <1>1, <1>2, <1>3, MatchSucceedsPlain, MatchRetriesPlain, MatchExhaustedPlain,
       MatchBreaksPlain, BumpCountersPlain DEF RowStep
  <2>2. CASE WindowStep(a)
    BY <2>2, <1>1, ReadCursorPlain, SwapCursorPlain, FetchRowArgsPlain,
       PublishRowPlain, FailUnrecoverablePlain, WindowDonePlain DEF WindowStep
  <2>3. CASE DispatchStep(a)
    BY <2>3, <1>1, <1>3, CacheRowArgsPlain DEF DispatchStep
  <2>4. CASE FinalizeStep(a)
    BY <2>4, <1>1, <1>4, CleanRowArgsPlain DEF FinalizeStep
  <2>5. CASE TickStep(a)
    BY <2>5, <1>1, <1>2, <1>3, SweepSelectPlain, TopUpPlain DEF TickStep
  <2> QED BY <1>5, <2>1, <2>2, <2>3, <2>4, <2>5 DEF Run
<1>6. ASSUME NEW a \in Actors, Raise(a) PROVE LedgerQuiet
  BY <1>1, <1>3, <1>6, RaiseInRowPlain, RaiseInUnrecoverablePlain, RaiseInSettlePlain,
     RaiseInSweepPlain DEF Raise
<1>7. CASE UNCHANGED vars
  BY <1>7 DEF vars, storeVars, LedgerQuiet
<1>8. ASSUME NEW a \in Workers, Take(a) PROVE LedgerQuiet
  BY <1>8, <1>3 DEF Actors
<1>9. ASSUME NEW a \in Beats, TickStart(a) PROVE LedgerQuiet
  BY <1>9, <1>1, TickStartPlain DEF Actors
<1>10. ASSUME NEW m \in QueueMsgs, Redeliver(m) PROVE LedgerQuiet
  BY <1>10 DEF Redeliver, storeVars, LedgerQuiet
<1> QED
  BY <1>1, <1>5, <1>6, <1>7, <1>8, <1>9, <1>10, CrashPlain, ArgsMissPlain DEF Next

Completed == job.status = "completed"

LEMMA LedgerStutters ==
  ASSUME job'.status = job.status, output' = output, results' = results \/ Completed
  PROVE  UNCHANGED Ledger!vars
  BY DEF Ledger!vars, Delivered, Completed

LEMMA OpenStutters ==
  ASSUME ~Completed, ~Completed', results' = results
  PROVE  UNCHANGED Ledger!vars
  BY DEF Ledger!vars, Completed

LEMMA OnlyFile == ASSUME NEW x, output = {x} PROVE Delivered = x
  BY DEF Delivered

LEMMA FileDelivered == ASSUME output # {} PROVE Delivered \in output
  BY DEF Delivered

(* The files and results of an upload without rows are all the same.       *)
LEMMA NoRows ==
  ASSUME N = 0, NEW f, NEW g, NEW S, NEW T, f \in [Rows -> S], g \in [Rows -> T]
  PROVE  f = g
<1>1. Rows = {}
  BY DEF Rows
<1> QED BY <1>1

LEMMA StoreRecords ==
  ASSUME TypeOK, NEW a \in Actors, StoreRowResult(a)
  PROVE  [Ledger!Next]_(Ledger!vars)
<1>1. job' = job /\ output' = output
  BY DEF StoreRowResult
<1>2. CASE Completed \/ ~FirstWriter(rec[a].row)
  BY <1>1, <1>2, LedgerStutters DEF StoreRowResult
<1>3. CASE ~Completed /\ FirstWriter(rec[a].row)
  <2>1. rec[a].row \in Rows /\ rec[a].outcome \in Outcomes
    BY DEF TypeOK, InHand, ActorTypes, StoreRowResult
  <2>2. Ledger!Record(rec[a].row)
    BY <1>1, <1>3, <2>1 DEF Ledger!Record, StoreRowResult, FirstWriter, Completed
  <2> QED BY <2>1, <2>2 DEF Ledger!Next
<1> QED BY <1>2, <1>3

LEMMA DispatchStutters ==
  ASSUME TypeOK, DispatchInv, FailsEarly, NEW a \in Actors, DispatchMark(a) \/ DispatchFailed(a)
  PROVE  UNCHANGED Ledger!vars
<1>1. Early
  BY DEF DispatchMark, DispatchFailed, Early, EarlyLabels
<1>2. ~Completed
  BY <1>1, EarlyBlocks DEF Completed
<1>3. ~Completed' /\ results' = results
  BY DEF DispatchMark, DispatchFailed, storeVars, TypeOK, DataTypes, JobType, Completed
<1> QED BY <1>2, <1>3, OpenStutters

LEMMA PutStutters ==
  ASSUME TypeOK, TypeOK', DeliverInv, FinalInv, NEW a \in Actors, FinalizePut(a)
  PROVE  UNCHANGED Ledger!vars
<1>1. job' = job /\ results' = results /\ output' = {buf[a]}
  BY DEF FinalizePut
<1>2. CASE ~Completed
  BY <1>1, <1>2, OpenStutters DEF Completed
<1>3. CASE Completed
  <2>1. N = 0
    BY <1>3 DEF FinalInv, FinalizePut, Held, FinalizeLabels, CleanLabels, Completed
  <2>2. Delivered \in [Rows -> Outcomes \cup {"gap"}]
    BY <1>3, FileDelivered DEF DeliverInv, Completed, TypeOK, DataTypes
  <2>3. /\ \A x : output' = {x} => Delivered' = x
    BY DEF Delivered
  <2>4. Delivered' = buf[a] /\ buf[a] \in [Rows -> Outcomes \cup {"gap"}]
    BY <1>1, <2>3 DEF TypeOK, InHand, FinalizePut
  <2>5. Delivered' = Delivered
    BY <2>1, <2>2, <2>4, NoRows
  <2> QED BY <1>1, <1>3, <2>5 DEF Ledger!vars, Completed
<1> QED BY <1>2, <1>3

LEMMA CompleteDelivers ==
  ASSUME TypeOK, TypeOK', CountingInv, DeliverInv, FinalInv, NEW a \in Actors, FinalizeComplete(a)
  PROVE  [Ledger!Next]_(Ledger!vars)
<1>1. /\ Completed' /\ results' = results /\ output' = output
      /\ output # {}
  BY DEF FinalizeComplete, storeVars, TypeOK, DataTypes, JobType, Completed, DeliverInv
<1>2. CASE Completed
  BY <1>1, <1>2, LedgerStutters DEF Completed
<1>3. CASE ~Completed
  <2>1. Delivered = results
    <3>1. CASE N = 0
      <4>1. Delivered \in [Rows -> Outcomes \cup {"gap"}] /\ results \in [Rows -> Outcomes \cup {"unset"}]
        BY <1>1, FileDelivered DEF TypeOK, DataTypes
      <4> QED BY <3>1, <4>1, NoRows
    <3>2. CASE N # 0
      BY <3>2, OnlyFile DEF FinalInv, FinalizeComplete
    <3> QED BY <3>1, <3>2
  <2>2. \A r \in Rows : results[r] # "unset"
    <3>1. CASE N = 0
      BY <3>1 DEF Rows
    <3>2. CASE N # 0
      BY <3>2, FinalStored DEF FinalizeComplete, FinalizeLabels, Stored
    <3> QED BY <3>1, <3>2
  <2>3. Delivered' = Delivered
    BY <1>1 DEF Delivered
  <2>4. Ledger!Deliver
    BY <1>1, <1>3, <2>1, <2>2, <2>3 DEF Ledger!Deliver, Completed
  <2> QED BY <2>4 DEF Ledger!Next
<1> QED BY <1>2, <1>3

LEMMA CleanStutters ==
  ASSUME DeliverInv, NEW a \in Actors, CleanResults(a)
  PROVE  UNCHANGED Ledger!vars
<1>1. Completed /\ job' = job /\ output' = output
  BY DEF DeliverInv, CleanResults, CleanLabels, Completed
<1> QED BY <1>1, LedgerStutters

(* One outcome per row, never replaced, and one delivery with all of them: *)
(* every step of the job, its retries, refills, ticks and faults is a step *)
(* of RowLedger or leaves the ledger alone.                                *)
THEOREM KeepsTheLedgerHolds ==
  ASSUME DispatchedOnce, FailsEarly, FinalizeOnce
  PROVE  Spec => KeepsTheLedger
<1>1. Init => TypeOK /\ DispatchInv /\ DeliverInv
  BY InitTypes, InitDispatch, InitDelivers
<1>2. TypeOK /\ DispatchInv /\ DeliverInv /\ [Next]_vars
        => TypeOK' /\ DispatchInv' /\ DeliverInv'
  BY DispatchedOnce, FailsEarly, StepTypes, StepDispatch, StepDelivers
<1>3. Init => Ledger!Init
  BY DEF Init, Ledger!Init
<1>4. TypeOK /\ TypeOK' /\ CountingInv /\ DispatchInv /\ DeliverInv /\ FinalInv /\ [Next]_vars
        => [Ledger!Next]_(Ledger!vars)
  <2> SUFFICES ASSUME TypeOK, TypeOK', CountingInv, DispatchInv, DeliverInv, FinalInv, [Next]_vars
               PROVE  [Ledger!Next]_(Ledger!vars)
    OBVIOUS
  <2>1. CASE LedgerQuiet
    BY <2>1, LedgerStutters DEF LedgerQuiet
  <2> QED BY <2>1, FailsEarly, QuietOrNot, StoreRecords, DispatchStutters, PutStutters, CompleteDelivers,
             CleanStutters
<1> QED BY <1>1, <1>2, <1>3, <1>4, FinalCorrect, FinalizeOnce, PTL
        DEF Spec, KeepsTheLedger, Ledger!Spec
-----------------------------------------------------------------------------
(* The row token: a queued message, the task that has the row in hand, or  *)
(* its place in a claimed window.                                          *)

InStack(s, r) == \E i \in 1 .. Len(s) : \E j \in 1 .. Len(s[i].rows) : s[i].rows[j] = r

DistinctRows(s) ==
  \A i, i2 \in 1 .. Len(s) : \A j \in 1 .. Len(s[i].rows), j2 \in 1 .. Len(s[i2].rows) :
    s[i].rows[j] = s[i2].rows[j2] => i = i2 /\ j = j2

(* The windows below the top one.                                          *)
LEMMA StackTail ==
  ASSUME NEW s \in Seq(WindowType), s # <<>>
  PROVE  /\ \A r : InStack(Tail(s), r) => InStack(s, r)
         /\ DistinctRows(s) => DistinctRows(Tail(s))
<1>1. /\ Len(Tail(s)) = Len(s) - 1 /\ Len(s) \in Nat
      /\ \A i \in 1 .. Len(s) - 1 : Tail(s)[i] = s[i + 1] /\ i + 1 \in 1 .. Len(s)
  OBVIOUS
<1>2. \A r : InStack(Tail(s), r) => InStack(s, r)
  BY <1>1 DEF InStack
<1>3. ASSUME DistinctRows(s) PROVE DistinctRows(Tail(s))
  <2> SUFFICES ASSUME NEW i \in 1 .. Len(s) - 1, NEW i2 \in 1 .. Len(s) - 1,
                      NEW j \in 1 .. Len(Tail(s)[i].rows), NEW j2 \in 1 .. Len(Tail(s)[i2].rows),
                      Tail(s)[i].rows[j] = Tail(s)[i2].rows[j2]
               PROVE  i = i2 /\ j = j2
    BY <1>1 DEF DistinctRows
  <2>1. i + 1 = i2 + 1 /\ j = j2
    BY <1>1, <1>3 DEF DistinctRows
  <2> QED BY <2>1
<1> QED BY <1>2, <1>3

(* The top window changes, its rows do not.                                *)
LEMMA StackFound ==
  ASSUME NEW s \in Seq(WindowType), s # <<>>, NEW b \in BOOLEAN
  PROVE  LET t == [s EXCEPT ![1].found = b]
         IN  /\ t # <<>>
             /\ \A r : InStack(t, r) => InStack(s, r)
             /\ DistinctRows(s) => DistinctRows(t)
<1> DEFINE t == [s EXCEPT ![1].found = b]
<1>1. s[1] \in WindowType /\ [s[1] EXCEPT !.found = b] \in WindowType
  BY WindowStack, WindowFields
<1>2. [s[1] EXCEPT !.found = b].rows = s[1].rows
  BY <1>1 DEF WindowType
<1>3. /\ t \in Seq(WindowType) /\ Len(t) = Len(s) /\ t # <<>>
      /\ \A i \in 1 .. Len(s) : t[i] = IF i = 1 THEN [s[1] EXCEPT !.found = b] ELSE s[i]
  BY <1>1
<1>4. \A i \in 1 .. Len(s) : t[i].rows = s[i].rows
  BY <1>2, <1>3
<1> HIDE DEF t
<1>5. \A r : InStack(t, r) => InStack(s, r)
  BY <1>3, <1>4 DEF InStack
<1>6. ASSUME DistinctRows(s) PROVE DistinctRows(t)
  <2> SUFFICES ASSUME NEW i \in 1 .. Len(s), NEW i2 \in 1 .. Len(s),
                      NEW j \in 1 .. Len(t[i].rows), NEW j2 \in 1 .. Len(t[i2].rows),
                      t[i].rows[j] = t[i2].rows[j2]
               PROVE  i = i2 /\ j = j2
    BY <1>3 DEF DistinctRows
  <2>1. t[i].rows = s[i].rows /\ t[i2].rows = s[i2].rows
    BY <1>4
  <2> QED BY <1>6, <2>1 DEF DistinctRows
<1> QED BY <1>3, <1>5, <1>6 DEF t

(* The top window loses its first row.                                     *)
LEMMA StackPop ==
  ASSUME NEW s \in Seq(WindowType), s # <<>>, Head(s).rows # <<>>, DistinctRows(s)
  PROVE  LET t == [s EXCEPT ![1].rows = Tail(@)]
             x == Head(Head(s).rows)
         IN  /\ t # <<>> /\ x \in Rows /\ InStack(s, x)
             /\ \A r : InStack(t, r) => InStack(s, r) /\ r # x
             /\ DistinctRows(t)
<1> DEFINE t == [s EXCEPT ![1].rows = Tail(@)]
           x == Head(Head(s).rows)
           q == s[1].rows
<1>1. s[1] \in WindowType /\ Head(s) = s[1] /\ q \in Seq(Rows) /\ q # <<>>
  BY WindowStack, WindowFields
<1>2. /\ Tail(q) \in Seq(Rows) /\ Len(Tail(q)) = Len(q) - 1 /\ x = q[1] /\ Len(q) \in Nat
      /\ x \in Rows /\ 1 \in 1 .. Len(q)
      /\ \A j \in 1 .. Len(Tail(q)) : Tail(q)[j] = q[j + 1] /\ j + 1 \in 1 .. Len(q)
  BY <1>1
<1>3. [s[1] EXCEPT !.rows = Tail(q)] \in WindowType /\ [s[1] EXCEPT !.rows = Tail(q)].rows = Tail(q)
  BY <1>1, <1>2 DEF WindowType
<1>4. /\ t \in Seq(WindowType) /\ Len(t) = Len(s) /\ t # <<>> /\ 1 \in 1 .. Len(s)
      /\ \A i \in 1 .. Len(s) : t[i] = IF i = 1 THEN [s[1] EXCEPT !.rows = Tail(q)] ELSE s[i]
  BY <1>1, <1>3
<1>5. t[1].rows = Tail(q) /\ \A i \in 1 .. Len(s) : i # 1 => t[i].rows = s[i].rows
  BY <1>3, <1>4
<1> HIDE DEF t, x, q
<1>6. s[1].rows = q
  BY DEF q
<1>7. InStack(s, x)
  BY <1>2, <1>4, <1>6 DEF InStack
(* The index in s of a row of t.                                           *)
<1>8. \A i \in 1 .. Len(s) : \A j \in 1 .. Len(t[i].rows) :
        IF i = 1 THEN /\ j + 1 \in 1 .. Len(s[i].rows) /\ t[i].rows[j] = s[i].rows[j + 1]
                 ELSE /\ j \in 1 .. Len(s[i].rows) /\ t[i].rows[j] = s[i].rows[j]
  BY <1>2, <1>5, <1>6
<1>9. ASSUME NEW r, InStack(t, r) PROVE InStack(s, r) /\ r # x
  <2>0. PICK i \in 1 .. Len(s) : \E j \in 1 .. Len(t[i].rows) : t[i].rows[j] = r
    BY <1>4, <1>9 DEF InStack
  <2>1. PICK j \in 1 .. Len(t[i].rows) : t[i].rows[j] = r
    BY <2>0
  <2>2. CASE i = 1
    <3>1. j \in Nat /\ j + 1 # 1
      BY <1>2, <1>5, <2>2
    <3>2. j + 1 \in 1 .. Len(s[i].rows) /\ s[i].rows[j + 1] = r
      BY <1>8, <2>1, <2>2
    <3>3. s[1].rows[1] = x /\ 1 \in 1 .. Len(s[1].rows)
      BY <1>2, <1>6
    <3>4. r # x
      BY <1>4, <2>2, <3>1, <3>2, <3>3 DEF DistinctRows
    <3> QED BY <3>2, <3>4 DEF InStack
  <2>3. CASE i # 1
    <3>1. j \in 1 .. Len(s[i].rows) /\ s[i].rows[j] = r
      BY <1>8, <2>1, <2>3
    <3>2. s[1].rows[1] = x /\ 1 \in 1 .. Len(s[1].rows)
      BY <1>2, <1>6
    <3>3. r # x
      BY <1>4, <2>3, <3>1, <3>2 DEF DistinctRows
    <3> QED BY <3>1, <3>3 DEF InStack
  <2> QED BY <2>2, <2>3
<1>10. DistinctRows(t)
  <2> SUFFICES ASSUME NEW i \in 1 .. Len(s), NEW i2 \in 1 .. Len(s),
                      NEW j \in 1 .. Len(t[i].rows), NEW j2 \in 1 .. Len(t[i2].rows),
                      t[i].rows[j] = t[i2].rows[j2]
               PROVE  i = i2 /\ j = j2
    BY <1>4 DEF DistinctRows
  <2>0. /\ i = 1 => j \in Nat
        /\ i2 = 1 => j2 \in Nat
    BY <1>2, <1>5
  <2>1. i = i2
    BY <1>8 DEF DistinctRows
  <2>2. CASE i = 1
    <3>1. j + 1 = j2 + 1
      BY <1>8, <2>1, <2>2 DEF DistinctRows
    <3> QED BY <2>0, <2>1, <2>2, <3>1
  <2>3. CASE i # 1
    BY <1>8, <2>1, <2>3 DEF DistinctRows
  <2> QED BY <2>1, <2>2, <2>3
<1> QED BY <1>2, <1>4, <1>7, <1>9, <1>10 DEF t, x

(* A newly claimed window comes on top.                                    *)
LEMMA StackPush ==
  ASSUME NEW s \in Seq(WindowType), NEW w \in WindowType, DistinctRows(s),
         \A j, j2 \in 1 .. Len(w.rows) : w.rows[j] = w.rows[j2] => j = j2,
         \A j \in 1 .. Len(w.rows) : ~InStack(s, w.rows[j])
  PROVE  LET t == <<w>> \o s
         IN  /\ t # <<>>
             /\ \A r : InStack(t, r) => InStack(s, r) \/ \E j \in 1 .. Len(w.rows) : w.rows[j] = r
             /\ DistinctRows(t)
<1> DEFINE t == <<w>> \o s
<1>1. /\ t # <<>> /\ Len(t) = Len(s) + 1 /\ Len(s) \in Nat /\ t[1] = w
      /\ \A i \in 1 .. Len(t) : i # 1 => i - 1 \in 1 .. Len(s) /\ t[i] = s[i - 1]
  OBVIOUS
<1> HIDE DEF t
<1>2. ASSUME NEW r, InStack(t, r)
      PROVE  InStack(s, r) \/ \E j \in 1 .. Len(w.rows) : w.rows[j] = r
  <2>0. PICK i \in 1 .. Len(t) : \E j \in 1 .. Len(t[i].rows) : t[i].rows[j] = r
    BY <1>2 DEF InStack
  <2>1. PICK j \in 1 .. Len(t[i].rows) : t[i].rows[j] = r
    BY <2>0
  <2>2. CASE i = 1
    BY <1>1, <2>1, <2>2
  <2>3. CASE i # 1
    <3>1. i - 1 \in 1 .. Len(s) /\ j \in 1 .. Len(s[i - 1].rows) /\ s[i - 1].rows[j] = r
      BY <1>1, <2>1, <2>3
    <3> QED BY <3>1 DEF InStack
  <2> QED BY <2>2, <2>3
<1>3. DistinctRows(t)
  <2> SUFFICES ASSUME NEW i \in 1 .. Len(t), NEW i2 \in 1 .. Len(t),
                      NEW j \in 1 .. Len(t[i].rows), NEW j2 \in 1 .. Len(t[i2].rows),
                      t[i].rows[j] = t[i2].rows[j2]
               PROVE  i = i2 /\ j = j2
    BY DEF DistinctRows
  <2>1. CASE i = 1 /\ i2 = 1
    BY <1>1, <2>1
  <2>2. CASE i = 1 /\ i2 # 1
    <3>1. j \in 1 .. Len(w.rows) /\ InStack(s, w.rows[j])
      BY <1>1, <2>2 DEF InStack
    <3> QED BY <3>1
  <2>3. CASE i # 1 /\ i2 = 1
    <3>1. j2 \in 1 .. Len(w.rows) /\ InStack(s, w.rows[j2])
      BY <1>1, <2>3 DEF InStack
    <3> QED BY <3>1
  <2>4. CASE i # 1 /\ i2 # 1
    <3>0. /\ i - 1 \in 1 .. Len(s) /\ t[i] = s[i - 1]
          /\ i2 - 1 \in 1 .. Len(s) /\ t[i2] = s[i2 - 1]
      BY <1>1, <2>4
    <3>1. PICK k \in 1 .. Len(s), k2 \in 1 .. Len(s) : k = i - 1 /\ k2 = i2 - 1
      BY <3>0
    <3>2. t[i] = s[k] /\ t[i2] = s[k2]
      BY <3>0, <3>1
    <3>3. j \in 1 .. Len(s[k].rows) /\ j2 \in 1 .. Len(s[k2].rows) /\ s[k].rows[j] = s[k2].rows[j2]
      BY <3>2
    <3>4. k = k2 /\ j = j2
      BY <3>3 DEF DistinctRows
    <3>5. i \in Int /\ i2 \in Int
      BY <1>1
    <3> QED BY <3>1, <3>4, <3>5
  <2> QED BY <2>1, <2>2, <2>3, <2>4
<1> QED BY <1>1, <1>2, <1>3 DEF t

InQueue(r) == \E k \in 0 .. MaxRetries : queue[RowMsg(r, k)] > 0

(* The task has row r in hand: to match or to record it, or, while it      *)
(* publishes windows, to record it as unrecoverable.                       *)
Handles(a, r) ==
  /\ pc[a] \in {"match", "store", "bump"}
  /\ IF stack[a] = <<>> THEN msg[a].row = r ELSE rec[a].row = r

Owns(a, r) == Handles(a, r) \/ InStack(stack[a], r)

(* The token of row r is unique, and comes into being with the claim.      *)
OneCopy(r) ==
  /\ \A k \in 0 .. MaxRetries : queue[RowMsg(r, k)] <= 1
  /\ \A k, l \in 0 .. MaxRetries : queue[RowMsg(r, k)] > 0 /\ queue[RowMsg(r, l)] > 0 => k = l
  /\ InQueue(r) => \A a \in Actors : ~Owns(a, r)
  /\ \A a, b \in Actors : Owns(a, r) /\ Owns(b, r) => a = b
  /\ \A a \in Actors : ~(Handles(a, r) /\ InStack(stack[a], r))
  /\ r >= job.dispatched => ~InQueue(r) /\ \A a \in Actors : ~Owns(a, r)

Shaped(a) ==
  /\ DistinctRows(stack[a])
  /\ pc[a] \in {"idle", "match"} => stack[a] = <<>>
  /\ pc[a] = "cas" => cas[a].read <= cas[a].to

CopyInv ==
  /\ \A r \in Rows : OneCopy(r)
  /\ \A a \in Actors : Shaped(a)

(* A step of actor a alone.                                                *)
Only(a) ==
  \A b \in Actors : b # a =>
    pc'[b] = pc[b] /\ msg'[b] = msg[b] /\ rec'[b] = rec[b] /\ stack'[b] = stack[b] /\ cas'[b] = cas[b]

RowQueue(r) == \A k \in 0 .. MaxRetries : queue'[RowMsg(r, k)] = queue[RowMsg(r, k)]

LEMMA OthersOwn ==
  ASSUME NEW a, NEW b \in Actors, b # a, NEW r, Only(a)
  PROVE  /\ Handles(b, r)' <=> Handles(b, r)
         /\ InStack(stack'[b], r) <=> InStack(stack[b], r)
         /\ Owns(b, r)' <=> Owns(b, r)
<1>1. pc'[b] = pc[b] /\ msg'[b] = msg[b] /\ rec'[b] = rec[b] /\ stack'[b] = stack[b]
  BY DEF Only
<1>2. Handles(b, r)' <=> Handles(b, r)
  BY <1>1 DEF Handles
<1> QED BY <1>1, <1>2 DEF Owns

(* The actor gains no copy of the row.                                     *)
LEMMA RowShrinks ==
  ASSUME NEW r \in Rows, OneCopy(r), NEW a \in Actors, Only(a), RowQueue(r),
         r >= job'.dispatched => r >= job.dispatched,
         Handles(a, r)' => Handles(a, r),
         InStack(stack'[a], r) => InStack(stack[a], r)
  PROVE  OneCopy(r)'
<1>1. \A b \in Actors : /\ Handles(b, r)' => Handles(b, r)
                        /\ InStack(stack'[b], r) => InStack(stack[b], r)
                        /\ Owns(b, r)' => Owns(b, r)
  <2> TAKE b \in Actors
  <2>1. CASE b = a
    BY <2>1 DEF Owns
  <2>2. CASE b # a
    BY <2>2, OthersOwn
  <2> QED BY <2>1, <2>2
<1>2. InQueue(r)' <=> InQueue(r)
  BY DEF RowQueue, InQueue
<1>3. \A k \in 0 .. MaxRetries : queue'[RowMsg(r, k)] <= 1
  BY DEF RowQueue, OneCopy
<1>4. \A k, l \in 0 .. MaxRetries : queue'[RowMsg(r, k)] > 0 /\ queue'[RowMsg(r, l)] > 0 => k = l
  BY DEF RowQueue, OneCopy
<1>5. InQueue(r)' => \A b \in Actors : ~Owns(b, r)'
  BY <1>1, <1>2 DEF OneCopy
<1>6. \A b, c \in Actors : Owns(b, r)' /\ Owns(c, r)' => b = c
  BY <1>1 DEF OneCopy
<1>7. \A b \in Actors : ~(Handles(b, r)' /\ InStack(stack'[b], r))
  BY <1>1 DEF OneCopy
<1>8. r >= job'.dispatched => ~InQueue(r)' /\ \A b \in Actors : ~Owns(b, r)'
  BY <1>1, <1>2 DEF OneCopy
<1> QED BY <1>3, <1>4, <1>5, <1>6, <1>7, <1>8 DEF OneCopy

LEMMA OthersShaped ==
  ASSUME CopyInv, NEW a \in Actors, Only(a), Shaped(a)'
  PROVE  \A b \in Actors : Shaped(b)'
<1> TAKE b \in Actors
<1>1. CASE b # a
  BY <1>1 DEF Only, CopyInv, Shaped
<1> QED BY <1>1

LEMMA CopyShrinks ==
  ASSUME CopyInv, NEW a \in Actors, Only(a), \A r \in Rows : RowQueue(r),
         job'.dispatched = job.dispatched, Shaped(a)',
         \A r \in Rows : /\ Handles(a, r)' => Handles(a, r)
                         /\ InStack(stack'[a], r) => InStack(stack[a], r)
  PROVE  CopyInv'
<1>1. \A r \in Rows : OneCopy(r)'
  BY RowShrinks DEF CopyInv
<1>2. \A b \in Actors : Shaped(b)'
  BY OthersShaped
<1> QED BY <1>1, <1>2 DEF CopyInv

LEMMA EmptyStack == /\ DistinctRows(<<>>)
                    /\ \A r : ~InStack(<<>>, r)
  BY DEF DistinctRows, InStack

(* The moves of one actor that leave it with no new copy.                  *)
LEMMA GotoCopy ==
  ASSUME TypeOK, CopyInv, NEW a \in Actors, NEW l, Goto(a, l),
         UNCHANGED <<stack, cas>>, Only(a),
         l \notin {"idle", "match", "store", "bump", "cas"},
         \A r \in Rows : RowQueue(r), job'.dispatched = job.dispatched
  PROVE  CopyInv'
<1>1. pc'[a] = l
  BY DEF Goto, TypeOK, ActorTypes
<1>2. Shaped(a)'
  BY <1>1 DEF CopyInv, Shaped
<1>3. \A r \in Rows : ~Handles(a, r)'
  BY <1>1 DEF Handles
<1> QED BY <1>2, <1>3, CopyShrinks

LEMMA ReleaseOnly ==
  ASSUME TypeOK, NEW a \in Actors, Release(a)
  PROVE  Only(a) /\ pc'[a] = "idle" /\ stack'[a] = <<>>
  BY DEF Release, Goto, Only, TypeOK, ActorTypes

LEMMA ReleaseCopy ==
  ASSUME TypeOK, CopyInv, NEW a \in Actors, Release(a),
         \A r \in Rows : RowQueue(r), job'.dispatched = job.dispatched
  PROVE  CopyInv'
<1>1. Only(a) /\ pc'[a] = "idle" /\ stack'[a] = <<>>
  BY ReleaseOnly
<1>2. Shaped(a)'
  BY <1>1, EmptyStack DEF Shaped
<1>3. \A r \in Rows : ~Handles(a, r)' /\ ~InStack(stack'[a], r)
  BY <1>1, EmptyStack DEF Handles
<1> QED BY <1>1, <1>2, <1>3, CopyShrinks

LEMMA ReturnOnly ==
  ASSUME TypeOK, NEW a \in Actors, NEW st, Return(a, st)
  PROVE  /\ Only(a) /\ pc'[a] \in {"idle", "publish", "topup"}
         /\ stack'[a] = st /\ (pc'[a] = "idle" => st = <<>>)
<1>1. CASE st = <<>> /\ msg[a] # TickMsg
  BY <1>1, ReleaseOnly DEF Return
<1>2. CASE ~(st = <<>> /\ msg[a] # TickMsg)
  BY <1>2 DEF Return, Goto, Only, TypeOK, ActorTypes
<1> QED BY <1>1, <1>2

LEMMA ReturnCopy ==
  ASSUME TypeOK, CopyInv, NEW a \in Actors, NEW st, Return(a, st),
         \/ st = stack[a]
         \/ stack[a] # <<>> /\ st = Tail(stack[a]),
         \A r \in Rows : RowQueue(r), job'.dispatched = job.dispatched
  PROVE  CopyInv'
<1>1. /\ Only(a) /\ pc'[a] \in {"idle", "publish", "topup"}
      /\ stack'[a] = st /\ (pc'[a] = "idle" => st = <<>>)
  BY ReturnOnly
<1>2. /\ DistinctRows(st)
      /\ \A r \in Rows : InStack(st, r) => InStack(stack[a], r)
  <2>1. stack[a] \in Seq(WindowType) /\ DistinctRows(stack[a])
    BY DEF TypeOK, ActorTypes, CopyInv, Shaped
  <2> QED BY <2>1, StackTail
<1>3. Shaped(a)'
  BY <1>1, <1>2 DEF Shaped
<1>4. \A r \in Rows : ~Handles(a, r)'
  BY <1>1 DEF Handles
<1> QED BY <1>1, <1>2, <1>3, <1>4, CopyShrinks

(* The moves of a token: into the queue, out of it, from a window into the *)
(* hands of the actor, and its creation by the claim.                      *)
LEMMA QueueTypes ==
  ASSUME TypeOK, NEW r \in Rows, NEW k \in 0 .. MaxRetries
  PROVE  RowMsg(r, k) \in QueueMsgs /\ queue[RowMsg(r, k)] \in Nat
  BY DEF TypeOK, DataTypes, QueueMsgs

LEMMA Enqueued ==
  ASSUME TypeOK, NEW x \in Rows, OneCopy(x), NEW a \in Actors, Owns(a, x), Only(a), ~Owns(a, x)',
         NEW k0 \in 0 .. MaxRetries,
         \A k \in 0 .. MaxRetries :
           queue'[RowMsg(x, k)] = IF k = k0 THEN queue[RowMsg(x, k)] + 1 ELSE queue[RowMsg(x, k)],
         job'.dispatched = job.dispatched
  PROVE  OneCopy(x)'
<1>1. ~InQueue(x) /\ ~(x >= job.dispatched)
  BY DEF OneCopy
<1>2. \A k \in 0 .. MaxRetries : queue[RowMsg(x, k)] = 0
  BY <1>1, QueueTypes DEF InQueue
<1>3. \A k \in 0 .. MaxRetries : queue'[RowMsg(x, k)] = IF k = k0 THEN 1 ELSE 0
  BY <1>2
<1>4. \A b \in Actors : ~Owns(b, x)'
  <2> TAKE b \in Actors
  <2>1. CASE b = a
    BY <2>1
  <2>2. CASE b # a
    BY <2>2, OthersOwn DEF OneCopy
  <2> QED BY <2>1, <2>2
<1>5. \A b \in Actors : ~(Handles(b, x)' /\ InStack(stack'[b], x))
  BY <1>4 DEF Owns
<1> QED BY <1>1, <1>3, <1>4, <1>5 DEF OneCopy

LEMMA Dequeued ==
  ASSUME TypeOK, NEW x \in Rows, OneCopy(x), NEW a \in Actors, Only(a),
         ~InStack(stack'[a], x),
         NEW k0 \in 0 .. MaxRetries, queue[RowMsg(x, k0)] > 0,
         \A k \in 0 .. MaxRetries :
           queue'[RowMsg(x, k)] = IF k = k0 THEN queue[RowMsg(x, k)] - 1 ELSE queue[RowMsg(x, k)],
         job'.dispatched = job.dispatched
  PROVE  OneCopy(x)'
<1>1. InQueue(x) /\ ~(x >= job.dispatched)
  BY DEF OneCopy, InQueue
<1>2. queue[RowMsg(x, k0)] = 1
  BY QueueTypes DEF OneCopy
<1>3. \A k \in 0 .. MaxRetries : k # k0 => queue[RowMsg(x, k)] = 0
  BY QueueTypes DEF OneCopy
<1>4. \A k \in 0 .. MaxRetries : queue'[RowMsg(x, k)] = 0
  BY <1>2, <1>3
<1>5. ~InQueue(x)'
  BY <1>4 DEF InQueue
<1>6. \A b \in Actors : Owns(b, x)' => b = a
  BY <1>1, OthersOwn DEF OneCopy
<1>7. \A b \in Actors : InStack(stack'[b], x) => Owns(b, x)'
  BY DEF Owns
<1> QED BY <1>1, <1>4, <1>5, <1>6, <1>7 DEF OneCopy

LEMMA Handed ==
  ASSUME NEW x \in Rows, OneCopy(x), NEW a \in Actors, Owns(a, x), Only(a), RowQueue(x),
         ~InStack(stack'[a], x),
         job'.dispatched = job.dispatched
  PROVE  OneCopy(x)'
<1>1. ~InQueue(x) /\ ~(x >= job.dispatched)
  BY DEF OneCopy
<1>2. ~InQueue(x)'
  BY <1>1 DEF RowQueue, InQueue
<1>3. \A k \in 0 .. MaxRetries : queue'[RowMsg(x, k)] <= 1 /\ ~(queue'[RowMsg(x, k)] > 0)
  BY <1>1 DEF OneCopy, InQueue, RowQueue
<1>4. \A b \in Actors : Owns(b, x)' => b = a
  BY OthersOwn DEF OneCopy
<1>5. \A b \in Actors : InStack(stack'[b], x) => Owns(b, x)'
  BY DEF Owns
<1> QED BY <1>1, <1>2, <1>3, <1>4, <1>5 DEF OneCopy

LEMMA Claimed ==
  ASSUME NEW x \in Rows, OneCopy(x), NEW a \in Actors, Only(a), RowQueue(x),
         x >= job.dispatched, ~(x >= job'.dispatched), ~Handles(a, x)'
  PROVE  OneCopy(x)'
<1>1. ~InQueue(x) /\ \A b \in Actors : ~Owns(b, x)
  BY DEF OneCopy
<1>2. ~InQueue(x)'
  BY <1>1 DEF RowQueue, InQueue
<1>3. \A k \in 0 .. MaxRetries : queue'[RowMsg(x, k)] <= 1 /\ ~(queue'[RowMsg(x, k)] > 0)
  BY <1>1 DEF OneCopy, InQueue, RowQueue
<1>4. \A b \in Actors : Owns(b, x)' => b = a
  BY <1>1, OthersOwn
<1>5. \A b \in Actors : Handles(b, x)' => Owns(b, x)'
  BY DEF Owns
<1> QED BY <1>2, <1>3, <1>4, <1>5 DEF OneCopy

(* A message for one row says nothing of the others.                       *)
LEMMA PublishedRows ==
  ASSUME TypeOK, NEW m, Publish(m)
  PROVE  \A r \in Rows : \A k \in 0 .. MaxRetries :
           queue'[RowMsg(r, k)] = IF m = RowMsg(r, k) THEN queue[RowMsg(r, k)] + 1 ELSE queue[RowMsg(r, k)]
  BY QueueTypes DEF TypeOK, DataTypes, Publish

LEMMA TakenRows ==
  ASSUME TypeOK, NEW m, queue' = [queue EXCEPT ![m] = @ - 1]
  PROVE  \A r \in Rows : \A k \in 0 .. MaxRetries :
           queue'[RowMsg(r, k)] = IF m = RowMsg(r, k) THEN queue[RowMsg(r, k)] - 1 ELSE queue[RowMsg(r, k)]
  BY QueueTypes DEF TypeOK, DataTypes

LEMMA RowMsgs ==
  ASSUME NEW r, NEW k, NEW x, NEW l
  PROVE  /\ RowMsg(r, k) = RowMsg(x, l) <=> r = x /\ k = l
         /\ RowMsg(r, k) \notin {DispatchMsg, FinalizeMsg}
<1>1. RowMsg(r, k).row = r /\ RowMsg(r, k).tries = k /\ RowMsg(x, l).row = x /\ RowMsg(x, l).tries = l
  BY DEF RowMsg
<1> QED BY <1>1 DEF RowMsg, DispatchMsg, FinalizeMsg

-----------------------------------------------------------------------------
LEMMA RecordingCopy ==
  ASSUME TypeOK, CopyInv, NEW a \in Actors, NEW r, NEW oc, NEW b, Recording(a, r, oc, b),
         pc[a] \in {"match", "store", "bump"}, stack[a] = <<>>,
         queue' = queue, job' = job
  PROVE  CopyInv'
<1>1. /\ Only(a) /\ pc'[a] = "store" /\ UNCHANGED <<msg, stack, cas>>
  BY DEF Recording, Goto, Only, TypeOK, ActorTypes
<1>2. Shaped(a)'
  BY <1>1 DEF CopyInv, Shaped
<1>3. \A x \in Rows : Handles(a, x)' => Handles(a, x)
  BY <1>1 DEF Handles
<1> QED BY <1>1, <1>2, <1>3, CopyShrinks DEF RowQueue

LEMMA MatchCopy ==
  ASSUME TypeOK, CopyInv, NEW a \in Actors,
         MatchSucceeds(a) \/ MatchExhausted(a) \/ MatchBreaks(a)
  PROVE  CopyInv'
<1>1. pc[a] = "match" /\ stack[a] = <<>> /\ queue' = queue /\ job' = job
  BY DEF MatchSucceeds, MatchExhausted, MatchBreaks, CopyInv, Shaped
<1>2. \E r, oc, b : Recording(a, r, oc, b)
  BY DEF MatchSucceeds, MatchExhausted, MatchBreaks
<1> QED BY <1>1, <1>2, RecordingCopy

LEMMA RaiseInRowCopy ==
  ASSUME TypeOK, CopyInv, NEW a \in Actors, RaiseInRow(a)
  PROVE  CopyInv'
<1>1. pc[a] \in {"store", "bump"} /\ stack[a] = <<>> /\ queue' = queue /\ job' = job
  BY DEF RaiseInRow
<1>2. CASE Release(a)
  BY <1>1, <1>2, ReleaseCopy DEF RowQueue
<1>3. CASE Recording(a, rec[a].row, "failed", TRUE)
  BY <1>1, <1>3, RecordingCopy
<1> QED BY <1>2, <1>3 DEF RaiseInRow

LEMMA MatchRetriesCopy ==
  ASSUME TypeOK, CopyInv, NEW a \in Actors, MatchRetries(a)
  PROVE  CopyInv'
<1>1. PICK x \in Rows, k \in 0 .. MaxRetries : msg[a] = RowMsg(x, k)
  BY DEF TypeOK, InHand, MatchRetries, QueueMsgs, DispatchMsg, FinalizeMsg
<1>2. msg[a].row = x /\ msg[a].tries = k /\ k + 1 \in 0 .. MaxRetries
  BY <1>1, SizeAssumption DEF MatchRetries, RowMsg
<1>3. /\ Publish(RowMsg(x, k + 1))
      /\ job' = job /\ Release(a) /\ pc[a] = "match" /\ stack[a] = <<>>
  BY <1>2 DEF MatchRetries, CopyInv, Shaped
<1>4. Only(a) /\ pc'[a] = "idle" /\ stack'[a] = <<>>
  BY <1>3, ReleaseOnly
<1>5. \A r \in Rows : \A l \in 0 .. MaxRetries :
        queue'[RowMsg(r, l)] = IF r = x /\ l = k + 1 THEN queue[RowMsg(r, l)] + 1 ELSE queue[RowMsg(r, l)]
  <2>2. \A r \in Rows : \A l \in 0 .. MaxRetries :
          queue'[RowMsg(r, l)] = IF RowMsg(x, k + 1) = RowMsg(r, l)
                                 THEN queue[RowMsg(r, l)] + 1 ELSE queue[RowMsg(r, l)]
    BY <1>3, PublishedRows
  <2> QED BY <2>2, RowMsgs
<1>6. \A r \in Rows : ~Handles(a, r)' /\ ~InStack(stack'[a], r) /\ ~Owns(a, r)'
  BY <1>4, EmptyStack DEF Handles, Owns
<1>7. OneCopy(x)'
  <2>1. Owns(a, x) /\ OneCopy(x)
    BY <1>2, <1>3 DEF Owns, Handles, CopyInv
  <2> QED BY <1>2, <1>3, <1>4, <1>5, <1>6, <2>1, Enqueued
<1>8. \A r \in Rows : r # x => OneCopy(r)'
  BY <1>3, <1>4, <1>5, <1>6, RowShrinks DEF CopyInv, RowQueue
<1>9. Shaped(a)'
  BY <1>4, EmptyStack DEF Shaped
<1> QED BY <1>4, <1>7, <1>8, <1>9, OthersShaped DEF CopyInv

LEMMA StoreCopy ==
  ASSUME TypeOK, CopyInv, NEW a \in Actors, StoreRowResult(a) \/ BumpCounters(a)
  PROVE  CopyInv'
<1>1. PICK l \in {"bump", "settle"} : Goto(a, l)
  BY DEF StoreRowResult, BumpCounters
<1>2. /\ UNCHANGED <<msg, rec, stack, cas, queue>> /\ job'.dispatched = job.dispatched
      /\ pc[a] \in {"store", "bump"}
  BY DEF StoreRowResult, BumpCounters, TypeOK, DataTypes, ActorTypes, JobType, Outcomes
<1>3. Only(a) /\ pc'[a] = l
  BY <1>1, <1>2 DEF Goto, Only, TypeOK, ActorTypes
<1>4. Shaped(a)'
  BY <1>2, <1>3 DEF CopyInv, Shaped
<1>5. \A r \in Rows : Handles(a, r)' => Handles(a, r)
  BY <1>2, <1>3 DEF Handles
<1> QED BY <1>2, <1>3, <1>4, <1>5, CopyShrinks DEF RowQueue

LEMMA GotoOnly ==
  ASSUME TypeOK, NEW a \in Actors, NEW l, Goto(a, l), UNCHANGED <<msg, rec, stack, cas>>
  PROVE  Only(a)
  BY DEF TypeOK, ActorTypes, Goto, Only

LEMMA ClaimCopy ==
  ASSUME TypeOK, CopyInv, NEW a \in Actors, ClaimFinalize(a) \/ SweepClaim(a)
  PROVE  CopyInv'
<1>1. PICK l \in {"publish_finalize", "read", "sweep_publish", "topup"} : Goto(a, l)
  BY DEF ClaimFinalize, SweepClaim
<1>2. UNCHANGED <<msg, rec, stack, cas, queue>> /\ job'.dispatched = job.dispatched
  BY DEF ClaimFinalize, SweepClaim, TypeOK, DataTypes, JobType
<1> QED BY <1>1, <1>2, GotoOnly, GotoCopy DEF RowQueue

LEMMA PublishFinalizeCopy ==
  ASSUME TypeOK, CopyInv, NEW a \in Actors, PublishFinalize(a) \/ SweepPublish(a)
  PROVE  CopyInv'
<1>1. Publish(FinalizeMsg) /\ job' = job
  BY DEF PublishFinalize, SweepPublish
<1>2. \A r \in Rows : RowQueue(r)
  BY <1>1, PublishedRows, RowMsgs DEF RowQueue
<1>3. CASE PublishFinalize(a)
  BY <1>1, <1>2, <1>3, ReturnCopy DEF PublishFinalize
<1>4. CASE SweepPublish(a)
  <2>1. Goto(a, "topup") /\ UNCHANGED <<msg, rec, stack, cas>>
    BY <1>4 DEF SweepPublish
  <2> QED BY <1>1, <1>2, <2>1, GotoOnly, GotoCopy
<1> QED BY <1>3, <1>4

LEMMA ReturnsCopy ==
  ASSUME TypeOK, CopyInv, NEW a \in Actors,
         WindowDone(a) \/ RaiseInUnrecoverable(a) \/ RaiseInSettle(a)
  PROVE  CopyInv'
<1>1. queue' = queue /\ job' = job
  BY DEF WindowDone, RaiseInUnrecoverable, RaiseInSettle
<1>2. Return(a, stack[a]) \/ (Return(a, Tail(stack[a])) /\ stack[a] # <<>>)
  BY DEF WindowDone, RaiseInUnrecoverable, RaiseInSettle, TypeOK, InHand
<1> QED BY <1>1, <1>2, ReturnCopy DEF RowQueue

LEMMA RaiseInWindowCopy ==
  ASSUME TypeOK, CopyInv, NEW a \in Actors, RaiseInWindow(a)
  PROVE  CopyInv'
<1>1. queue' = queue /\ job' = job
  BY DEF RaiseInWindow
<1>2. pc[a] \in {"args", "publish"} => stack[a] # <<>>
  BY DEF TypeOK, InHand
<1>3. \/ Return(a, stack[a])
      \/ Return(a, Tail(stack[a])) /\ stack[a] # <<>>
      \/ Release(a)
      \/ /\ Goto(a, "d_failed")
         /\ stack' = [stack EXCEPT ![a] = <<>>]
         /\ rec' = [rec EXCEPT ![a] = NoRec]
         /\ cas' = [cas EXCEPT ![a] = NoCas]
         /\ msg' = msg
  BY <1>2 DEF RaiseInWindow
<1>4. CASE /\ Goto(a, "d_failed")
           /\ stack' = [stack EXCEPT ![a] = <<>>]
           /\ rec' = [rec EXCEPT ![a] = NoRec]
           /\ cas' = [cas EXCEPT ![a] = NoCas]
           /\ msg' = msg
  <2>1. Only(a) /\ pc'[a] = "d_failed" /\ stack'[a] = <<>>
    BY <1>4 DEF Goto, Only, TypeOK, ActorTypes
  <2>2. Shaped(a)'
    BY <2>1, EmptyStack DEF Shaped
  <2>3. \A r \in Rows : ~Handles(a, r)' /\ ~InStack(stack'[a], r)
    BY <2>1, EmptyStack DEF Handles
  <2> QED BY <1>1, <2>1, <2>2, <2>3, CopyShrinks DEF RowQueue
<1> QED BY <1>1, <1>3, <1>4, ReturnCopy, ReleaseCopy DEF RowQueue

LEMMA ReadCursorCopy ==
  ASSUME TypeOK, CopyInv, NEW a \in Actors, ReadCursor(a)
  PROVE  CopyInv'
<1>1. queue' = queue /\ job' = job
  BY DEF ReadCursor
<1>2. CASE Return(a, stack[a])
  BY <1>1, <1>2, ReturnCopy DEF RowQueue
<1>3. CASE ~Return(a, stack[a])
  <2>1. /\ ~(Limit(a) <= 0) /\ ~(job.dispatched >= N)
        /\ cas' = [cas EXCEPT ![a] = [read |-> job.dispatched,
                                      to |-> Lesser(job.dispatched + Limit(a), N),
                                      attempts |-> cas[a].attempts]]
        /\ Goto(a, "cas")
        /\ UNCHANGED <<msg, rec, stack>>
    BY <1>3 DEF ReadCursor
  <2>2. Only(a) /\ pc'[a] = "cas" /\ stack'[a] = stack[a]
    BY <2>1 DEF Goto, Only, TypeOK, ActorTypes
  <2>3. cas'[a].read = job.dispatched /\ cas'[a].to = Lesser(job.dispatched + Limit(a), N)
    BY <2>1 DEF TypeOK, ActorTypes
  <2>4. Limit(a) \in Int /\ job.dispatched \in Int
    <3>1. tick[a].deficit \in Int
      BY DEF TypeOK, ActorTypes
    <3>2. job.dispatched \in Int
      BY DEF TypeOK, DataTypes, JobType
    <3>3. Limit(a) \in {Chunk, Window, Lesser(IF Chunk > 0 THEN Chunk ELSE 1, tick[a].deficit)}
      BY DEF Limit
    <3> QED BY <3>1, <3>2, <3>3, SizeAssumption DEF Lesser
  <2>5. cas'[a].read <= cas'[a].to
    BY <2>1, <2>3, <2>4, SizeAssumption DEF Lesser
  <2>6. Shaped(a)'
    BY <2>2, <2>5 DEF CopyInv, Shaped
  <2>7. \A r \in Rows : ~Handles(a, r)'
    BY <2>2 DEF Handles
  <2> QED BY <1>1, <2>2, <2>6, <2>7, CopyShrinks DEF RowQueue
<1> QED BY <1>2, <1>3

LEMMA SwapCursorCopy ==
  ASSUME TypeOK, CopyInv, NEW a \in Actors, SwapCursor(a)
  PROVE  CopyInv'
<1>0. queue' = queue /\ pc[a] = "cas" /\ UNCHANGED <<msg, rec>>
  BY DEF SwapCursor
<1>1. CASE ~CursorUnchanged(a)
  <2>1. /\ Goto(a, "read") /\ job' = job /\ stack' = stack
        /\ cas' = [cas EXCEPT ![a] = [read |-> 0, to |-> 0, attempts |-> @.attempts + 1]]
    BY <1>1 DEF SwapCursor
  <2>2. Only(a) /\ pc'[a] = "read" /\ stack'[a] = stack[a]
    BY <1>0, <2>1 DEF Goto, Only, TypeOK, ActorTypes
  <2>3. Shaped(a)' /\ \A r \in Rows : ~Handles(a, r)'
    BY <2>2 DEF CopyInv, Shaped, Handles
  <2> QED BY <1>0, <2>1, <2>2, <2>3, CopyShrinks DEF RowQueue
<1>2. CASE CursorUnchanged(a)
  <2>1. PICK w : w = ClaimedWindow(a)
    OBVIOUS
  <2>2. PICK from \in 0 .. N, to \in 0 .. N : from = cas[a].read /\ to = cas[a].to
    BY DEF TypeOK, ActorTypes
  <2>3. from <= to /\ job.dispatched = from
    BY <1>0, <1>2, <2>2 DEF CopyInv, Shaped, CursorUnchanged
  <2>4. /\ job' = [job EXCEPT !.dispatched = to]
        /\ stack' = [stack EXCEPT ![a] = <<w>> \o stack[a]]
        /\ cas' = [cas EXCEPT ![a] = NoCas]
        /\ Goto(a, "args")
    BY <1>2, <2>1, <2>2 DEF SwapCursor
  <2>5. Only(a) /\ pc'[a] = "args" /\ stack'[a] = <<w>> \o stack[a]
    BY <1>0, <2>4 DEF Goto, Only, TypeOK, ActorTypes
  <2>6. job'.dispatched = to
    BY <2>4 DEF TypeOK, DataTypes, JobType
  <2>7. w.rows = [i \in 1 .. to - from |-> from + i - 1]
    BY <2>1, <2>2 DEF ClaimedWindow
  <2>8. /\ w \in WindowType /\ Len(w.rows) = to - from
        /\ \A j \in 1 .. to - from : w.rows[j] = from + j - 1
    <3>1. \A i \in 1 .. to - from : from + i - 1 \in Rows
      BY SizeAssumption DEF Rows
    <3>2. to - from \in Nat
      BY <2>3
    <3>3. [i \in 1 .. to - from |-> from + i - 1] \in Seq(Rows)
      BY <3>1, <3>2
    <3>4. Len([i \in 1 .. to - from |-> from + i - 1]) = to - from
      BY <3>2
    <3>5. PICK q : q = [i \in 1 .. to - from |-> from + i - 1]
      OBVIOUS
    <3>6. w.rows \in Seq(Rows) /\ Len(w.rows) = to - from
      BY <2>7, <3>3, <3>4
    <3>7. w \in WindowType
      <4>1. w = [rows |-> q, found |-> TRUE] /\ q \in Seq(Rows)
        BY <2>1, <2>2, <3>3, <3>5 DEF ClaimedWindow
      <4> QED BY <4>1 DEF WindowType
    <3> QED BY <2>7, <3>6, <3>7
  <2>9. \A j \in 1 .. Len(w.rows) : w.rows[j] \in Rows /\ w.rows[j] >= from /\ ~(w.rows[j] >= to)
    BY <2>8, SizeAssumption DEF Rows
  <2>10. \A j, j2 \in 1 .. Len(w.rows) : w.rows[j] = w.rows[j2] => j = j2
    BY <2>8
  <2>11. stack[a] \in Seq(WindowType) /\ DistinctRows(stack[a])
    BY DEF TypeOK, ActorTypes, CopyInv, Shaped
  <2>12. \A j \in 1 .. Len(w.rows) : ~InStack(stack[a], w.rows[j])
    BY <2>3, <2>9 DEF CopyInv, OneCopy, Owns
  <2>13. /\ \A r : InStack(stack'[a], r) => InStack(stack[a], r) \/ \E j \in 1 .. Len(w.rows) : w.rows[j] = r
         /\ DistinctRows(stack'[a])
    <3>1. /\ \A r : InStack(<<w>> \o stack[a], r) =>
                    InStack(stack[a], r) \/ \E j \in 1 .. Len(w.rows) : w.rows[j] = r
          /\ DistinctRows(<<w>> \o stack[a])
      BY <2>8, <2>10, <2>11, <2>12, StackPush
    <3> QED BY <2>5, <3>1
  <2>14. \A r \in Rows : ~Handles(a, r)' /\ RowQueue(r)
    BY <1>0, <2>5 DEF Handles, RowQueue
  <2>15. ASSUME NEW r \in Rows PROVE OneCopy(r)'
    <3>1. CASE r >= from /\ ~(r >= to)
      BY <2>3, <2>5, <2>6, <2>14, <3>1, Claimed DEF CopyInv
    <3>2. CASE ~(r >= from /\ ~(r >= to))
      <4>1. ~\E j \in 1 .. Len(w.rows) : w.rows[j] = r
        BY <2>9, <3>2
      <4>2. r >= to => r >= from
        BY <2>3 DEF Rows
      <4> QED BY <2>3, <2>5, <2>6, <2>13, <2>14, <4>1, <4>2, RowShrinks DEF CopyInv
    <3> QED BY <3>1, <3>2
  <2>16. Shaped(a)'
    BY <2>5, <2>13 DEF Shaped
  <2> QED BY <2>5, <2>15, <2>16, OthersShaped DEF CopyInv
<1> QED BY <1>1, <1>2

LEMMA ArgsCopy ==
  ASSUME TypeOK, CopyInv, NEW a \in Actors, FetchRowArgs(a) \/ ArgsMiss(a)
  PROVE  CopyInv'
<1>1. PICK b \in BOOLEAN : stack' = [stack EXCEPT ![a][1].found = b]
  BY DEF FetchRowArgs, ArgsMiss, TypeOK, DataTypes
<1>2. /\ queue' = queue /\ job' = job /\ Goto(a, "publish") /\ UNCHANGED <<msg, cas>>
      /\ rec' = [rec EXCEPT ![a] = NoRec]
  BY DEF FetchRowArgs, ArgsMiss
<1>3. stack[a] \in Seq(WindowType) /\ stack[a] # <<>> /\ DistinctRows(stack[a])
  BY DEF TypeOK, ActorTypes, InHand, FetchRowArgs, ArgsMiss, CopyInv, Shaped
<1>4. Only(a) /\ pc'[a] = "publish" /\ stack'[a] = [stack[a] EXCEPT ![1].found = b]
  BY <1>1, <1>2 DEF Goto, Only, TypeOK, ActorTypes
<1>5. /\ \A r : InStack(stack'[a], r) => InStack(stack[a], r)
      /\ DistinctRows(stack'[a])
  BY <1>3, <1>4, StackFound
<1>6. Shaped(a)' /\ \A r \in Rows : ~Handles(a, r)'
  BY <1>4, <1>5 DEF Shaped, Handles
<1> QED BY <1>2, <1>4, <1>5, <1>6, CopyShrinks DEF RowQueue

LEMMA PublishRowCopy ==
  ASSUME TypeOK, CopyInv, NEW a \in Actors, PublishRow(a)
  PROVE  CopyInv'
<1>1. stack[a] \in Seq(WindowType) /\ stack[a] # <<>> /\ Head(stack[a]).rows # <<>>
      /\ DistinctRows(stack[a])
  BY DEF TypeOK, ActorTypes, InHand, PublishRow, CopyInv, Shaped
<1>2. PICK t : t = [stack[a] EXCEPT ![1].rows = Tail(@)]
  OBVIOUS
<1>3. PICK x : x = Head(Head(stack[a]).rows)
  OBVIOUS
<1>4. /\ t # <<>> /\ x \in Rows /\ InStack(stack[a], x)
      /\ \A r : InStack(t, r) => InStack(stack[a], r) /\ r # x
      /\ DistinctRows(t)
  BY <1>1, <1>2, <1>3, StackPop
<1>5. /\ Publish(RowMsg(x, 0)) /\ job' = job /\ UNCHANGED <<pc, msg, rec, cas>>
      /\ stack' = [stack EXCEPT ![a] = t] /\ pc[a] = "publish"
  BY <1>2, <1>3 DEF PublishRow, TypeOK, ActorTypes
<1>6. Only(a) /\ pc'[a] = "publish" /\ stack'[a] = t
  BY <1>5 DEF Only, TypeOK, ActorTypes
<1>7. \A r \in Rows : ~Handles(a, r)'
  BY <1>6 DEF Handles
<1>8. \A r \in Rows : \A k \in 0 .. MaxRetries :
        queue'[RowMsg(r, k)] = IF r = x /\ k = 0 THEN queue[RowMsg(r, k)] + 1 ELSE queue[RowMsg(r, k)]
  <2>1. \A r \in Rows : \A k \in 0 .. MaxRetries :
          queue'[RowMsg(r, k)] = IF RowMsg(x, 0) = RowMsg(r, k)
                                 THEN queue[RowMsg(r, k)] + 1 ELSE queue[RowMsg(r, k)]
    BY <1>5, PublishedRows
  <2> QED BY <2>1, RowMsgs
<1>9. OneCopy(x)'
  <2>1. Owns(a, x) /\ OneCopy(x)
    BY <1>4 DEF Owns, CopyInv
  <2>2. ~Owns(a, x)'
    BY <1>4, <1>6, <1>7 DEF Owns
  <2>3. 0 \in 0 .. MaxRetries
    BY SizeAssumption
  <2> QED BY <1>4, <1>5, <1>6, <1>8, <2>1, <2>2, <2>3, Enqueued
<1>10. \A r \in Rows : r # x => OneCopy(r)'
  BY <1>4, <1>5, <1>6, <1>7, <1>8, RowShrinks DEF CopyInv, RowQueue
<1>11. Shaped(a)'
  BY <1>4, <1>6 DEF Shaped
<1> QED BY <1>6, <1>9, <1>10, <1>11, OthersShaped DEF CopyInv

LEMMA FailUnrecoverableCopy ==
  ASSUME TypeOK, CopyInv, NEW a \in Actors, FailUnrecoverable(a)
  PROVE  CopyInv'
<1>1. stack[a] \in Seq(WindowType) /\ stack[a] # <<>> /\ Head(stack[a]).rows # <<>>
      /\ DistinctRows(stack[a])
  BY DEF TypeOK, ActorTypes, InHand, FailUnrecoverable, CopyInv, Shaped
<1>2. PICK t : t = [stack[a] EXCEPT ![1].rows = Tail(@)]
  OBVIOUS
<1>3. PICK x : x = Head(Head(stack[a]).rows)
  OBVIOUS
<1>4. /\ t # <<>> /\ x \in Rows /\ InStack(stack[a], x)
      /\ \A r : InStack(t, r) => InStack(stack[a], r) /\ r # x
      /\ DistinctRows(t)
  BY <1>1, <1>2, <1>3, StackPop
<1>5. /\ queue' = queue /\ job' = job /\ Goto(a, "store") /\ UNCHANGED <<msg, cas>>
      /\ stack' = [stack EXCEPT ![a] = t]
      /\ rec' = [rec EXCEPT ![a] = [row |-> x, outcome |-> "failed", rescue |-> FALSE]]
  BY <1>2, <1>3 DEF FailUnrecoverable, TypeOK, ActorTypes
<1>6. Only(a) /\ pc'[a] = "store" /\ stack'[a] = t /\ rec'[a].row = x
  BY <1>5 DEF Only, Goto, TypeOK, ActorTypes
<1>7. \A r \in Rows : Handles(a, r)' => r = x
  BY <1>4, <1>6 DEF Handles
<1>8. OneCopy(x)'
  <2>1. Owns(a, x) /\ OneCopy(x)
    BY <1>4 DEF Owns, CopyInv
  <2>2. ~InStack(stack'[a], x)
    BY <1>4, <1>6
  <2> QED BY <1>4, <1>5, <1>6, <2>1, <2>2, Handed DEF RowQueue
<1>9. \A r \in Rows : r # x => OneCopy(r)'
  BY <1>4, <1>5, <1>6, <1>7, RowShrinks DEF CopyInv, RowQueue
<1>10. Shaped(a)'
  BY <1>4, <1>6 DEF Shaped
<1> QED BY <1>6, <1>8, <1>9, <1>10, OthersShaped DEF CopyInv

LEMMA TakeCopy ==
  ASSUME TypeOK, CopyInv, NEW a \in Actors, Take(a)
  PROVE  CopyInv'
<1>1. PICK m \in QueueMsgs : /\ queue[m] > 0
                             /\ queue' = [queue EXCEPT ![m] = @ - 1]
                             /\ msg' = [msg EXCEPT ![a] = m]
                             /\ Goto(a, Entry(m.task))
  BY DEF Take
<1>2. /\ UNCHANGED <<job, rec, stack, cas>> /\ stack[a] = <<>>
  BY DEF Take, CopyInv, Shaped
<1>3. Only(a) /\ pc'[a] = Entry(m.task) /\ stack'[a] = <<>> /\ msg'[a] = m
  BY <1>1, <1>2 DEF Only, Goto, TypeOK, ActorTypes
<1>4. \A r \in Rows : ~InStack(stack'[a], r)
  BY <1>3, EmptyStack
<1>5. \A r \in Rows : \A k \in 0 .. MaxRetries :
        queue'[RowMsg(r, k)] = IF m = RowMsg(r, k) THEN queue[RowMsg(r, k)] - 1 ELSE queue[RowMsg(r, k)]
  BY <1>1, TakenRows
<1>6. CASE m \in {DispatchMsg, FinalizeMsg}
  <2>1. Entry(m.task) \in {"d_load", "f_start"}
    BY <1>6 DEF Entry, DispatchMsg, FinalizeMsg
  <2>2. Shaped(a)' /\ \A r \in Rows : ~Handles(a, r)'
    BY <1>3, <2>1, EmptyStack DEF Shaped, Handles
  <2>3. \A r \in Rows : RowQueue(r)
    BY <1>5, <1>6, RowMsgs DEF RowQueue
  <2> QED BY <1>2, <1>3, <1>4, <2>2, <2>3, CopyShrinks
<1>7. CASE m \notin {DispatchMsg, FinalizeMsg}
  <2>1. PICK x \in Rows, k0 \in 0 .. MaxRetries : m = RowMsg(x, k0)
    BY <1>7 DEF QueueMsgs
  <2>2. Entry(m.task) = "match" /\ m.row = x
    BY <2>1 DEF Entry, RowMsg
  <2>3. \A r \in Rows : Handles(a, r)' => r = x
    BY <1>3, <2>2 DEF Handles
  <2>4. \A r \in Rows : \A k \in 0 .. MaxRetries :
          queue'[RowMsg(r, k)] = IF r = x /\ k = k0 THEN queue[RowMsg(r, k)] - 1 ELSE queue[RowMsg(r, k)]
    BY <1>5, <2>1, RowMsgs
  <2>5. OneCopy(x)'
    <3>1. OneCopy(x) /\ queue[RowMsg(x, k0)] > 0
      BY <1>1, <2>1 DEF CopyInv
    <3> QED BY <1>2, <1>3, <1>4, <2>4, <3>1, Dequeued
  <2>6. \A r \in Rows : r # x => OneCopy(r)'
    BY <1>2, <1>3, <1>4, <2>3, <2>4, RowShrinks DEF CopyInv, RowQueue
  <2>7. Shaped(a)'
    BY <1>3, <2>2, EmptyStack DEF Shaped
  <2> QED BY <1>3, <2>5, <2>6, <2>7, OthersShaped DEF CopyInv
<1> QED BY <1>6, <1>7

(* The condition: the broker hands a row message out once.                 *)
RowOnce == <<"redeliver", "row">> \notin FaultPoints

LEMMA RedeliverCopy ==
  ASSUME TypeOK, CopyInv, RowOnce, NEW m \in QueueMsgs, Redeliver(m)
  PROVE  CopyInv'
<1>1. Publish(m) /\ job' = job /\ UNCHANGED <<pc, msg, rec, stack, cas>>
  BY DEF Redeliver, actorVars
<1>2. m \in {DispatchMsg, FinalizeMsg}
  BY DEF Redeliver, Fault, RowOnce, QueueMsgs, RowMsg
<1>3. \A r \in Rows : RowQueue(r)
  BY <1>1, <1>2, PublishedRows, RowMsgs DEF RowQueue
<1>4. \A r \in Rows : OneCopy(r)'
  <2> TAKE r \in Rows
  <2>1. InQueue(r)' <=> InQueue(r)
    BY <1>3 DEF InQueue, RowQueue
  <2>2. \A b \in Actors : (Owns(b, r)' <=> Owns(b, r)) /\ (Handles(b, r)' <=> Handles(b, r))
    BY <1>1 DEF Owns, Handles
  <2> QED BY <1>1, <1>3, <2>1, <2>2 DEF CopyInv, OneCopy, RowQueue
<1>5. \A b \in Actors : Shaped(b)'
  BY <1>1 DEF CopyInv, Shaped
<1> QED BY <1>4, <1>5 DEF CopyInv

(* The rewind of the cursor meets a job of which nothing is out.           *)
LEMMA DispatchMarkCopy ==
  ASSUME TypeOK, CopyInv, DispatchInv, NEW a \in Actors, DispatchMark(a)
  PROVE  CopyInv'
<1>1. PICK l \in {"d_empty", "d_cache"} : Goto(a, l)
  BY DEF DispatchMark
<1>2. UNCHANGED <<queue, msg, rec, stack, cas>> /\ Early
  BY DEF DispatchMark, Early, EarlyLabels
<1>3. Only(a) /\ pc'[a] = l
  BY <1>1, <1>2, GotoOnly DEF Goto, TypeOK, ActorTypes
<1>4. \A r \in Rows : RowQueue(r) /\ ~InQueue(r)'
  <2> TAKE r \in Rows
  <2>1. \A k \in 0 .. MaxRetries : queue[RowMsg(r, k)] = 0
    BY <1>2, EarlyBlocks, QueueTypes, RowMsgs
  <2> QED BY <1>2, <2>1 DEF RowQueue, InQueue
<1>5. \A b \in Actors : stack'[b] = <<>> /\ pc'[b] \notin {"match", "store", "bump"}
  <2> TAKE b \in Actors
  <2>1. EarlyActor(b)
    BY <1>2, EarlyBlocks
  <2>2. pc'[b] = IF b = a THEN l ELSE pc[b]
    BY <1>3 DEF Only
  <2> QED BY <1>2, <2>1, <2>2 DEF EarlyActor, EarlyLabels
<1>6. \A r \in Rows : \A b \in Actors : ~Owns(b, r)' /\ ~Handles(b, r)'
  BY <1>5, EmptyStack DEF Owns, Handles
<1>7. \A r \in Rows : OneCopy(r)'
  BY <1>4, <1>6 DEF OneCopy, CopyInv, RowQueue
<1>8. \A b \in Actors : Shaped(b)'
  BY <1>2, <1>3, <1>5, EmptyStack DEF Shaped, CopyInv, Only
<1> QED BY <1>7, <1>8 DEF CopyInv

LEMMA OtherStepsCopy ==
  ASSUME TypeOK, CopyInv, NEW a \in Actors,
         \/ DispatchLoad(a) \/ CacheRowArgs(a) \/ DispatchFailed(a) \/ RaiseInDispatch(a)
         \/ FinalizeStep(a) \/ RaiseInFinalize(a)
         \/ SweepSelect(a) \/ TopUp(a) \/ RaiseInSweep(a) \/ Crash(a)
  PROVE  CopyInv'
<1>1. queue' = queue /\ job'.dispatched = job.dispatched
  BY DEF DispatchLoad, CacheRowArgs, DispatchFailed, RaiseInDispatch, FinalizeStep, FinalizeStart,
     FinalizeLoad, FinalizeCollect, FinalizePut, FinalizeComplete, CleanUpload, CleanResults,
     CleanRowArgs, RaiseInFinalize, SweepSelect, TopUp, RaiseInSweep, Crash,
     TypeOK, DataTypes, JobType
<1>2. \/ Release(a)
      \/ /\ \E l \in {"d_mark", "d_failed", "read", "sweep_claim", "topup"} \cup FinalizeLabels : Goto(a, l)
         /\ UNCHANGED <<msg, rec, stack, cas>>
  <2>1. CASE DispatchLoad(a) \/ CacheRowArgs(a) \/ DispatchFailed(a) \/ RaiseInDispatch(a)
    BY <2>1 DEF DispatchLoad, CacheRowArgs, DispatchFailed, RaiseInDispatch
  <2>2. CASE FinalizeStep(a) \/ RaiseInFinalize(a)
    BY <2>2 DEF FinalizeStep, FinalizeStart, FinalizeLoad, FinalizeCollect, FinalizePut,
       FinalizeComplete, CleanUpload, CleanResults, CleanRowArgs, RaiseInFinalize, FinalizeLabels
  <2>3. CASE SweepSelect(a) \/ TopUp(a) \/ RaiseInSweep(a) \/ Crash(a)
    BY <2>3 DEF SweepSelect, TopUp, RaiseInSweep, Crash
  <2> QED BY <2>1, <2>2, <2>3
<1> QED BY <1>1, <1>2, ReleaseCopy, GotoOnly, GotoCopy DEF RowQueue, FinalizeLabels

LEMMA TickStartCopy ==
  ASSUME TypeOK, CopyInv, NEW a \in Actors, TickStart(a)
  PROVE  CopyInv'
<1>1. Goto(a, "sweep_select") /\ UNCHANGED <<rec, stack, cas, queue, job>>
      /\ msg' = [msg EXCEPT ![a] = TickMsg]
  BY DEF TickStart
<1>2. Only(a)
  BY <1>1 DEF Goto, Only, TypeOK, ActorTypes
<1> QED BY <1>1, <1>2, GotoCopy DEF RowQueue

LEMMA StepCopy ==
  ASSUME TypeOK, DispatchInv, CopyInv, RowOnce, [Next]_vars
  PROVE  CopyInv'
<1>1. ASSUME NEW a \in Actors, Run(a) PROVE CopyInv'
  <2>1. CASE RowStep(a)
    BY <2>1, MatchCopy, MatchRetriesCopy, StoreCopy, ClaimCopy, PublishFinalizeCopy DEF RowStep
  <2>2. CASE WindowStep(a)
    BY <2>2, ReadCursorCopy, SwapCursorCopy, ArgsCopy, PublishRowCopy, FailUnrecoverableCopy,
       ReturnsCopy DEF WindowStep
  <2>3. CASE DispatchStep(a)
    BY <2>3, OtherStepsCopy, DispatchMarkCopy DEF DispatchStep
  <2>4. CASE TickStep(a)
    BY <2>4, OtherStepsCopy, ClaimCopy, PublishFinalizeCopy DEF TickStep
  <2> QED BY <1>1, <2>1, <2>2, <2>3, <2>4, OtherStepsCopy DEF Run
<1>2. ASSUME NEW a \in Actors, Raise(a) PROVE CopyInv'
  BY <1>2, RaiseInRowCopy, ReturnsCopy, RaiseInWindowCopy, OtherStepsCopy DEF Raise
<1>3. CASE UNCHANGED vars
  <2>1. UNCHANGED <<job, queue, pc, msg, rec, stack, cas>>
    BY <1>3 DEF vars, actorVars
  <2> QED BY <2>1 DEF CopyInv, OneCopy, Shaped, InQueue, Owns, Handles
<1>4. ASSUME NEW a \in Workers, Take(a) PROVE CopyInv'
  BY <1>4, TakeCopy DEF Actors
<1>5. ASSUME NEW a \in Beats, TickStart(a) PROVE CopyInv'
  BY <1>5, TickStartCopy DEF Actors
<1> QED
  BY <1>1, <1>2, <1>3, <1>4, <1>5, OtherStepsCopy, ArgsCopy, RedeliverCopy DEF Next

LEMMA InitCopy == ASSUME Init PROVE CopyInv
<1>1. \A r \in Rows : ~InQueue(r) /\ \A k \in 0 .. MaxRetries : queue[RowMsg(r, k)] = 0
  <2> TAKE r \in Rows
  <2>1. \A k \in 0 .. MaxRetries : RowMsg(r, k) \in QueueMsgs /\ RowMsg(r, k) # DispatchMsg
    BY RowMsgs DEF QueueMsgs
  <2> QED BY <2>1 DEF Init, InQueue
<1>2. \A a \in Actors : pc[a] = "idle" /\ stack[a] = <<>>
  BY DEF Init
<1>3. \A r \in Rows : \A a \in Actors : ~Owns(a, r) /\ ~Handles(a, r)
  BY <1>2, EmptyStack DEF Owns, Handles
<1>4. \A r \in Rows : OneCopy(r)
  BY <1>1, <1>3 DEF OneCopy
<1>5. \A a \in Actors : Shaped(a)
  BY <1>2, EmptyStack DEF Shaped
<1> QED BY <1>4, <1>5 DEF CopyInv

LEMMA AtMostOne ==
  ASSUME NEW S, \A x, y \in S : x = y
  PROVE  Cardinality(S) \in {0, 1} /\ (S = {} => Cardinality(S) = 0)
<1>1. CASE S = {}
  BY <1>1, FS_EmptySet
<1>2. CASE S # {}
  <2>1. PICK x \in S : S = {x}
    BY <1>2
  <2> QED BY <1>2, <2>1, FS_Singleton
<1> QED BY <1>1, <1>2

LEMMA CopiesOnce ==
  ASSUME TypeOK, CopyInv
  PROVE  AtMostOneCopy
<1> SUFFICES ASSUME NEW r \in Rows
             PROVE  /\ \A k \in 0 .. MaxRetries : queue[RowMsg(r, k)] <= 1
                    /\ Cardinality(QueuedCopies(r)) + Cardinality(RunningCopies(r))
                         + Cardinality(ClaimedCopies(r)) <= 1
  BY DEF AtMostOneCopy
<1>1. OneCopy(r)
  BY DEF CopyInv
<1>2. /\ \A k, l \in QueuedCopies(r) : k = l
      /\ QueuedCopies(r) # {} => InQueue(r)
  BY <1>1 DEF OneCopy, QueuedCopies, InQueue
<1>3. \A a \in RunningCopies(r) : a \in Actors /\ Handles(a, r) /\ Owns(a, r)
  BY DEF RunningCopies, Handles, Owns
<1>4. \A c \in ClaimedCopies(r) :
        /\ c[1] \in Actors /\ InStack(stack[c[1]], r) /\ Owns(c[1], r)
        /\ c[2] \in 1 .. Len(stack[c[1]]) /\ c[3] \in 1 .. Len(stack[c[1]][c[2]].rows)
        /\ stack[c[1]][c[2]].rows[c[3]] = r
  <2> SUFFICES ASSUME NEW c \in ClaimedCopies(r)
               PROVE  /\ c[1] \in Actors /\ InStack(stack[c[1]], r) /\ Owns(c[1], r)
                      /\ c[2] \in 1 .. Len(stack[c[1]]) /\ c[3] \in 1 .. Len(stack[c[1]][c[2]].rows)
                      /\ stack[c[1]][c[2]].rows[c[3]] = r
    OBVIOUS
  <2>1. /\ c[1] \in Actors /\ c[2] \in DOMAIN stack[c[1]]
        /\ c[3] \in DOMAIN stack[c[1]][c[2]].rows /\ stack[c[1]][c[2]].rows[c[3]] = r
    BY DEF ClaimedCopies
  <2>2. stack[c[1]] \in Seq(WindowType) /\ c[2] \in 1 .. Len(stack[c[1]])
    BY <2>1 DEF TypeOK, ActorTypes
  <2>3. stack[c[1]][c[2]].rows \in Seq(Rows)
    BY <2>2, WindowFields
  <2>4. c[3] \in 1 .. Len(stack[c[1]][c[2]].rows)
    BY <2>1, <2>3
  <2> QED BY <2>1, <2>2, <2>4 DEF InStack, Owns
<1>5. \A a, b \in RunningCopies(r) : a = b
  BY <1>1, <1>3 DEF OneCopy
<1>6. \A c, d \in ClaimedCopies(r) : c = d
  <2> SUFFICES ASSUME NEW c \in ClaimedCopies(r), NEW d \in ClaimedCopies(r) PROVE c = d
    OBVIOUS
  <2>1. c[1] = d[1]
    BY <1>1, <1>4 DEF OneCopy
  <2>2. DistinctRows(stack[c[1]])
    BY <1>4 DEF CopyInv, Shaped
  <2>3. PICK s, i, i2, j, j2 : s = stack[c[1]] /\ i = c[2] /\ i2 = d[2] /\ j = c[3] /\ j2 = d[3]
    OBVIOUS
  <2>5. /\ i \in 1 .. Len(s) /\ j \in 1 .. Len(s[i].rows) /\ s[i].rows[j] = r
        /\ i2 \in 1 .. Len(s) /\ j2 \in 1 .. Len(s[i2].rows) /\ s[i2].rows[j2] = r
        /\ DistinctRows(s)
    <3>1. /\ c[2] \in 1 .. Len(stack[c[1]]) /\ c[3] \in 1 .. Len(stack[c[1]][c[2]].rows)
          /\ stack[c[1]][c[2]].rows[c[3]] = r
      BY <1>4
    <3>2. /\ d[2] \in 1 .. Len(stack[c[1]]) /\ d[3] \in 1 .. Len(stack[c[1]][d[2]].rows)
          /\ stack[c[1]][d[2]].rows[d[3]] = r
      BY <1>4, <2>1
    <3> QED BY <2>2, <2>3, <3>1, <3>2
  <2>6. i = i2 /\ j = j2
    BY <2>5 DEF DistinctRows
  <2>4. c = <<c[1], c[2], c[3]>> /\ d = <<d[1], d[2], d[3]>>
    BY DEF ClaimedCopies
  <2> QED BY <2>1, <2>3, <2>4, <2>6
<1>7. /\ QueuedCopies(r) = {} \/ (RunningCopies(r) = {} /\ ClaimedCopies(r) = {})
      /\ RunningCopies(r) = {} \/ ClaimedCopies(r) = {}
  <2>1. RunningCopies(r) # {} \/ ClaimedCopies(r) # {} => \E a \in Actors : Owns(a, r)
    BY <1>3, <1>4
  <2>2. ASSUME NEW a \in RunningCopies(r), NEW c \in ClaimedCopies(r) PROVE FALSE
    <3>1. a = c[1]
      BY <1>1, <1>3, <1>4 DEF OneCopy
    <3> QED BY <1>1, <1>3, <1>4, <3>1 DEF OneCopy
  <2> QED BY <1>1, <1>2, <2>1, <2>2 DEF OneCopy
<1>8. /\ Cardinality(QueuedCopies(r)) \in {0, 1} /\ (QueuedCopies(r) = {} => Cardinality(QueuedCopies(r)) = 0)
      /\ Cardinality(RunningCopies(r)) \in {0, 1} /\ (RunningCopies(r) = {} => Cardinality(RunningCopies(r)) = 0)
      /\ Cardinality(ClaimedCopies(r)) \in {0, 1} /\ (ClaimedCopies(r) = {} => Cardinality(ClaimedCopies(r)) = 0)
  BY <1>2, <1>5, <1>6, AtMostOne
<1>9. Cardinality(QueuedCopies(r)) + Cardinality(RunningCopies(r)) + Cardinality(ClaimedCopies(r)) <= 1
  BY <1>7, <1>8
<1> QED BY <1>1, <1>9 DEF OneCopy

(* However self-refill, nested refills, the dispatch's own window and the  *)
(* beat tick interleave, and whatever fails among them, a row is queued,   *)
(* claimed or worked on in one copy at most: the conditional UPDATE of     *)
(* claim_row_window gives every row to one caller.                         *)
THEOREM AtMostOneCopyHolds ==
  ASSUME DispatchedOnce, RowOnce
  PROVE  Spec => []AtMostOneCopy
<1>1. Init => TypeOK /\ DispatchInv /\ CopyInv
  BY InitTypes, InitDispatch, InitCopy
<1>2. TypeOK /\ DispatchInv /\ CopyInv /\ [Next]_vars => TypeOK' /\ DispatchInv' /\ CopyInv'
  BY DispatchedOnce, RowOnce, StepTypes, StepDispatch, StepCopy
<1>3. TypeOK /\ CopyInv => AtMostOneCopy
  BY CopiesOnce
<1> QED BY <1>1, <1>2, <1>3, PTL DEF Spec
=============================================================================
