------------------------- MODULE ExternalMatchProofs -------------------------
(***************************************************************************)
(* Proofs about ExternalMatch, for every set of rows, workers, beats and   *)
(* clients and every set of faults.                                        *)
(***************************************************************************)
EXTENDS ExternalMatch, FiniteSetTheorems, TLAPS

(* What an actor has in hand where the type of a step's result depends on  *)
(* it: a chunk of a tick never asks for more than the deficit that is      *)
(* left, wins no more than it asked for, a finalizer has read a phase, a    *)
(* retry has rows of the job, and a beat works on no message.              *)
BeatLabels == {"idle", "tick_remaining", "sweep", "sweep_claim", "sweep_publish", "topup",
               "select", "claim_rows", "publish_rows"}

InHand ==
  \A a \in Actors :
    /\ a \in Beats => pc[a] \in BeatLabels /\ msg[a] = NoMsg
    /\ pc[a] \in {"select", "claim_rows", "publish_rows"} /\ a \in Beats =>
         want[a].limit <= want[a].left
    /\ pc[a] = "claim_rows" => Cardinality(want[a].rows) <= want[a].limit
    /\ pc[a] = "publish_rows" => want[a].won <= want[a].limit
    /\ pc[a] = "f_commit" => want[a].seen # "none"
    /\ pc[a] = "retry" => msg[a].rows \in SUBSET Rows

TypeInv == TypeOK /\ InHand

ActorTypes ==
  /\ pc \in [Actors -> Labels]
  /\ msg \in [Actors -> QueueMsgs \cup {NoMsg}]
  /\ rec \in [Actors -> [retry : BOOLEAN, outcome : {"matched", "no_match", "failed"},
                          rescue : BOOLEAN]]
  /\ want \in [Actors -> WantType]

DataTypes ==
  /\ job \in JobType
  /\ row \in [Rows -> [status : {"pending", "dispatched"} \cup Terminal, attempts : Nat]]
  /\ queue \in [QueueMsgs -> Nat]
  /\ requests \in 0 .. MaxRequests
  /\ faults \in 0 .. MaxFaults

ActorInv == ActorTypes /\ InHand

LEMMA TypeParts == TypeInv <=> ActorInv /\ DataTypes
  BY DEF TypeInv, TypeOK, ActorInv, ActorTypes, DataTypes

LEMMA TypePartsNext == TypeInv' <=> ActorInv' /\ DataTypes'
  BY DEF TypeInv, TypeOK, ActorInv, ActorTypes, DataTypes

-----------------------------------------------------------------------------
(* The helpers leave the per-actor variables well typed.                   *)

LEMMA ReleaseTypes ==
  ASSUME ActorInv, NEW a \in Actors, Release(a)
  PROVE  ActorInv'
<1>1. NoWant \in WantType
  BY DEF NoWant, WantType
<1>2. ActorTypes'
  BY <1>1 DEF ActorInv, ActorTypes, Release, Goto, Labels, NoRec
<1>3. InHand'
  BY DEF ActorInv, ActorTypes, InHand, Release, Goto, BeatLabels
<1> QED BY <1>2, <1>3 DEF ActorInv

LEMMA GotoTypes ==
  ASSUME ActorInv, NEW a \in Actors, NEW l \in Labels,
         l \notin {"select", "claim_rows", "publish_rows", "f_commit", "retry"},
         a \in Beats => l \in BeatLabels, Goto(a, l), msg' = msg, rec' = rec, want' = want
  PROVE  ActorInv'
<1>1. ActorTypes'
  BY DEF ActorInv, ActorTypes, Goto
<1>2. InHand'
  BY DEF ActorInv, ActorTypes, InHand, Goto
<1> QED BY <1>1, <1>2 DEF ActorInv

LEMMA NotABeat ==
  ASSUME ActorInv, NEW a \in Actors, pc[a] \notin BeatLabels
  PROVE  a \notin Beats
  BY DEF ActorInv, InHand

LEMMA PublishTypes ==
  ASSUME DataTypes, NEW m, Publish(m)
  PROVE  queue' \in [QueueMsgs -> Nat]
<1>1. queue \in [QueueMsgs -> Nat] /\ queue' = [queue EXCEPT ![m] = queue[m] + 1]
  BY DEF DataTypes, Publish
<1>2. CASE m \in QueueMsgs
  BY <1>1, <1>2
<1>3. CASE m \notin QueueMsgs
  BY <1>1, <1>3
<1> QED BY <1>2, <1>3

LEMMA LocalSame == UNCHANGED local => msg' = msg /\ rec' = rec /\ want' = want
  BY DEF local

LEMMA RecordTypes ==
  ASSUME ActorInv, NEW a \in Actors \ Beats, NEW l \in {"match", "commit"}, Goto(a, l),
         NEW x \in [retry : BOOLEAN, outcome : {"matched", "no_match", "failed"},
                    rescue : BOOLEAN],
         rec' = [rec EXCEPT ![a] = x], UNCHANGED <<msg, want>>
  PROVE  ActorInv'
<1>1. ActorTypes'
  BY DEF ActorInv, ActorTypes, Goto, Labels
<1>2. InHand'
  BY DEF ActorInv, ActorTypes, InHand, Goto
<1> QED BY <1>1, <1>2 DEF ActorInv

LEMMA WantTypes ==
  ASSUME ActorInv, NEW a \in Actors, NEW l \in Labels, Goto(a, l),
         NEW w \in WantType, want' = [want EXCEPT ![a] = w], UNCHANGED <<msg, rec>>,
         a \in Beats => l \in BeatLabels,
         l \in {"select", "claim_rows", "publish_rows"} /\ a \in Beats => w.limit <= w.left,
         l = "claim_rows" => Cardinality(w.rows) <= w.limit,
         l = "publish_rows" => w.won <= w.limit,
         l = "f_commit" => w.seen # "none", l # "retry"
  PROVE  ActorInv'
<1>1. ActorTypes'
  BY DEF ActorInv, ActorTypes, Goto
<1>2. InHand'
  BY DEF ActorInv, ActorTypes, InHand, Goto
<1> QED BY <1>1, <1>2 DEF ActorInv

LEMMA CallWindowTypes ==
  ASSUME ActorInv, NEW a \in Actors \ Beats, NEW n \in Nat, CallWindow(a, n),
         UNCHANGED <<msg, rec>>
  PROVE  ActorInv'
<1>1. [NoWant EXCEPT !.limit = n] \in WantType
  BY DEF NoWant, WantType
<1>2. "select" \in Labels
  BY DEF Labels
<1> QED BY <1>1, <1>2, WantTypes DEF CallWindow

LEMMA CallChunkTypes ==
  ASSUME ActorInv, NEW a \in Actors, NEW left \in Nat, CallChunk(a, left)
  PROVE  ActorInv'
<1>1. CASE left > 0
  <2> DEFINE n == Lesser(IF Chunk > 0 THEN Chunk ELSE 1, left)
             w == [NoWant EXCEPT !.limit = n, !.left = left]
  <2>1. n \in Nat /\ n <= left
    BY ExternalAssumption DEF Lesser
  <2>2. w \in WantType /\ w.limit <= w.left
    BY <2>1 DEF NoWant, WantType
  <2>3. want' = [want EXCEPT ![a] = w] /\ Goto(a, "select") /\ UNCHANGED <<msg, rec>>
    BY <1>1 DEF CallChunk
  <2>4. "select" \in Labels /\ "select" \in BeatLabels
    BY DEF Labels, BeatLabels
  <2> HIDE DEF w
  <2> QED BY <2>2, <2>3, <2>4, WantTypes
<1>2. CASE ~(left > 0)
  BY <1>2, ReleaseTypes DEF CallChunk
<1> QED BY <1>1, <1>2

LEMMA ReturnTypes ==
  ASSUME ActorInv, NEW a \in Actors, NEW n \in Nat, a \in Beats => n <= want[a].left,
         Return(a, n)
  PROVE  ActorInv'
<1>1. (IF n > 0 THEN want[a].left - n ELSE 0) \in Nat \/ a \notin Beats
  BY DEF ActorInv, ActorTypes, WantType
<1> QED BY <1>1, ReleaseTypes, CallChunkTypes DEF Return

LEMMA CountsAreNats ==
  ASSUME DataTypes, NEW S \in SUBSET Rows
  PROVE  IsFiniteSet(S) /\ Cardinality(S) \in Nat
  BY ExternalAssumption, FS_Subset, FS_CardinalityType

-----------------------------------------------------------------------------
(* One lemma per action whose effect is not just a change of label.        *)

LEMMA InitTypes == Init => TypeInv
<1> SUFFICES ASSUME Init PROVE TypeInv
  OBVIOUS
<1>1. NoWant \in WantType
  BY DEF NoWant, WantType
<1>2. ActorTypes
  BY <1>1 DEF Init, ActorTypes, Labels, NoRec
<1>3. InHand
  BY DEF Init, InHand, BeatLabels
<1>4. DataTypes
  BY ExternalAssumption DEF Init, DataTypes, JobType, Phases
<1> QED BY <1>2, <1>3, <1>4, TypeParts DEF ActorInv

LEMMA TakeTypes ==
  ASSUME TypeInv, NEW a \in Workers, Take(a)
  PROVE  TypeInv'
<1> USE TypeParts DEF Actors
<1>1. PICK m \in QueueMsgs : /\ queue[m] > 0 /\ queue' = [queue EXCEPT ![m] = @ - 1]
                             /\ msg' = [msg EXCEPT ![a] = m] /\ Goto(a, m.task)
  BY DEF Take
<1>2. m.task \in {"row", "dispatch", "finalize", "retry"}
  BY DEF QueueMsgs, RowMsg, DispatchMsg, FinalizeMsg, RetryMsg
<1>3. ActorInv'
  <2>1. a \notin Beats /\ m.task \in Labels
    BY <1>2, ExternalAssumption DEF Labels
  <2>2. ActorTypes'
    BY <1>1, <2>1 DEF ActorInv, ActorTypes, Goto, Take
  <2>3. InHand'
    <3>1. ASSUME m.task = "retry" PROVE m.rows \in SUBSET Rows
      BY <3>1 DEF QueueMsgs, RowMsg, DispatchMsg, FinalizeMsg, RetryMsg
    <3>2. \A b \in Actors : b # a => pc'[b] = pc[b] /\ msg'[b] = msg[b]
      BY <1>1 DEF Goto, ActorInv, ActorTypes
    <3>3. pc'[a] = m.task /\ msg'[a] = m
      BY <1>1 DEF Goto, ActorInv, ActorTypes
    <3> QED BY <1>2, <2>1, <3>1, <3>2, <3>3 DEF ActorInv, InHand, Take
  <2> QED BY <2>2, <2>3 DEF ActorInv
<1>4. DataTypes'
  BY <1>1 DEF DataTypes, Take
<1> QED BY <1>3, <1>4, TypePartsNext

LEMMA TickStartTypes ==
  ASSUME TypeInv, NEW a \in Beats, TickStart(a)
  PROVE  TypeInv'
<1> USE TypeParts DEF Actors
<1> DEFINE n == IF job.phase = "processing" THEN Room ELSE 0
<1>1. n \in Nat
  <2> DEFINE D == {r \in Rows : row[r].status = "dispatched"}
  <2>1. Cardinality(D) \in Nat
    BY CountsAreNats
  <2> QED BY <2>1, ExternalAssumption DEF Room
<1>2. [NoWant EXCEPT !.left = n] \in WantType
  BY <1>1 DEF NoWant, WantType
<1>3. /\ want' = [want EXCEPT ![a] = [NoWant EXCEPT !.left = n]]
      /\ Goto(a, "tick_remaining") /\ UNCHANGED <<job, row, queue, msg, rec, requests, faults>>
  BY DEF TickStart
<1> HIDE DEF n
<1>4. ActorInv'
  BY <1>2, <1>3, WantTypes DEF Labels, BeatLabels
<1>5. DataTypes'
  BY <1>3 DEF DataTypes
<1> QED BY <1>4, <1>5, TypePartsNext

LEMMA RetryFlipTypes ==
  ASSUME TypeInv, NEW a \in Clients, RetryFlip(a)
  PROVE  TypeInv'
<1> USE TypeParts DEF Actors
<1>1. PICK S \in SUBSET Rows \ {{}} :
        want' = [want EXCEPT ![a] = [NoWant EXCEPT !.rows = S, !.seen = job.phase]]
  BY DEF RetryFlip
<1>2. [NoWant EXCEPT !.rows = S, !.seen = job.phase] \in WantType
  BY DEF NoWant, WantType, DataTypes, JobType
<1>3. ActorInv'
  BY <1>1, <1>2, WantTypes, ExternalAssumption DEF RetryFlip, Labels
<1>4. DataTypes'
  BY ExternalAssumption DEF RetryFlip, DataTypes, JobType, Phases
<1> QED BY <1>3, <1>4, TypePartsNext

LEMMA NoRecType ==
  ASSUME NEW b \in BOOLEAN
  PROVE  [NoRec EXCEPT !.retry = b]
           \in [retry : BOOLEAN, outcome : {"matched", "no_match", "failed"}, rescue : BOOLEAN]
  BY DEF NoRec

LEMMA DecideTypes ==
  ASSUME ActorInv, NEW a \in Actors, pc[a] = "match",
         NEW o \in {"matched", "no_match", "failed"}, NEW b \in BOOLEAN, Decide(a, o, b)
  PROVE  ActorInv'
<1> DEFINE x == [rec[a] EXCEPT !.outcome = o, !.rescue = b]
<1>1. x \in [retry : BOOLEAN, outcome : {"matched", "no_match", "failed"}, rescue : BOOLEAN]
  BY DEF ActorInv, ActorTypes
<1>2. rec' = [rec EXCEPT ![a] = x] /\ Goto(a, "commit") /\ UNCHANGED <<msg, want>>
  BY DEF Decide
<1>3. a \notin Beats
  BY DEF ActorInv, InHand, BeatLabels
<1> HIDE DEF x
<1> QED BY <1>1, <1>2, <1>3, RecordTypes

LEMMA LoadRowTypes ==
  ASSUME TypeInv, NEW a \in Actors, LoadRow(a)
  PROVE  TypeInv'
<1> USE TypeParts
<1>1. ActorInv'
  <2>1. a \notin Beats
    BY NotABeat DEF LoadRow, BeatLabels
  <2>2. IsRetry(msg[a].row) \in BOOLEAN
    BY DEF IsRetry
  <2> QED BY <2>1, <2>2, RecordTypes, NoRecType DEF LoadRow
<1>2. DataTypes'
  BY DEF DataTypes, LoadRow
<1> QED BY <1>1, <1>2, TypePartsNext

LEMMA MatchSucceedsTypes ==
  ASSUME TypeInv, NEW a \in Actors, MatchSucceeds(a)
  PROVE  TypeInv'
<1> USE TypeParts
<1>1. ActorInv'
  <2>1. PICK o \in {"matched", "no_match"} : Decide(a, o, FALSE)
    BY DEF MatchSucceeds
  <2> QED BY <2>1, DecideTypes DEF MatchSucceeds
<1>2. DataTypes'
  BY DEF DataTypes, MatchSucceeds, Decide
<1> QED BY <1>1, <1>2, TypePartsNext

LEMMA MatchExhaustedTypes ==
  ASSUME TypeInv, NEW a \in Actors, MatchExhausted(a)
  PROVE  TypeInv'
<1> USE TypeParts
<1>1. ActorInv'
  BY DecideTypes DEF MatchExhausted
<1>2. DataTypes'
  BY DEF DataTypes, MatchExhausted, Decide
<1> QED BY <1>1, <1>2, TypePartsNext

LEMMA MatchBreaksTypes ==
  ASSUME TypeInv, NEW a \in Actors, MatchBreaks(a)
  PROVE  TypeInv'
<1> USE TypeParts
<1>1. ActorInv'
  BY DecideTypes DEF MatchBreaks
<1>2. DataTypes'
  BY DEF DataTypes, MatchBreaks, Decide
<1> QED BY <1>1, <1>2, TypePartsNext

LEMMA MatchRetriesTypes ==
  ASSUME TypeInv, NEW a \in Actors, MatchRetries(a)
  PROVE  TypeInv'
<1> USE TypeParts
<1>1. ActorInv'
  BY ReleaseTypes DEF MatchRetries
<1>2. DataTypes'
  BY PublishTypes DEF DataTypes, MatchRetries
<1> QED BY <1>1, <1>2, TypePartsNext

LEMMA CommitRowTypes ==
  ASSUME TypeInv, NEW a \in Actors, CommitRow(a)
  PROVE  TypeInv'
<1> USE TypeParts
<1>1. ActorInv'
  <2>1. a \notin Beats
    BY NotABeat DEF CommitRow, BeatLabels
  <2> QED BY <2>1, GotoTypes, LocalSame DEF CommitRow, Labels
<1>2. DataTypes'
  <2> DEFINE r == msg[a].row
             x == [status |-> IF rec[a].outcome = "failed" THEN "failed" ELSE "completed",
                   attempts |-> row[r].attempts + 1]
  <2>1. row' = [row EXCEPT ![r] = x]
    BY DEF CommitRow
  <2>2. r \in Rows => x \in [status : {"pending", "dispatched"} \cup Terminal, attempts : Nat]
    BY DEF DataTypes, Terminal
  <2> HIDE DEF x
  <2> QED BY <2>1, <2>2 DEF DataTypes, CommitRow
<1> QED BY <1>1, <1>2, TypePartsNext

LEMMA BumpCountersTypes ==
  ASSUME TypeInv, NEW a \in Actors, BumpCounters(a)
  PROVE  TypeInv'
<1> USE TypeParts
<1>1. ActorInv'
  <2>1. a \notin Beats
    BY NotABeat DEF BumpCounters, BeatLabels
  <2> QED BY <2>1, GotoTypes, LocalSame DEF BumpCounters, Labels
<1>2. DataTypes'
  <2>1. rec[a].outcome \in {"matched", "no_match", "failed"}
    BY DEF ActorInv, ActorTypes
  <2>2. \/ job' = job
        \/ job' = [job EXCEPT !.failed = @ - 1, !.matched = @ + 1]
        \/ job' = [job EXCEPT !.failed = @ - 1, !.no_match = @ + 1]
        \/ job' = [job EXCEPT !.processed = @ + 1, !.matched = @ + 1]
        \/ job' = [job EXCEPT !.processed = @ + 1, !.no_match = @ + 1]
        \/ job' = [job EXCEPT !.processed = @ + 1, !.failed = @ + 1]
    BY <2>1 DEF BumpCounters
  <2>3. job' \in JobType
    <3> DEFINE J == job
    <3>1. /\ J \in JobType /\ J.failed - 1 \in Int /\ J.failed + 1 \in Int
          /\ J.processed + 1 \in Nat /\ J.matched + 1 \in Nat /\ J.no_match + 1 \in Nat
      BY DEF DataTypes, JobType
    <3> QED BY <2>2, <3>1 DEF JobType
  <2> QED BY <2>3 DEF DataTypes, BumpCounters
<1> QED BY <1>1, <1>2, TypePartsNext

LEMMA SettleTypes ==
  ASSUME TypeInv, NEW a \in Actors, Settle(a)
  PROVE  TypeInv'
<1> USE TypeParts
<1>1. ActorInv'
  <2>1. a \notin Beats
    BY NotABeat DEF Settle, BeatLabels
  <2> QED BY <2>1, ExternalAssumption, CallWindowTypes, GotoTypes DEF Settle, Labels
<1>2. DataTypes'
  BY DEF DataTypes, Settle
<1> QED BY <1>1, <1>2, TypePartsNext

LEMMA ClaimTypes ==
  ASSUME TypeInv, NEW a \in Actors, Claim(a)
  PROVE  TypeInv'
<1> USE TypeParts
<1>1. ActorInv'
  <2>1. a \notin Beats
    BY NotABeat DEF Claim, BeatLabels
  <2> QED BY <2>1, ExternalAssumption, CallWindowTypes, GotoTypes DEF Claim, Labels
<1>2. DataTypes'
  BY DEF DataTypes, Claim, JobType
<1> QED BY <1>1, <1>2, TypePartsNext

LEMMA PublishFinalizeTypes ==
  ASSUME TypeInv, NEW a \in Actors, PublishFinalize(a)
  PROVE  TypeInv'
<1> USE TypeParts
<1>1. ActorInv'
  BY ReleaseTypes DEF PublishFinalize
<1>2. DataTypes'
  BY PublishTypes DEF DataTypes, PublishFinalize
<1> QED BY <1>1, <1>2, TypePartsNext

LEMMA SelectWindowTypes ==
  ASSUME TypeInv, NEW a \in Actors, SelectWindow(a)
  PROVE  TypeInv'
<1> USE TypeParts
<1> DEFINE none == want[a].limit = 0 \/ job.phase # "processing" \/ Pending = {}
<1>1. ActorInv'
  <2>1. CASE none
    BY <2>1, ReturnTypes DEF SelectWindow, ActorInv, ActorTypes, WantType
  <2>2. CASE ~none
    <3>1. PICK S \in SUBSET Pending :
            /\ Cardinality(S) = Lesser(want[a].limit, Cardinality(Pending))
            /\ want' = [want EXCEPT ![a].rows = S]
      BY <2>2 DEF SelectWindow
    <3>2. /\ Goto(a, "claim_rows") /\ UNCHANGED <<msg, rec>>
          /\ pc[a] = "select"
      BY <2>2 DEF SelectWindow
    <3>3. Cardinality(S) <= want[a].limit
      BY <3>1, CountsAreNats DEF Lesser, Pending, ActorInv, ActorTypes, WantType
    <3> DEFINE w == [want[a] EXCEPT !.rows = S]
    <3>4. /\ w \in WantType /\ w.rows = S /\ w.limit = want[a].limit /\ w.left = want[a].left
      BY DEF Pending, ActorInv, ActorTypes, WantType
    <3>5. want' = [want EXCEPT ![a] = w]
      BY <3>1
    <3> HIDE DEF w
    <3> QED BY <3>2, <3>3, <3>4, <3>5, WantTypes DEF Labels, ActorInv, InHand, BeatLabels
  <2> QED BY <2>1, <2>2
<1>2. DataTypes'
  BY DEF DataTypes, SelectWindow
<1> QED BY <1>1, <1>2, TypePartsNext

LEMMA ClaimRowsTypes ==
  ASSUME TypeInv, NEW a \in Actors, ClaimRows(a)
  PROVE  TypeInv'
<1> USE TypeParts
<1>1. ActorInv'
  <2> DEFINE won == Won(want[a].rows)
             w == [want[a] EXCEPT !.rows = won, !.won = Cardinality(won)]
  <2>1. want[a] \in WantType /\ want[a].rows \in SUBSET Rows
    BY DEF ActorInv, ActorTypes, WantType
  <2>2. won \subseteq want[a].rows
    BY DEF Won
  <2>3. Cardinality(won) \in Nat /\ Cardinality(won) <= Cardinality(want[a].rows)
    BY <2>1, <2>2, CountsAreNats, FS_Subset
  <2>4. /\ w \in WantType /\ w.won = Cardinality(won)
        /\ w.limit = want[a].limit /\ w.left = want[a].left
    BY <2>1, <2>2, <2>3 DEF WantType
  <2>5. want' = [want EXCEPT ![a] = w]
    BY DEF ClaimRows
  <2>6. w.won <= w.limit
    <3> HIDE DEF w, won
    <3>1. Cardinality(want[a].rows) <= want[a].limit
      BY DEF ClaimRows, ActorInv, InHand
    <3>2. Cardinality(want[a].rows) \in Nat /\ want[a].limit \in Nat
      BY <2>1, CountsAreNats DEF WantType
    <3> QED BY <2>3, <2>4, <3>1, <3>2
  <2>7. /\ pc[a] = "claim_rows" /\ Goto(a, "publish_rows") /\ UNCHANGED <<msg, rec>>
        /\ a \in Beats => want[a].limit <= want[a].left
    BY DEF ClaimRows, ActorInv, InHand
  <2> HIDE DEF w
  <2> QED BY <2>4, <2>5, <2>6, <2>7, WantTypes DEF Labels, BeatLabels
<1>2. DataTypes'
  BY DEF DataTypes, ClaimRows
<1> QED BY <1>1, <1>2, TypePartsNext

LEMMA PublishRowTypes ==
  ASSUME TypeInv, NEW a \in Actors, PublishRow(a)
  PROVE  TypeInv'
<1> USE TypeParts
<1>1. ActorInv'
  <2>1. PICK r \in want[a].rows : want' = [want EXCEPT ![a].rows = @ \ {r}]
    BY DEF PublishRow
  <2> DEFINE w == [want[a] EXCEPT !.rows = @ \ {r}]
  <2>2. /\ w \in WantType /\ w.won = want[a].won
        /\ w.limit = want[a].limit /\ w.left = want[a].left
    BY DEF ActorInv, ActorTypes, WantType
  <2>3. want' = [want EXCEPT ![a] = w] /\ Goto(a, "publish_rows")
    BY <2>1 DEF PublishRow, Goto, ActorInv, ActorTypes
  <2> HIDE DEF w
  <2> QED BY <2>2, <2>3, WantTypes DEF PublishRow, Labels, ActorInv, InHand, BeatLabels
<1>2. DataTypes'
  BY PublishTypes DEF DataTypes, PublishRow
<1> QED BY <1>1, <1>2, TypePartsNext

LEMMA RowsPublishedTypes ==
  ASSUME TypeInv, NEW a \in Actors, RowsPublished(a)
  PROVE  TypeInv'
<1> USE TypeParts
<1>1. ActorInv'
  BY ReturnTypes DEF RowsPublished, ActorInv, ActorTypes, InHand, WantType
<1>2. DataTypes'
  BY DEF DataTypes, RowsPublished
<1> QED BY <1>1, <1>2, TypePartsNext

LEMMA DispatchLoadTypes ==
  ASSUME TypeInv, NEW a \in Actors, DispatchLoad(a)
  PROVE  TypeInv'
<1> USE TypeParts
<1>1. ActorInv'
  <2>1. a \notin Beats
    BY NotABeat DEF DispatchLoad, BeatLabels
  <2> QED BY <2>1, GotoTypes, LocalSame DEF DispatchLoad, Labels
<1>2. DataTypes'
  BY DEF DataTypes, DispatchLoad
<1> QED BY <1>1, <1>2, TypePartsNext

LEMMA SyncMarkTypes ==
  ASSUME TypeInv, NEW a \in Actors, SyncMark(a)
  PROVE  TypeInv'
<1> USE TypeParts
<1>1. ActorInv'
  <2>1. a \notin Beats
    BY NotABeat DEF SyncMark, BeatLabels
  <2> QED BY <2>1, GotoTypes, LocalSame DEF SyncMark, Labels
<1>2. DataTypes'
  BY DEF DataTypes, SyncMark, JobType, Phases
<1> QED BY <1>1, <1>2, TypePartsNext

LEMMA SyncRunsTypes ==
  ASSUME TypeInv, NEW a \in Actors, SyncRuns(a)
  PROVE  TypeInv'
<1> USE TypeParts
<1>1. ActorInv'
  <2>1. a \notin Beats
    BY NotABeat DEF SyncRuns, BeatLabels
  <2> QED BY <2>1, GotoTypes, LocalSame DEF SyncRuns, Labels
<1>2. DataTypes'
  BY DEF DataTypes, SyncRuns
<1> QED BY <1>1, <1>2, TypePartsNext

LEMMA DispatchMarkTypes ==
  ASSUME TypeInv, NEW a \in Actors, DispatchMark(a)
  PROVE  TypeInv'
<1> USE TypeParts
<1>1. ActorInv'
  <2>1. a \notin Beats
    BY NotABeat DEF DispatchMark, BeatLabels
  <2> QED BY <2>1, ExternalAssumption, CallWindowTypes, GotoTypes DEF DispatchMark, Labels
<1>2. DataTypes'
  BY DEF DataTypes, DispatchMark, JobType, Phases
<1> QED BY <1>1, <1>2, TypePartsNext

LEMMA DispatchFailedTypes ==
  ASSUME TypeInv, NEW a \in Actors, DispatchFailed(a)
  PROVE  TypeInv'
<1> USE TypeParts
<1>1. ActorInv'
  BY ReleaseTypes DEF DispatchFailed
<1>2. DataTypes'
  BY DEF DataTypes, DispatchFailed, JobType, Phases, Finished
<1> QED BY <1>1, <1>2, TypePartsNext

LEMMA FinalizeLoadTypes ==
  ASSUME TypeInv, NEW a \in Actors, FinalizeLoad(a)
  PROVE  TypeInv'
<1> USE TypeParts
<1>1. ActorInv'
  <2>1. CASE job.phase \in Finished
    BY <2>1, ReleaseTypes DEF FinalizeLoad
  <2>2. CASE job.phase \notin Finished
    <3> DEFINE w == [want[a] EXCEPT !.seen = FinalPhase]
    <3>1. w \in WantType /\ w.seen # "none"
      BY DEF FinalPhase, ActorInv, ActorTypes, WantType, Phases, Finished
    <3>2. want' = [want EXCEPT ![a] = w] /\ Goto(a, "f_commit") /\ UNCHANGED <<msg, rec>>
      BY <2>2 DEF FinalizeLoad
    <3> HIDE DEF w
    <3> QED BY <3>1, <3>2, WantTypes DEF FinalizeLoad, Labels, ActorInv, InHand, BeatLabels
  <2> QED BY <2>1, <2>2
<1>2. DataTypes'
  BY DEF DataTypes, FinalizeLoad
<1> QED BY <1>1, <1>2, TypePartsNext

LEMMA FinalizeCommitTypes ==
  ASSUME TypeInv, NEW a \in Actors, FinalizeCommit(a)
  PROVE  TypeInv'
<1> USE TypeParts
<1>1. ActorInv'
  BY ReleaseTypes DEF FinalizeCommit
<1>2. DataTypes'
  <2>1. want[a].seen \in Phases
    BY DEF FinalizeCommit, ActorInv, ActorTypes, InHand, WantType
  <2> QED BY <2>1 DEF DataTypes, FinalizeCommit, JobType
<1> QED BY <1>1, <1>2, TypePartsNext

LEMMA RetryQueuedTypes ==
  ASSUME TypeInv, NEW a \in Actors, RetryQueued(a)
  PROVE  TypeInv'
<1> USE TypeParts
<1>1. ActorInv'
  BY ReleaseTypes DEF RetryQueued
<1>2. DataTypes'
  BY PublishTypes DEF DataTypes, RetryQueued
<1> QED BY <1>1, <1>2, TypePartsNext

LEMMA RetryNothingTypes ==
  ASSUME TypeInv, NEW a \in Actors, RetryNothing(a)
  PROVE  TypeInv'
<1> USE TypeParts
<1>1. ActorInv'
  BY ReleaseTypes DEF RetryNothing
<1>2. DataTypes'
  BY DEF DataTypes, RetryNothing, JobType, FinalPhase, Phases, Finished
<1> QED BY <1>1, <1>2, TypePartsNext

LEMMA RetrySelectTypes ==
  ASSUME TypeInv, NEW a \in Actors, RetrySelect(a)
  PROVE  TypeInv'
<1> USE TypeParts
<1>1. ActorInv'
  <2>1. CASE Retryable(msg[a].rows) = {}
    BY <2>1, ReleaseTypes DEF RetrySelect
  <2>2. CASE Retryable(msg[a].rows) # {}
    <3>1. a \notin Beats
      BY DEF RetrySelect, ActorInv, InHand, BeatLabels
    <3> DEFINE w == [want[a] EXCEPT !.rows = Retryable(msg[a].rows)]
    <3>2. want' = [want EXCEPT ![a] = w] /\ Goto(a, "reopen") /\ UNCHANGED <<msg, rec>>
      BY <2>2 DEF RetrySelect
    <3>3. msg[a].rows \in SUBSET Rows
      BY DEF RetrySelect, ActorInv, InHand
    <3>4. w \in WantType
      BY <3>3 DEF Retryable, ActorInv, ActorTypes, WantType
    <3> HIDE DEF w
    <3> QED BY <3>1, <3>2, <3>4, WantTypes DEF Labels
  <2> QED BY <2>1, <2>2
<1>2. DataTypes'
  BY DEF DataTypes, RetrySelect
<1> QED BY <1>1, <1>2, TypePartsNext

LEMMA RetryReopenTypes ==
  ASSUME TypeInv, NEW a \in Actors, RetryReopen(a)
  PROVE  TypeInv'
<1> USE TypeParts
<1>1. ActorInv'
  BY ExternalAssumption, CallWindowTypes, GotoTypes DEF RetryReopen, Labels, ActorInv, InHand, BeatLabels
<1>2. DataTypes'
  BY DEF DataTypes, RetryReopen, JobType, Phases, Reopened
<1> QED BY <1>1, <1>2, TypePartsNext

LEMMA TickRemainingTypes ==
  ASSUME TypeInv, NEW a \in Actors, TickRemaining(a)
  PROVE  TypeInv'
<1> USE TypeParts
<1>1. ActorInv'
  <2> DEFINE w == [want[a] EXCEPT !.left = Lesser(@, Cardinality(Pending))]
  <2>1. Cardinality(Pending) \in Nat
    BY CountsAreNats DEF Pending
  <2>2. w \in WantType
    BY <2>1 DEF Lesser, ActorInv, ActorTypes, WantType
  <2>3. want' = [want EXCEPT ![a] = w] /\ Goto(a, "sweep") /\ UNCHANGED <<msg, rec>>
    BY DEF TickRemaining
  <2> HIDE DEF w
  <2> QED BY <2>2, <2>3, WantTypes DEF Labels, BeatLabels
<1>2. DataTypes'
  BY DEF DataTypes, TickRemaining
<1> QED BY <1>1, <1>2, TypePartsNext

LEMMA SweepSelectTypes ==
  ASSUME TypeInv, NEW a \in Actors, SweepSelect(a)
  PROVE  TypeInv'
<1> USE TypeParts
<1>1. ActorInv'
  BY GotoTypes, LocalSame DEF SweepSelect, Labels, BeatLabels
<1>2. DataTypes'
  BY DEF DataTypes, SweepSelect
<1> QED BY <1>1, <1>2, TypePartsNext

LEMMA SweepClaimTypes ==
  ASSUME TypeInv, NEW a \in Actors, SweepClaim(a)
  PROVE  TypeInv'
<1> USE TypeParts
<1>1. ActorInv'
  BY GotoTypes, LocalSame DEF SweepClaim, Labels, BeatLabels
<1>2. DataTypes'
  BY DEF DataTypes, SweepClaim, JobType
<1> QED BY <1>1, <1>2, TypePartsNext

LEMMA SweepPublishTypes ==
  ASSUME TypeInv, NEW a \in Actors, SweepPublish(a)
  PROVE  TypeInv'
<1> USE TypeParts
<1>1. ActorInv'
  BY GotoTypes, LocalSame DEF SweepPublish, Labels, BeatLabels
<1>2. DataTypes'
  BY PublishTypes DEF DataTypes, SweepPublish
<1> QED BY <1>1, <1>2, TypePartsNext

LEMMA TopUpTypes ==
  ASSUME TypeInv, NEW a \in Actors, TopUp(a)
  PROVE  TypeInv'
<1> USE TypeParts
<1>1. ActorInv'
  BY CallChunkTypes DEF TopUp, ActorInv, ActorTypes, WantType
<1>2. DataTypes'
  BY DEF DataTypes, TopUp
<1> QED BY <1>1, <1>2, TypePartsNext

LEMMA FaultTypes ==
  ASSUME DataTypes, NEW kind, NEW label, Fault(kind, label), UNCHANGED <<job, row, queue, requests>>
  PROVE  DataTypes'
  BY ExternalAssumption DEF DataTypes, Fault

LEMMA RaiseTypes ==
  ASSUME TypeInv, NEW a \in Actors, Raise(a)
  PROVE  TypeInv'
<1> USE TypeParts
<1>1. CASE RaiseInRow(a)
  <2>1. DataTypes'
    BY <1>1, FaultTypes DEF RaiseInRow
  <2>2. CASE rec[a].rescue
    BY <1>1, <2>1, <2>2, ReleaseTypes, TypePartsNext DEF RaiseInRow
  <2>3. CASE ~rec[a].rescue
    <3> DEFINE x == [rec[a] EXCEPT !.outcome = "failed", !.rescue = TRUE]
    <3>1. rec' = [rec EXCEPT ![a] = x] /\ Goto(a, "commit") /\ UNCHANGED <<msg, want>>
      BY <1>1, <2>3 DEF RaiseInRow
    <3>2. x \in [retry : BOOLEAN, outcome : {"matched", "no_match", "failed"}, rescue : BOOLEAN]
      BY DEF ActorInv, ActorTypes
    <3>3. a \notin Beats
      BY <1>1, NotABeat DEF RaiseInRow, BeatLabels
    <3> HIDE DEF x
    <3> QED BY <3>1, <3>2, <3>3, <2>1, RecordTypes, TypePartsNext
  <2> QED BY <2>2, <2>3
<1>2. CASE RaiseAndEnd(a)
  BY <1>2, FaultTypes, ReleaseTypes, TypePartsNext DEF RaiseAndEnd
<1>3. CASE RaiseInDispatch(a)
  <2>1. DataTypes'
    BY <1>3, FaultTypes DEF RaiseInDispatch
  <2>2. a \notin Beats
    BY <1>3 DEF RaiseInDispatch, ActorInv, InHand, BeatLabels, DispatchMsg, NoMsg
  <2>3. NoWant \in WantType
    BY DEF NoWant, WantType
  <2> QED BY <1>3, <2>1, <2>2, <2>3, WantTypes, TypePartsNext DEF RaiseInDispatch, Labels
<1>4. CASE RaiseInSweep(a)
  <2>1. DataTypes'
    BY <1>4, FaultTypes DEF RaiseInSweep
  <2> QED BY <1>4, <2>1, GotoTypes, LocalSame, TypePartsNext
          DEF RaiseInSweep, Labels, BeatLabels
<1> QED BY <1>1, <1>2, <1>3, <1>4 DEF Raise

LEMMA CrashTypes ==
  ASSUME TypeInv, NEW a \in Actors, Crash(a)
  PROVE  TypeInv'
  BY TypeParts, FaultTypes, ReleaseTypes, TypePartsNext DEF Crash

LEMMA RunTypes ==
  ASSUME TypeInv, NEW a \in Actors, Run(a)
  PROVE  TypeInv'
<1>1. CASE RowStep(a)
  BY <1>1, LoadRowTypes, MatchSucceedsTypes, MatchRetriesTypes, MatchExhaustedTypes,
     MatchBreaksTypes, CommitRowTypes, BumpCountersTypes, SettleTypes, ClaimTypes,
     PublishFinalizeTypes DEF RowStep
<1>2. CASE WindowStep(a)
  BY <1>2, SelectWindowTypes, ClaimRowsTypes, PublishRowTypes, RowsPublishedTypes
  DEF WindowStep
<1>3. CASE DispatchStep(a)
  BY <1>3, DispatchLoadTypes, SyncMarkTypes, SyncRunsTypes, DispatchMarkTypes,
     DispatchFailedTypes DEF DispatchStep
<1>4. CASE EndStep(a)
  BY <1>4, FinalizeLoadTypes, FinalizeCommitTypes, RetrySelectTypes, RetryReopenTypes
  DEF EndStep
<1>5. CASE EndpointStep(a)
  BY <1>5, RetryQueuedTypes, RetryNothingTypes DEF EndpointStep
<1>6. CASE TickStep(a)
  BY <1>6, TickRemainingTypes, SweepSelectTypes, SweepClaimTypes, SweepPublishTypes,
     TopUpTypes DEF TickStep
<1> QED BY <1>1, <1>2, <1>3, <1>4, <1>5, <1>6 DEF Run

LEMMA StepTypes == TypeInv /\ [Next]_vars => TypeInv'
<1> SUFFICES ASSUME TypeInv, [Next]_vars PROVE TypeInv'
  OBVIOUS
<1>1. ASSUME NEW a \in Workers, Take(a) PROVE TypeInv'
  BY <1>1, TakeTypes
<1>2. ASSUME NEW a \in Beats, TickStart(a) PROVE TypeInv'
  BY <1>2, TickStartTypes
<1>3. ASSUME NEW a \in Clients, RetryFlip(a) PROVE TypeInv'
  BY <1>3, RetryFlipTypes
<1>4. ASSUME NEW a \in Actors, Run(a) \/ Raise(a) \/ Crash(a) PROVE TypeInv'
  BY <1>4, RunTypes, RaiseTypes, CrashTypes
<1>5. CASE UNCHANGED vars
  BY <1>5 DEF TypeInv, TypeOK, InHand, vars, local
<1> QED BY <1>1, <1>2, <1>3, <1>4, <1>5 DEF Next

LEMMA TypeInvariant == Spec => []TypeInv
<1>1. Init => TypeInv
  BY InitTypes
<1>2. TypeInv /\ [Next]_vars => TypeInv'
  BY StepTypes
<1> QED BY <1>1, <1>2, PTL DEF Spec

(* Every reachable state is well typed: the retry endpoint and task name   *)
(* rows of the job only, and a tick never claims more than its deficit.    *)
THEOREM TypeCorrect == Spec => []TypeOK
<1>1. TypeInv => TypeOK
  BY DEF TypeInv
<1> QED BY <1>1, TypeInvariant, PTL

-----------------------------------------------------------------------------
(* The safety properties.  Messages and tasks of one kind are a token: Held *)
(* says that the broker or an actor has it, Once that only one does.  The   *)
(* dispatch of a fresh job, the finalization or retry of a claimed one and  *)
(* the copy of a dispatched row are tokens.  A step leaves a token alone    *)
(* (Quiet), gives it to the broker (Give), takes it from there (Take),      *)
(* makes it where there was none (Make) or ends it (End); each invariant    *)
(* has one lemma per way, and its proof names the way each action goes.     *)
(* XMoves are the control flow, Frame(a) says that a step of a is of nobody *)
(* else.                                                                    *)


(* The dispatch of the job does not break off half-way: its except block    *)
(* marks the job failed although rows of it may be out, and a failed job   *)
(* may be reopened.                                                        *)
DispatchHolds == {<<"raise", "dispatch">>, <<"raise", "sync">>} \cap FaultPoints = {}

(* The update of the counters, in a transaction of its own after the       *)
(* row's, and the rescue of a row succeed.                                 *)
BumpHolds ==
  {<<"raise", "bump">>, <<"crash", "bump">>, <<"raise", "rescue">>} \cap FaultPoints = {}

DispatchLabels == {"dispatch", "sync_mark", "sync", "d_mark"}
FinLabels == {"publish_finalize", "sweep_publish", "finalize", "f_commit"}
RetryLabels == {"decide", "retry", "reopen"}
RetryMsgs == {RetryMsg(S) : S \in SUBSET Rows}
EndLabels == FinLabels \cup RetryLabels
EndMsgs == {FinalizeMsg} \cup RetryMsgs

At(L) == {a \in Actors : pc[a] \in L}

(* Somebody, or the broker, has it.                                        *)
Held(q, H, M) == H # {} \/ \E m \in M : q[m] > 0

(* ... and only one does.                                                  *)
Once(q, H, M) ==
  /\ \A a, b \in H : a = b
  /\ \A m \in M : q[m] <= 1
  /\ \A m, n \in M : q[m] > 0 /\ q[n] > 0 => m = n
  /\ \A a \in H, m \in M : q[m] = 0

DispatchHeld == Held(queue, At(DispatchLabels), {DispatchMsg})
FinHeld == Held(queue, At(FinLabels), {FinalizeMsg})
RetryHeld == Held(queue, At(RetryLabels), RetryMsgs)
EndHeld == Held(queue, At(EndLabels), EndMsgs)

(* The job as its dispatch finds it: no row was claimed, no other message  *)
(* is out, and a tick that looked at it has nothing to do for it.          *)
Fresh ==
  /\ job.phase \in {"queued", "syncing"}
  /\ \A r \in Rows : row[r].status = "pending"
  /\ \A m \in QueueMsgs : m # DispatchMsg => queue[m] = 0
  /\ \A a \in Actors :
       \/ pc[a] \in {"idle"} \cup DispatchLabels
       \/ pc[a] \in {"tick_remaining", "sweep", "topup"} /\ want[a].left = 0

DispatchInv ==
  DispatchHeld => Fresh /\ Once(queue, At(DispatchLabels), {DispatchMsg})

(* Between the claim of a job and its reopening no row is outstanding.     *)
ClaimedMeansDone == job.claimed => NoRowsOutstanding

(* A claimed job has one finalization or one retry under way, or it is     *)
(* finished.                                                               *)
Orderly ==
  /\ Once(queue, At(EndLabels), EndMsgs)
  /\ EndHeld => job.claimed /\ job.phase \notin Finished
  /\ job.phase \in Finished => job.claimed
  /\ \A a \in Actors : pc[a] # "d_failed"

(* With one call of the endpoint there is one retry.                       *)
SingleRetry ==
  /\ Once(queue, At(RetryLabels), RetryMsgs)
  /\ RetryHeld => requests > 0

(* Without any, a job is finalized only after it was claimed.              *)
Unretried ==
  /\ ~RetryHeld
  /\ FinHeld \/ job.phase \in {"completed", "completed_with_errors"} => job.claimed

(* The copies of a row: its message, the task that executes it up to the   *)
(* row's own commit, and the window that claimed it.                       *)
RowMsgs(r) == {RowMsg(r, k) : k \in 0 .. MaxAttempts - 1}
RowHolders(r) ==
  {a \in Actors : \/ pc[a] \in {"row", "match", "commit"} /\ msg[a].row = r
                  \/ pc[a] = "publish_rows" /\ r \in want[a].rows}
RowHeld(r) == Held(queue, RowHolders(r), RowMsgs(r))

RetryUnique == Once(queue, At(RetryLabels), RetryMsgs)

(* Whoever executes a row's message has one, ...                           *)
TokenMsgs ==
  \A a \in Actors : pc[a] \in {"row", "match", "commit", "bump"} =>
    \E r \in Rows : msg[a] \in RowMsgs(r)

(* ... a row has one copy and is then dispatched, ...                      *)
TokenRow(r) ==
  /\ Once(queue, RowHolders(r), RowMsgs(r))
  /\ RowHeld(r) => row[r].status = "dispatched"

(* ... and what a retry is about to reopen has failed.                     *)
TokenReopen ==
  \A a \in Actors : pc[a] = "reopen" => \A r \in want[a].rows : row[r].status = "failed"

TokenInv == TokenMsgs /\ (\A r \in Rows : TokenRow(r)) /\ TokenReopen

(* A row's task knows whether its row was tried before.                    *)
CountRec ==
  \A a \in Actors : pc[a] \in {"match", "commit"} =>
    rec[a].retry = (row[msg[a].row].attempts > 0)

CountInv == CountRec /\ IsFiniteSet(At({"bump"})) /\ CountersMatchRows

-----------------------------------------------------------------------------
(* Once, when a copy is dropped, taken from the broker, given to the       *)
(* broker, or made where there was none.                                   *)

LEMMA OnceDrops ==
  ASSUME NEW M, NEW q, NEW p, NEW H, NEW G, Once(q, H, M), G \subseteq H,
         \A m \in M : q[m] \in Nat /\ p[m] \in Nat /\ p[m] <= q[m]
  PROVE  Once(p, G, M)
  BY DEF Once

LEMMA HeldDrops ==
  ASSUME NEW M, NEW q, NEW p, NEW H, NEW G, ~Held(q, H, M), G \subseteq H,
         \A m \in M : q[m] \in Nat /\ p[m] \in Nat /\ p[m] <= q[m]
  PROVE  ~Held(p, G, M)
  BY DEF Held

LEMMA OnceTaken ==
  ASSUME NEW M, NEW q, NEW p, NEW H, NEW G, NEW a, Once(q, H, M), G \subseteq H \cup {a},
         NEW m \in M, q[m] > 0,
         \A n \in M : q[n] \in Nat /\ p[n] = IF n = m THEN q[n] - 1 ELSE q[n]
  PROVE  Once(p, G, M)
<1>1. H = {} /\ q[m] = 1 /\ \A n \in M : p[n] = 0
  BY DEF Once
<1> QED BY <1>1 DEF Once

LEMMA OnceGiven ==
  ASSUME NEW M, NEW q, NEW p, NEW H, NEW G, NEW a \in H, Once(q, H, M), G \subseteq H \ {a},
         NEW m,
         \A n \in M : q[n] \in Nat /\ p[n] = IF n = m THEN q[n] + 1 ELSE q[n]
  PROVE  Once(p, G, M)
<1>1. G = {} /\ \A n \in M : q[n] = 0
  BY DEF Once
<1> QED BY <1>1 DEF Once

LEMMA OnceMade ==
  ASSUME NEW M, NEW q, NEW H, NEW G, NEW a, ~Held(q, H, M), G \subseteq H \cup {a},
         \A n \in M : q[n] \in Nat
  PROVE  Once(q, G, M)
  BY DEF Once, Held

LEMMA OnceNone ==
  ASSUME NEW M, NEW q, NEW H, ~Held(q, H, M), \A n \in M : q[n] \in Nat
  PROVE  Once(q, H, M)
  BY DEF Once, Held
-----------------------------------------------------------------------------
(* The step of an actor leaves the others where they are.                  *)

Frame(a) ==
  \A b \in Actors \ {a} :
    pc'[b] = pc[b] /\ msg'[b] = msg[b] /\ rec'[b] = rec[b] /\ want'[b] = want[b]

LEMMA ReleaseFrame ==
  ASSUME ActorTypes, NEW a \in Actors, Release(a)
  PROVE  Frame(a) /\ pc'[a] = "idle"
  BY DEF ActorTypes, Release, Goto, Frame

LEMMA GotoFrame ==
  ASSUME ActorTypes, NEW a \in Actors, NEW l, Goto(a, l),
         msg' = msg \/ \E x : msg' = [msg EXCEPT ![a] = x],
         rec' = rec \/ \E x : rec' = [rec EXCEPT ![a] = x],
         want' = want \/ \E x : want' = [want EXCEPT ![a] = x]
  PROVE  Frame(a) /\ pc'[a] = l
<1>1. pc'[a] = l /\ \A b \in Actors \ {a} : pc'[b] = pc[b]
  BY DEF ActorTypes, Goto
<1>2. \A b \in Actors \ {a} : msg'[b] = msg[b]
  BY DEF ActorTypes
<1>3. \A b \in Actors \ {a} : rec'[b] = rec[b]
  BY DEF ActorTypes
<1>4. \A b \in Actors \ {a} : want'[b] = want[b]
  BY DEF ActorTypes
<1> QED BY <1>1, <1>2, <1>3, <1>4 DEF Frame

LEMMA CallWindowFrame ==
  ASSUME ActorTypes, NEW a \in Actors, NEW n, CallWindow(a, n), UNCHANGED <<msg, rec>>
  PROVE  Frame(a) /\ pc'[a] = "select"
  BY GotoFrame DEF CallWindow

LEMMA CallChunkFrame ==
  ASSUME ActorTypes, NEW a \in Actors, NEW n, CallChunk(a, n)
  PROVE  /\ Frame(a) /\ pc'[a] \in {"idle", "select"}
         /\ ~(n > 0) => pc'[a] = "idle"
  BY GotoFrame, ReleaseFrame DEF CallChunk

LEMMA ReturnFrame ==
  ASSUME ActorTypes, NEW a \in Actors, NEW n, Return(a, n)
  PROVE  Frame(a) /\ pc'[a] \in {"idle", "select"}
  BY CallChunkFrame, ReleaseFrame DEF Return

LEMMA DecideFrame ==
  ASSUME ActorTypes, NEW a \in Actors, NEW o, NEW b, Decide(a, o, b)
  PROVE  Frame(a) /\ pc'[a] = "commit"
<1>1. rec' = [rec EXCEPT ![a] = [rec[a] EXCEPT !.outcome = o, !.rescue = b]]
  BY DEF Decide
<1> QED BY <1>1, GotoFrame DEF Decide

-----------------------------------------------------------------------------
(* The control flow: between which labels each action moves its actor.     *)

LEMMA RowMoves ==
  ASSUME ActorTypes, NEW a \in Actors
  PROVE  /\ LoadRow(a) => Frame(a) /\ pc[a] = "row" /\ pc'[a] = "match"
         /\ MatchSucceeds(a) => Frame(a) /\ pc[a] = "match" /\ pc'[a] = "commit"
         /\ MatchRetries(a) => Frame(a) /\ pc[a] = "match" /\ pc'[a] = "idle"
         /\ MatchExhausted(a) => Frame(a) /\ pc[a] = "match" /\ pc'[a] = "commit"
         /\ MatchBreaks(a) => Frame(a) /\ pc[a] = "match" /\ pc'[a] = "commit"
         /\ CommitRow(a) => Frame(a) /\ pc[a] = "commit" /\ pc'[a] = "bump"
         /\ BumpCounters(a) => Frame(a) /\ pc[a] = "bump" /\ pc'[a] = "settle"
         /\ Settle(a) => Frame(a) /\ pc[a] = "settle" /\ pc'[a] \in {"claim", "select"}
         /\ Claim(a) => Frame(a) /\ pc[a] = "claim" /\ pc'[a] \in {"publish_finalize", "select"}
         /\ PublishFinalize(a) => Frame(a) /\ pc[a] = "publish_finalize" /\ pc'[a] = "idle"
<1>1. LoadRow(a) => Frame(a) /\ pc[a] = "row" /\ pc'[a] = "match"
  BY GotoFrame DEF LoadRow
<1>2. MatchSucceeds(a) => Frame(a) /\ pc[a] = "match" /\ pc'[a] = "commit"
  BY DecideFrame DEF MatchSucceeds
<1>3. MatchRetries(a) => Frame(a) /\ pc[a] = "match" /\ pc'[a] = "idle"
  BY ReleaseFrame DEF MatchRetries
<1>4. MatchExhausted(a) => Frame(a) /\ pc[a] = "match" /\ pc'[a] = "commit"
  BY DecideFrame DEF MatchExhausted
<1>5. MatchBreaks(a) => Frame(a) /\ pc[a] = "match" /\ pc'[a] = "commit"
  BY DecideFrame DEF MatchBreaks
<1>6. CommitRow(a) => Frame(a) /\ pc[a] = "commit" /\ pc'[a] = "bump"
  BY GotoFrame, LocalSame DEF CommitRow
<1>7. BumpCounters(a) => Frame(a) /\ pc[a] = "bump" /\ pc'[a] = "settle"
  BY GotoFrame, LocalSame DEF BumpCounters
<1>8. Settle(a) => Frame(a) /\ pc[a] = "settle" /\ pc'[a] \in {"claim", "select"}
  BY GotoFrame, CallWindowFrame DEF Settle
<1>9. Claim(a) => Frame(a) /\ pc[a] = "claim" /\ pc'[a] \in {"publish_finalize", "select"}
  BY GotoFrame, CallWindowFrame DEF Claim
<1>10. PublishFinalize(a) => Frame(a) /\ pc[a] = "publish_finalize" /\ pc'[a] = "idle"
  BY ReleaseFrame DEF PublishFinalize
<1> QED BY <1>1, <1>2, <1>3, <1>4, <1>5, <1>6, <1>7, <1>8, <1>9, <1>10

LEMMA WindowMoves ==
  ASSUME ActorTypes, NEW a \in Actors
  PROVE  /\ SelectWindow(a) => Frame(a) /\ pc[a] = "select" /\ pc'[a] \in {"idle", "select", "claim_rows"}
         /\ ClaimRows(a) => Frame(a) /\ pc[a] = "claim_rows" /\ pc'[a] = "publish_rows"
         /\ PublishRow(a) => Frame(a) /\ pc[a] = "publish_rows" /\ pc'[a] = "publish_rows"
         /\ RowsPublished(a) => Frame(a) /\ pc[a] = "publish_rows" /\ pc'[a] \in {"idle", "select"}
<1>1. SelectWindow(a) => Frame(a) /\ pc[a] = "select" /\ pc'[a] \in {"idle", "select", "claim_rows"}
  BY GotoFrame, ReturnFrame DEF SelectWindow
<1>2. ClaimRows(a) => Frame(a) /\ pc[a] = "claim_rows" /\ pc'[a] = "publish_rows"
  BY GotoFrame DEF ClaimRows
<1>3. PublishRow(a) => Frame(a) /\ pc[a] = "publish_rows" /\ pc'[a] = "publish_rows"
  <2> SUFFICES ASSUME PublishRow(a)
               PROVE  Frame(a) /\ pc[a] = "publish_rows" /\ pc'[a] = "publish_rows"
    OBVIOUS
  <2>1. PICK r \in want[a].rows :
          want' = [want EXCEPT ![a] = [want[a] EXCEPT !.rows = want[a].rows \ {r}]]
    BY DEF PublishRow
  <2> QED BY <2>1 DEF ActorTypes, PublishRow, Frame
<1>4. RowsPublished(a) => Frame(a) /\ pc[a] = "publish_rows" /\ pc'[a] \in {"idle", "select"}
  BY ReturnFrame DEF RowsPublished
<1> QED BY <1>1, <1>2, <1>3, <1>4

LEMMA DispatchMoves ==
  ASSUME ActorTypes, NEW a \in Actors
  PROVE  /\ DispatchLoad(a) => Frame(a) /\ pc[a] = "dispatch" /\ pc'[a] \in {"sync_mark", "d_mark"}
         /\ SyncMark(a) => Frame(a) /\ pc[a] = "sync_mark" /\ pc'[a] = "sync"
         /\ SyncRuns(a) => Frame(a) /\ pc[a] = "sync" /\ pc'[a] = "d_mark"
         /\ DispatchMark(a) => Frame(a) /\ pc[a] = "d_mark" /\ pc'[a] \in {"publish_finalize", "select"}
         /\ DispatchFailed(a) => Frame(a) /\ pc[a] = "d_failed" /\ pc'[a] = "idle"
<1>1. DispatchLoad(a) => Frame(a) /\ pc[a] = "dispatch" /\ pc'[a] \in {"sync_mark", "d_mark"}
  BY GotoFrame, LocalSame DEF DispatchLoad
<1>2. SyncMark(a) => Frame(a) /\ pc[a] = "sync_mark" /\ pc'[a] = "sync"
  BY GotoFrame, LocalSame DEF SyncMark
<1>3. SyncRuns(a) => Frame(a) /\ pc[a] = "sync" /\ pc'[a] = "d_mark"
  BY GotoFrame, LocalSame DEF SyncRuns
<1>4. DispatchMark(a) => Frame(a) /\ pc[a] = "d_mark" /\ pc'[a] \in {"publish_finalize", "select"}
  BY GotoFrame, CallWindowFrame DEF DispatchMark
<1>5. DispatchFailed(a) => Frame(a) /\ pc[a] = "d_failed" /\ pc'[a] = "idle"
  BY ReleaseFrame DEF DispatchFailed
<1> QED BY <1>1, <1>2, <1>3, <1>4, <1>5

LEMMA EndMoves ==
  ASSUME ActorTypes, NEW a \in Actors
  PROVE  /\ FinalizeLoad(a) => Frame(a) /\ pc[a] = "finalize" /\ pc'[a] \in {"idle", "f_commit"}
         /\ FinalizeCommit(a) => Frame(a) /\ pc[a] = "f_commit" /\ pc'[a] = "idle"
         /\ RetryQueued(a) => Frame(a) /\ pc[a] = "decide" /\ pc'[a] = "idle"
         /\ RetryNothing(a) => Frame(a) /\ pc[a] = "decide" /\ pc'[a] = "idle"
         /\ RetrySelect(a) => Frame(a) /\ pc[a] = "retry" /\ pc'[a] \in {"idle", "reopen"}
         /\ RetryReopen(a) => Frame(a) /\ pc[a] = "reopen" /\ pc'[a] = "select"
<1>1. FinalizeLoad(a) => Frame(a) /\ pc[a] = "finalize" /\ pc'[a] \in {"idle", "f_commit"}
  BY GotoFrame, ReleaseFrame DEF FinalizeLoad
<1>2. FinalizeCommit(a) => Frame(a) /\ pc[a] = "f_commit" /\ pc'[a] = "idle"
  BY ReleaseFrame DEF FinalizeCommit
<1>3. RetryQueued(a) => Frame(a) /\ pc[a] = "decide" /\ pc'[a] = "idle"
  BY ReleaseFrame DEF RetryQueued
<1>4. RetryNothing(a) => Frame(a) /\ pc[a] = "decide" /\ pc'[a] = "idle"
  BY ReleaseFrame DEF RetryNothing
<1>5. RetrySelect(a) => Frame(a) /\ pc[a] = "retry" /\ pc'[a] \in {"idle", "reopen"}
  BY GotoFrame, ReleaseFrame DEF RetrySelect
<1>6. RetryReopen(a) => Frame(a) /\ pc[a] = "reopen" /\ pc'[a] = "select"
  BY CallWindowFrame DEF RetryReopen
<1> QED BY <1>1, <1>2, <1>3, <1>4, <1>5, <1>6

LEMMA TickMoves ==
  ASSUME ActorTypes, NEW a \in Actors
  PROVE  /\ TickRemaining(a) => Frame(a) /\ pc[a] = "tick_remaining" /\ pc'[a] = "sweep"
         /\ SweepSelect(a) => Frame(a) /\ pc[a] = "sweep" /\ pc'[a] \in {"sweep_claim", "topup"}
         /\ SweepClaim(a) => Frame(a) /\ pc[a] = "sweep_claim" /\ pc'[a] \in {"sweep_publish", "topup"}
         /\ SweepPublish(a) => Frame(a) /\ pc[a] = "sweep_publish" /\ pc'[a] = "topup"
         /\ TopUp(a) => Frame(a) /\ pc[a] = "topup" /\ pc'[a] \in {"idle", "select"}
<1>1. TickRemaining(a) => Frame(a) /\ pc[a] = "tick_remaining" /\ pc'[a] = "sweep"
  BY GotoFrame DEF TickRemaining
<1>2. SweepSelect(a) => Frame(a) /\ pc[a] = "sweep" /\ pc'[a] \in {"sweep_claim", "topup"}
  BY GotoFrame, LocalSame DEF SweepSelect
<1>3. SweepClaim(a) => Frame(a) /\ pc[a] = "sweep_claim" /\ pc'[a] \in {"sweep_publish", "topup"}
  BY GotoFrame, LocalSame DEF SweepClaim
<1>4. SweepPublish(a) => Frame(a) /\ pc[a] = "sweep_publish" /\ pc'[a] = "topup"
  BY GotoFrame, LocalSame DEF SweepPublish
<1>5. TopUp(a) => Frame(a) /\ pc[a] = "topup" /\ pc'[a] \in {"idle", "select"}
  BY CallChunkFrame DEF TopUp
<1> QED BY <1>1, <1>2, <1>3, <1>4, <1>5

LEMMA FaultMoves ==
  ASSUME ActorTypes, NEW a \in Actors
  PROVE  /\ RaiseInRow(a) => Frame(a) /\ pc[a] \in {"commit", "bump"} /\ pc'[a] \in {"idle", "commit"}
         /\ RaiseAndEnd(a) => Frame(a) /\ pc[a] \notin {"match", "commit", "bump"} \cup DispatchLabels /\ pc'[a] = "idle"
         /\ RaiseInDispatch(a) => Frame(a) /\ pc[a] # "idle" /\ pc'[a] = "d_failed"
         /\ RaiseInSweep(a) => Frame(a) /\ pc[a] \in {"sweep", "sweep_claim", "sweep_publish"} /\ pc'[a] = "topup"
         /\ Crash(a) => Frame(a) /\ pc[a] # "idle" /\ pc'[a] = "idle"
<1>1. RaiseInRow(a) => Frame(a) /\ pc[a] \in {"commit", "bump"} /\ pc'[a] \in {"idle", "commit"}
  BY GotoFrame, ReleaseFrame DEF RaiseInRow
<1>2. RaiseAndEnd(a) => Frame(a) /\ pc[a] \notin {"match", "commit", "bump"} \cup DispatchLabels /\ pc'[a] = "idle"
  BY ReleaseFrame DEF RaiseAndEnd, DispatchLabels
<1>3. RaiseInDispatch(a) => Frame(a) /\ pc[a] # "idle" /\ pc'[a] = "d_failed"
  BY GotoFrame DEF RaiseInDispatch
<1>4. RaiseInSweep(a) => Frame(a) /\ pc[a] \in {"sweep", "sweep_claim", "sweep_publish"} /\ pc'[a] = "topup"
  BY GotoFrame, LocalSame DEF RaiseInSweep
<1>5. Crash(a) => Frame(a) /\ pc[a] # "idle" /\ pc'[a] = "idle"
  BY ReleaseFrame DEF Crash
<1> QED BY <1>1, <1>2, <1>3, <1>4, <1>5

LEMMA StartMoves ==
  ASSUME ActorTypes, NEW a \in Actors
  PROVE  /\ Take(a) => Frame(a) /\ pc[a] = "idle" /\ pc'[a] = msg'[a].task
         /\ TickStart(a) => Frame(a) /\ pc[a] = "idle" /\ pc'[a] = "tick_remaining"
         /\ RetryFlip(a) => Frame(a) /\ pc[a] = "idle" /\ pc'[a] = "decide"
<1>1. Take(a) => Frame(a) /\ pc[a] = "idle" /\ pc'[a] = msg'[a].task
  <2> SUFFICES ASSUME Take(a)
               PROVE  Frame(a) /\ pc[a] = "idle" /\ pc'[a] = msg'[a].task
    OBVIOUS
  <2>1. PICK m \in QueueMsgs : msg' = [msg EXCEPT ![a] = m] /\ Goto(a, m.task)
    BY DEF Take
  <2>2. msg'[a] = m
    BY <2>1 DEF ActorTypes
  <2> QED BY <2>1, <2>2, GotoFrame DEF Take
<1>2. TickStart(a) => Frame(a) /\ pc[a] = "idle" /\ pc'[a] = "tick_remaining"
  BY GotoFrame DEF TickStart
<1>3. RetryFlip(a) => Frame(a) /\ pc[a] = "idle" /\ pc'[a] = "decide"
  BY GotoFrame DEF RetryFlip
<1> QED BY <1>1, <1>2, <1>3

LEMMA AtFrame ==
  ASSUME NEW a \in Actors, Frame(a), NEW L
  PROVE  /\ At(L)' \subseteq At(L) \cup {a}
         /\ pc'[a] \notin L => At(L)' \subseteq At(L) \ {a}
  BY DEF Frame, At

LEMMA MsgsDiffer ==
  /\ \A r, k : RowMsg(r, k) # DispatchMsg /\ RowMsg(r, k) # FinalizeMsg
  /\ \A r, k, S : RowMsg(r, k) # RetryMsg(S)
  /\ \A S : RetryMsg(S) # DispatchMsg /\ RetryMsg(S) # FinalizeMsg
  /\ DispatchMsg # FinalizeMsg
  /\ DispatchMsg \in QueueMsgs /\ FinalizeMsg \in QueueMsgs /\ RetryMsgs \subseteq QueueMsgs
  /\ \A r \in Rows : RowMsgs(r) \subseteq QueueMsgs
  BY DEF RowMsg, DispatchMsg, FinalizeMsg, RetryMsg, QueueMsgs, RetryMsgs, RowMsgs

LEMMA MsgTasks ==
  ASSUME NEW m \in QueueMsgs
  PROVE  \/ \E r \in Rows : m \in RowMsgs(r) /\ m.row = r /\ m.task = "row"
         \/ m = DispatchMsg /\ m.task = "dispatch"
         \/ m = FinalizeMsg /\ m.task = "finalize"
         \/ m \in RetryMsgs /\ m.task = "retry"
  BY DEF RowMsg, DispatchMsg, FinalizeMsg, RetryMsg, QueueMsgs, RetryMsgs, RowMsgs

LEMMA QueueNats ==
  ASSUME DataTypes, NEW m \in QueueMsgs
  PROVE  queue[m] \in Nat
  BY DEF DataTypes

LEMMA PublishCounts ==
  ASSUME DataTypes, NEW m, Publish(m), NEW n \in QueueMsgs
  PROVE  queue'[n] = IF n = m THEN queue[n] + 1 ELSE queue[n]
  BY DEF DataTypes, Publish

-----------------------------------------------------------------------------
(* While the dispatch message or task of a fresh job is around nothing     *)
(* else is, and every row is still pending.                                *)

FreshLabels == {"idle", "tick_remaining", "sweep", "topup"} \cup DispatchLabels

LEMMA DispatchOver ==
  ASSUME TypeInv, TypeInv', ~DispatchHeld, NEW a \in Actors, Frame(a),
         pc'[a] \notin DispatchLabels, queue'[DispatchMsg] <= queue[DispatchMsg]
  PROVE  DispatchInv'
<1>1. At(DispatchLabels)' \subseteq At(DispatchLabels)
  BY AtFrame
<1>2. queue[DispatchMsg] \in Nat /\ queue'[DispatchMsg] \in Nat
  BY MsgsDiffer, TypeParts, TypePartsNext DEF DataTypes
<1>3. ~Held(queue', At(DispatchLabels)', {DispatchMsg})
  BY <1>1, <1>2, HeldDrops DEF DispatchHeld
<1> QED BY <1>3 DEF DispatchInv, DispatchHeld

LEMMA DispatchQuiet ==
  ASSUME TypeInv, TypeInv', DispatchInv, NEW a \in Actors, Frame(a),
         pc[a] \notin FreshLabels, pc'[a] \notin DispatchLabels,
         queue'[DispatchMsg] <= queue[DispatchMsg]
  PROVE  DispatchInv'
<1>1. ~DispatchHeld
  BY DEF DispatchInv, Fresh, FreshLabels
<1> QED BY <1>1, DispatchOver

LEMMA DispatchEnds ==
  ASSUME TypeInv, TypeInv', DispatchInv, NEW a \in Actors, Frame(a),
         pc[a] \in DispatchLabels, pc'[a] \notin DispatchLabels, queue' = queue
  PROVE  DispatchInv'
<1>1. Once(queue, At(DispatchLabels), {DispatchMsg}) /\ a \in At(DispatchLabels)
  BY DEF DispatchInv, DispatchHeld, Held, At
<1>2. At(DispatchLabels)' \subseteq At(DispatchLabels) \ {a}
  BY AtFrame
<1>3. At(DispatchLabels)' = {} /\ queue'[DispatchMsg] = 0
  BY <1>1, <1>2 DEF Once
<1> QED BY <1>3 DEF DispatchInv, DispatchHeld, Held

LEMMA DispatchGoesOn ==
  ASSUME TypeInv, TypeInv', DispatchInv, NEW a \in Actors, Frame(a),
         pc[a] \in DispatchLabels, pc'[a] \in DispatchLabels, UNCHANGED <<row, queue>>,
         job' = job \/ job'.phase = "syncing"
  PROVE  DispatchInv'
<1>1. Fresh /\ Once(queue, At(DispatchLabels), {DispatchMsg}) /\ a \in At(DispatchLabels)
  BY DEF DispatchInv, DispatchHeld, Held, At
<1>2. At(DispatchLabels)' \subseteq At(DispatchLabels)
  BY <1>1, AtFrame
<1>3. queue[DispatchMsg] \in Nat
  BY MsgsDiffer, TypeParts DEF DataTypes
<1>4. Once(queue', At(DispatchLabels)', {DispatchMsg})
  BY <1>1, <1>2, <1>3, OnceDrops
<1>5. Fresh'
  BY <1>1 DEF Fresh, Frame
<1> QED BY <1>4, <1>5 DEF DispatchInv

LEMMA DispatchTick ==
  ASSUME TypeInv, TypeInv', DispatchInv, NEW a \in Actors, Frame(a),
         UNCHANGED <<job, row, queue>>, pc'[a] \notin DispatchLabels,
         Fresh => \/ pc'[a] = "idle"
                  \/ pc'[a] \in {"tick_remaining", "sweep", "topup"} /\ want'[a].left = 0
  PROVE  DispatchInv'
<1>1. CASE ~DispatchHeld
  BY <1>1, DispatchOver, MsgsDiffer, TypeParts DEF DataTypes
<1>2. CASE DispatchHeld
  <2>1. Fresh /\ Once(queue, At(DispatchLabels), {DispatchMsg})
    BY <1>2 DEF DispatchInv
  <2>2. At(DispatchLabels)' \subseteq At(DispatchLabels) /\ queue[DispatchMsg] \in Nat
    BY AtFrame, MsgsDiffer, TypeParts DEF DataTypes
  <2>3. Once(queue', At(DispatchLabels)', {DispatchMsg})
    BY <2>1, <2>2, OnceDrops
  <2>4. Fresh'
    BY <2>1 DEF Fresh, Frame
  <2> QED BY <2>3, <2>4 DEF DispatchInv
<1> QED BY <1>1, <1>2

LEMMA TakeDispatch ==
  ASSUME TypeInv, TypeInv', DispatchInv, NEW a \in Actors, Take(a)
  PROVE  DispatchInv'
<1>1. PICK m \in QueueMsgs : /\ queue[m] > 0 /\ queue' = [queue EXCEPT ![m] = @ - 1]
                             /\ msg' = [msg EXCEPT ![a] = m] /\ Goto(a, m.task)
  BY DEF Take
<1>2. Frame(a) /\ pc[a] = "idle" /\ pc'[a] = m.task
  <2>1. msg'[a] = m
    BY <1>1, TypeParts DEF ActorInv, ActorTypes
  <2> QED BY <2>1, StartMoves, TypeParts DEF ActorInv
<1>3. /\ queue[DispatchMsg] \in Nat
      /\ \A n \in QueueMsgs : queue'[n] = IF n = m THEN queue[n] - 1 ELSE queue[n]
  BY <1>1, MsgsDiffer, TypeParts DEF DataTypes
<1>4. CASE ~DispatchHeld
  <2>1. m # DispatchMsg
    BY <1>1, <1>4 DEF DispatchHeld, Held
  <2>2. m.task \notin DispatchLabels
    BY <2>1, MsgTasks DEF DispatchLabels
  <2> QED BY <1>2, <1>3, <1>4, <2>1, <2>2, DispatchOver, MsgsDiffer
<1>5. CASE DispatchHeld
  <2>1. Fresh /\ Once(queue, At(DispatchLabels), {DispatchMsg})
    BY <1>5 DEF DispatchInv
  <2>2. m = DispatchMsg
    BY <1>1, <2>1 DEF Fresh
  <2>3. At(DispatchLabels)' \subseteq At(DispatchLabels) \cup {a}
    BY <1>2, AtFrame
  <2>4. Once(queue', At(DispatchLabels)', {DispatchMsg})
    BY <1>1, <1>3, <2>1, <2>2, <2>3, OnceTaken, MsgsDiffer
  <2>5. pc'[a] \in DispatchLabels
    BY <1>2, <2>2 DEF DispatchMsg, DispatchLabels
  <2>6. Fresh'
    BY <1>2, <1>3, <2>1, <2>2, <2>5 DEF Fresh, Frame, Take
  <2> QED BY <2>4, <2>6 DEF DispatchInv
<1> QED BY <1>4, <1>5

LEMMA RunDispatch ==
  ASSUME TypeInv, TypeInv', DispatchInv, NEW a \in Actors, Run(a)
  PROVE  DispatchInv'
<1> USE TypeParts DEF ActorInv
<1>0. queue[DispatchMsg] \in Nat
  BY MsgsDiffer DEF DataTypes
<1>1. CASE RowStep(a)
  <2>1. queue'[DispatchMsg] = queue[DispatchMsg]
    BY <1>1, PublishCounts, MsgsDiffer
    DEF RowStep, LoadRow, MatchSucceeds, MatchRetries, MatchExhausted, MatchBreaks, Decide,
        CommitRow, BumpCounters, Settle, Claim, PublishFinalize
  <2>2. Frame(a) /\ pc[a] \notin FreshLabels /\ pc'[a] \notin DispatchLabels
    BY <1>1, RowMoves DEF RowStep, FreshLabels, DispatchLabels
  <2> QED BY <1>0, <2>1, <2>2, DispatchQuiet
<1>2. CASE WindowStep(a)
  <2>1. queue'[DispatchMsg] = queue[DispatchMsg]
    BY <1>2, PublishCounts, MsgsDiffer
    DEF WindowStep, SelectWindow, ClaimRows, PublishRow, RowsPublished
  <2>2. Frame(a) /\ pc[a] \notin FreshLabels /\ pc'[a] \notin DispatchLabels
    BY <1>2, WindowMoves DEF WindowStep, FreshLabels, DispatchLabels
  <2> QED BY <1>0, <2>1, <2>2, DispatchQuiet
<1>3. CASE DispatchStep(a)
  <2>1. CASE DispatchLoad(a) \/ SyncMark(a) \/ SyncRuns(a)
    <3>1. /\ UNCHANGED <<row, queue>>
          /\ job' = job \/ job'.phase = "syncing"
      BY <2>1 DEF DispatchLoad, SyncMark, SyncRuns, DataTypes, JobType
    <3>2. Frame(a) /\ pc[a] \in DispatchLabels /\ pc'[a] \in DispatchLabels
      BY <2>1, DispatchMoves DEF DispatchLabels
    <3> QED BY <3>1, <3>2, DispatchGoesOn
  <2>2. CASE DispatchMark(a)
    <3>1. Frame(a) /\ pc[a] \in DispatchLabels /\ pc'[a] \notin DispatchLabels
      BY <2>2, DispatchMoves DEF DispatchLabels
    <3> QED BY <2>2, <3>1, DispatchEnds DEF DispatchMark
  <2>3. CASE DispatchFailed(a)
    <3>1. Frame(a) /\ pc[a] \notin FreshLabels /\ pc'[a] \notin DispatchLabels
      BY <2>3, DispatchMoves DEF FreshLabels, DispatchLabels
    <3> QED BY <1>0, <2>3, <3>1, DispatchQuiet DEF DispatchFailed
  <2> QED BY <1>3, <2>1, <2>2, <2>3 DEF DispatchStep
<1>4. CASE EndStep(a) \/ EndpointStep(a)
  <2>1. queue'[DispatchMsg] = queue[DispatchMsg]
    BY <1>4, PublishCounts, MsgsDiffer
    DEF EndStep, EndpointStep, FinalizeLoad, FinalizeCommit, RetrySelect, RetryReopen,
        RetryQueued, RetryNothing
  <2>2. Frame(a) /\ pc[a] \notin FreshLabels /\ pc'[a] \notin DispatchLabels
    BY <1>4, EndMoves DEF EndStep, EndpointStep, FreshLabels, DispatchLabels
  <2> QED BY <1>0, <2>1, <2>2, DispatchQuiet
<1>5. CASE TickStep(a)
  <2>1. CASE TickRemaining(a)
    <3>1. Frame(a) /\ pc[a] = "tick_remaining" /\ pc'[a] = "sweep"
      BY <2>1, TickMoves
    <3>2. want'[a].left = Lesser(want[a].left, Cardinality(Pending))
      BY <2>1 DEF TickRemaining, ActorTypes, WantType
    <3>3. Cardinality(Pending) \in Nat
      BY CountsAreNats DEF Pending
    <3>4. Fresh => want'[a].left = 0
      BY <3>1, <3>2, <3>3 DEF Fresh, Lesser, DispatchLabels
    <3> QED BY <2>1, <3>1, <3>4, DispatchTick DEF TickRemaining, DispatchLabels
  <2>2. CASE SweepSelect(a)
    <3>1. Frame(a) /\ pc[a] = "sweep" /\ pc'[a] \in {"sweep_claim", "topup"}
      BY <2>2, TickMoves
    <3>2. Fresh => pc'[a] = "topup" /\ want'[a].left = 0
      <4>1. Fresh => ~Stuck /\ want[a].left = 0
        BY <3>1 DEF Fresh, Stuck, DispatchLabels
      <4>2. ~Stuck => pc'[a] = "topup"
        BY <2>2, <3>1 DEF SweepSelect, Goto, ActorTypes
      <4> QED BY <2>2, <4>1, <4>2, LocalSame DEF SweepSelect
    <3> QED BY <2>2, <3>1, <3>2, DispatchTick DEF SweepSelect, DispatchLabels
  <2>3. CASE SweepClaim(a) \/ SweepPublish(a)
    <3>1. queue'[DispatchMsg] = queue[DispatchMsg]
      BY <2>3, PublishCounts, MsgsDiffer DEF SweepClaim, SweepPublish
    <3>2. Frame(a) /\ pc[a] \notin FreshLabels /\ pc'[a] \notin DispatchLabels
      BY <2>3, TickMoves DEF FreshLabels, DispatchLabels
    <3> QED BY <1>0, <3>1, <3>2, DispatchQuiet
  <2>4. CASE TopUp(a)
    <3>1. Frame(a) /\ pc[a] = "topup" /\ pc'[a] \in {"idle", "select"}
      BY <2>4, TickMoves
    <3>2. Fresh => pc'[a] = "idle"
      <4>1. Fresh => ~(want[a].left > 0)
        BY <3>1 DEF Fresh, DispatchLabels
      <4> QED BY <2>4, <4>1, CallChunkFrame DEF TopUp
    <3> QED BY <2>4, <3>1, <3>2, DispatchTick DEF TopUp, DispatchLabels
  <2> QED BY <1>5, <2>1, <2>2, <2>3, <2>4 DEF TickStep
<1> QED BY <1>1, <1>2, <1>3, <1>4, <1>5 DEF Run

LEMMA FaultDispatch ==
  ASSUME TypeInv, TypeInv', DispatchInv, NEW a \in Actors, Raise(a) \/ Crash(a)
  PROVE  DispatchInv'
<1> USE TypeParts DEF ActorInv
<1>1. /\ UNCHANGED <<job, row, queue>> /\ Frame(a) /\ pc'[a] \notin DispatchLabels
      /\ queue[DispatchMsg] \in Nat
  BY FaultMoves, MsgsDiffer
  DEF Raise, RaiseInRow, RaiseAndEnd, RaiseInDispatch, RaiseInSweep, Crash,
      DispatchLabels, DataTypes
<1>2. CASE pc[a] \in DispatchLabels
  BY <1>1, <1>2, DispatchEnds
<1>3. CASE pc[a] \notin FreshLabels
  BY <1>1, <1>3, DispatchQuiet
<1>4. CASE pc[a] \in {"idle", "tick_remaining", "sweep", "topup"}
  <2>1. pc'[a] = "idle" \/ RaiseInSweep(a) \/ RaiseInDispatch(a)
    BY <1>4, FaultMoves DEF Raise
  <2>2. ~RaiseInDispatch(a)
    BY <1>4 DEF RaiseInDispatch
  <2>3. RaiseInSweep(a) => pc'[a] = "topup" /\ want'[a] = want[a] /\ pc[a] # "idle"
    BY FaultMoves, LocalSame DEF RaiseInSweep
  <2>4. Fresh /\ pc[a] # "idle" => want[a].left = 0
    BY <1>4 DEF Fresh, DispatchLabels
  <2> QED BY <1>1, <2>1, <2>2, <2>3, <2>4, DispatchTick
<1> QED BY <1>2, <1>3, <1>4 DEF FreshLabels

LEMMA StartDispatch ==
  ASSUME TypeInv, TypeInv', DispatchInv, NEW a \in Actors, TickStart(a) \/ RetryFlip(a)
  PROVE  DispatchInv'
<1> USE TypeParts DEF ActorInv
<1>1. CASE TickStart(a)
  <2>1. Frame(a) /\ pc'[a] = "tick_remaining"
    BY <1>1, StartMoves
  <2>2. Fresh => want'[a].left = 0
    BY <1>1 DEF TickStart, Fresh, ActorTypes, NoWant
  <2> QED BY <1>1, <2>1, <2>2, DispatchTick DEF TickStart, DispatchLabels
<1>2. CASE RetryFlip(a)
  <2>1. ~DispatchHeld
    BY <1>2 DEF RetryFlip, DispatchInv, Fresh, Finished
  <2>2. Frame(a) /\ pc'[a] \notin DispatchLabels
    BY <1>2, StartMoves DEF DispatchLabels
  <2>3. queue'[DispatchMsg] <= queue[DispatchMsg]
    <3>1. queue' = queue
      BY <1>2 DEF RetryFlip
    <3> QED BY <3>1, MsgsDiffer, QueueNats
  <2> QED BY <2>1, <2>2, <2>3, DispatchOver
<1> QED BY <1>1, <1>2

-----------------------------------------------------------------------------
(* The five ways a step can touch a task that must exist once: not at all  *)
(* (or by its holder going on), by publishing it, taking it, starting it   *)
(* and ending it.                                                          *)

LEMMA OnceQuiet ==
  ASSUME DataTypes, DataTypes', NEW a \in Actors, Frame(a), NEW L, NEW M \in SUBSET QueueMsgs,
         pc'[a] \notin L \/ pc[a] \in L, \A m \in M : queue'[m] <= queue[m]
  PROVE  /\ Once(queue, At(L), M) => Once(queue', At(L)', M)
         /\ Held(queue', At(L)', M) => Held(queue, At(L), M)
<1>1. At(L)' \subseteq At(L)
  BY AtFrame DEF At
<1>2. \A m \in M : queue[m] \in Nat /\ queue'[m] \in Nat
  BY DEF DataTypes
<1> QED BY <1>1, <1>2, OnceDrops, HeldDrops

LEMMA OnceGive ==
  ASSUME DataTypes, NEW a \in Actors, Frame(a), NEW L, NEW M \in SUBSET QueueMsgs,
         pc[a] \in L, pc'[a] \notin L, NEW m, Publish(m), Once(queue, At(L), M)
  PROVE  Once(queue', At(L)', M) /\ Held(queue, At(L), M)
<1>1. a \in At(L) /\ At(L)' \subseteq At(L) \ {a}
  BY AtFrame DEF At
<1>2. \A n \in M : queue[n] \in Nat /\ queue'[n] = IF n = m THEN queue[n] + 1 ELSE queue[n]
  BY PublishCounts DEF DataTypes
<1>3. Once(queue', At(L)', M)
  BY <1>1, <1>2, OnceGiven
<1> QED BY <1>1, <1>3 DEF Held

LEMMA OnceTake ==
  ASSUME DataTypes, NEW a \in Actors, Frame(a), NEW L, NEW M \in SUBSET QueueMsgs,
         NEW m \in M, queue[m] > 0, queue' = [queue EXCEPT ![m] = @ - 1],
         Once(queue, At(L), M)
  PROVE  Once(queue', At(L)', M) /\ Held(queue, At(L), M)
<1>1. At(L)' \subseteq At(L) \cup {a}
  BY AtFrame
<1>2. \A n \in M : queue[n] \in Nat /\ queue'[n] = IF n = m THEN queue[n] - 1 ELSE queue[n]
  BY DEF DataTypes
<1>3. Once(queue', At(L)', M)
  BY <1>1, <1>2, OnceTaken
<1> QED BY <1>3 DEF Held

LEMMA OnceMake ==
  ASSUME DataTypes, NEW a \in Actors, Frame(a), NEW L, NEW M \in SUBSET QueueMsgs,
         queue' = queue, ~Held(queue, At(L), M)
  PROVE  Once(queue', At(L)', M)
<1>1. At(L)' \subseteq At(L) \cup {a}
  BY AtFrame
<1>2. \A n \in M : queue[n] \in Nat
  BY DEF DataTypes
<1> QED BY <1>1, <1>2, OnceMade

LEMMA OnceEnd ==
  ASSUME DataTypes, NEW a \in Actors, Frame(a), NEW L, NEW M \in SUBSET QueueMsgs,
         pc[a] \in L, pc'[a] \notin L, queue' = queue, Once(queue, At(L), M)
  PROVE  /\ Held(queue, At(L), M)
         /\ ~Held(queue', At(L)', M)
         /\ Once(queue', At(L)', M)
<1>1. a \in At(L) /\ At(L)' \subseteq At(L) \ {a}
  BY AtFrame DEF At
<1>2. At(L)' = {} /\ \A n \in M : queue'[n] = 0
  BY <1>1 DEF Once
<1> QED BY <1>1, <1>2 DEF Held, Once

-----------------------------------------------------------------------------
(* As long as a dispatch does not fail half-way, a claimed job has one     *)
(* finalization or one retry under way, never both.                        *)

LEMMA EndMsgsQueued == EndMsgs \in SUBSET QueueMsgs
  BY MsgsDiffer DEF EndMsgs

LEMMA OrderlyQuiet ==
  ASSUME TypeInv, TypeInv', Orderly, NEW a \in Actors, Frame(a),
         pc'[a] \notin EndLabels \/ pc[a] \in EndLabels, pc'[a] # "d_failed",
         \A m \in EndMsgs : queue'[m] <= queue[m],
         job'.claimed = job.claimed, job'.phase = job.phase \/ job'.phase \notin Finished
  PROVE  Orderly'
<1>1. Once(queue', At(EndLabels)', EndMsgs) /\ (EndHeld' => EndHeld)
  BY OnceQuiet, EndMsgsQueued, TypeParts, TypePartsNext DEF Orderly, EndHeld
<1>2. \A b \in Actors : pc'[b] # "d_failed"
  BY DEF Orderly, Frame
<1> QED BY <1>1, <1>2 DEF Orderly

LEMMA OrderlyGive ==
  ASSUME TypeInv, Orderly, NEW a \in Actors, Frame(a), pc[a] \in EndLabels,
         pc'[a] \notin EndLabels, pc'[a] # "d_failed", NEW m, Publish(m), job' = job
  PROVE  Orderly'
<1>1. Once(queue', At(EndLabels)', EndMsgs) /\ EndHeld
  BY OnceGive, EndMsgsQueued, TypeParts DEF Orderly, EndHeld
<1>2. \A b \in Actors : pc'[b] # "d_failed"
  BY DEF Orderly, Frame
<1> QED BY <1>1, <1>2 DEF Orderly

LEMMA OrderlyMake ==
  ASSUME TypeInv, Orderly, NEW a \in Actors, Frame(a), pc'[a] # "d_failed", queue' = queue,
         ~EndHeld, job'.claimed, job'.phase \notin Finished
  PROVE  Orderly'
<1>1. Once(queue', At(EndLabels)', EndMsgs)
  BY OnceMake, EndMsgsQueued, TypeParts DEF EndHeld
<1>2. \A b \in Actors : pc'[b] # "d_failed"
  BY DEF Orderly, Frame
<1> QED BY <1>1, <1>2 DEF Orderly

LEMMA OrderlyEnd ==
  ASSUME TypeInv, Orderly, NEW a \in Actors, Frame(a), pc[a] \in EndLabels,
         pc'[a] \notin EndLabels, pc'[a] # "d_failed", queue' = queue,
         job'.claimed = job.claimed \/ job'.phase \notin Finished
  PROVE  Orderly'
<1>1. Once(queue', At(EndLabels)', EndMsgs) /\ EndHeld /\ ~EndHeld'
  BY OnceEnd, EndMsgsQueued, TypeParts DEF Orderly, EndHeld
<1>2. \A b \in Actors : pc'[b] # "d_failed"
  BY DEF Orderly, Frame
<1> QED BY <1>1, <1>2 DEF Orderly

LEMMA RunOrderly ==
  ASSUME TypeInv, TypeInv', DispatchInv, Orderly, NEW a \in Actors, Run(a)
  PROVE  Orderly'
<1> USE TypeParts DEF ActorInv
<1>0. \A m \in EndMsgs : queue[m] \in Nat /\ m \in QueueMsgs
  BY EndMsgsQueued, QueueNats
<1>1. CASE RowStep(a)
  <2>1. CASE ~Claim(a) /\ ~PublishFinalize(a)
    <3>1. \A m \in EndMsgs : queue'[m] = queue[m]
      BY <1>0, <1>1, <2>1, PublishCounts, MsgsDiffer
      DEF EndMsgs, RetryMsgs, RowStep, LoadRow, MatchSucceeds, MatchRetries, MatchExhausted,
          MatchBreaks, Decide, CommitRow, BumpCounters, Settle
    <3>2. job'.claimed = job.claimed /\ job'.phase = job.phase
      <4>1. CASE BumpCounters(a)
        <5>1. rec[a].outcome \in {"matched", "no_match", "failed"}
          BY DEF ActorTypes
        <5> QED BY <4>1, <5>1 DEF BumpCounters, DataTypes, JobType
      <4>2. CASE ~BumpCounters(a)
        BY <1>1, <2>1, <4>2
        DEF RowStep, LoadRow, MatchSucceeds, MatchRetries, MatchExhausted, MatchBreaks, Decide,
            CommitRow, Settle
      <4> QED BY <4>1, <4>2
    <3>3. Frame(a) /\ pc'[a] \notin EndLabels /\ pc'[a] # "d_failed"
      BY <1>1, <2>1, RowMoves DEF RowStep, EndLabels, FinLabels, RetryLabels
    <3> QED BY <1>0, <3>1, <3>2, <3>3, OrderlyQuiet
  <2>2. CASE Claim(a)
    <3>1. Frame(a) /\ pc'[a] # "d_failed" /\ queue' = queue
      BY <2>2, RowMoves DEF Claim
    <3>2. CASE ClaimMatches
      <4>1. /\ ~EndHeld /\ job.phase \notin Finished
            /\ job'.claimed /\ job'.phase = job.phase
        BY <2>2, <3>2 DEF Claim, ClaimMatches, Orderly, DataTypes, JobType
      <4> QED BY <3>1, <4>1, OrderlyMake
    <3>3. CASE ~ClaimMatches
      <4>1. job' = job /\ pc'[a] = "select"
        BY <2>2, <3>3, CallWindowFrame DEF Claim
      <4> QED BY <1>0, <3>1, <4>1, OrderlyQuiet DEF EndLabels, FinLabels, RetryLabels
    <3> QED BY <3>2, <3>3
  <2>3. CASE PublishFinalize(a)
    <3>1. /\ Frame(a) /\ pc[a] \in EndLabels /\ pc'[a] \notin EndLabels
          /\ pc'[a] # "d_failed"
      BY <2>3, RowMoves DEF EndLabels, FinLabels, RetryLabels
    <3> QED BY <2>3, <3>1, OrderlyGive DEF PublishFinalize
  <2> QED BY <2>1, <2>2, <2>3
<1>2. CASE WindowStep(a)
  <2>1. /\ job' = job /\ \A m \in EndMsgs : queue'[m] = queue[m]
    BY <1>0, <1>2, PublishCounts, MsgsDiffer
    DEF EndMsgs, RetryMsgs, WindowStep, SelectWindow, ClaimRows, PublishRow, RowsPublished
  <2>2. Frame(a) /\ pc'[a] \notin EndLabels /\ pc'[a] # "d_failed"
    BY <1>2, WindowMoves DEF WindowStep, EndLabels, FinLabels, RetryLabels
  <2> QED BY <1>0, <2>1, <2>2, OrderlyQuiet
<1>3. CASE DispatchStep(a)
  <2>1. ~DispatchFailed(a)
    BY DispatchMoves DEF Orderly
  <2>2. /\ queue' = queue /\ job'.claimed = job.claimed
        /\ job'.phase = job.phase \/ job'.phase \in {"syncing", "processing"}
    BY <1>3, <2>1
    DEF DispatchStep, DispatchLoad, SyncMark, SyncRuns, DispatchMark, DataTypes, JobType
  <2>3. Frame(a) /\ pc'[a] \notin EndLabels /\ pc'[a] # "d_failed"
    <3>1. CASE DispatchMark(a)
      <4>1. Fresh
        BY <3>1, DispatchMoves DEF DispatchInv, DispatchHeld, Held, At, DispatchLabels
      <4>2. Pending # {}
        BY <4>1, ExternalAssumption DEF Fresh, Pending
      <4>3. pc'[a] = "select"
        BY <3>1, <4>2, CallWindowFrame DEF DispatchMark
      <4> QED BY <3>1, <4>3, DispatchMoves DEF EndLabels, FinLabels, RetryLabels
    <3>2. CASE ~DispatchMark(a)
      BY <1>3, <2>1, <3>2, DispatchMoves DEF DispatchStep, EndLabels, FinLabels, RetryLabels
    <3> QED BY <3>1, <3>2
  <2> QED BY <1>0, <2>2, <2>3, OrderlyQuiet DEF Finished
<1>4. CASE EndStep(a) \/ EndpointStep(a)
  <2>0. /\ Frame(a) /\ pc[a] \in EndLabels /\ pc'[a] # "d_failed"
    BY <1>4, EndMoves DEF EndStep, EndpointStep, EndLabels, FinLabels, RetryLabels
  <2>1. CASE FinalizeLoad(a) \/ RetrySelect(a)
    BY <1>0, <2>0, <2>1, OrderlyQuiet DEF FinalizeLoad, RetrySelect
  <2>2. CASE FinalizeCommit(a) \/ RetryNothing(a)
    <3>1. pc'[a] \notin EndLabels /\ queue' = queue /\ job'.claimed = job.claimed
      BY <2>2, EndMoves
      DEF FinalizeCommit, RetryNothing, DataTypes, JobType, EndLabels, FinLabels, RetryLabels
    <3> QED BY <2>0, <3>1, OrderlyEnd
  <2>3. CASE RetryReopen(a)
    <3>1. pc'[a] \notin EndLabels /\ queue' = queue /\ job'.phase = "processing"
      BY <2>3, EndMoves
      DEF RetryReopen, Reopened, DataTypes, JobType, EndLabels, FinLabels, RetryLabels
    <3> QED BY <2>0, <3>1, OrderlyEnd DEF Finished
  <2>4. CASE RetryQueued(a)
    <3>1. pc'[a] \notin EndLabels
      BY <2>4, EndMoves DEF EndLabels, FinLabels, RetryLabels
    <3> QED BY <2>0, <2>4, <3>1, OrderlyGive DEF RetryQueued
  <2> QED BY <1>4, <2>1, <2>2, <2>3, <2>4 DEF EndStep, EndpointStep
<1>5. CASE TickStep(a)
  <2>1. CASE TickRemaining(a) \/ SweepSelect(a) \/ TopUp(a)
    <3>1. queue' = queue /\ job' = job
      BY <2>1 DEF TickRemaining, SweepSelect, TopUp
    <3>2. Frame(a) /\ pc'[a] \notin EndLabels /\ pc'[a] # "d_failed"
      BY <2>1, TickMoves DEF EndLabels, FinLabels, RetryLabels
    <3> QED BY <1>0, <3>1, <3>2, OrderlyQuiet
  <2>2. CASE SweepClaim(a)
    <3>1. Frame(a) /\ pc'[a] # "d_failed" /\ queue' = queue
      BY <2>2, TickMoves DEF SweepClaim
    <3>2. CASE ClaimMatches
      <4>1. /\ ~EndHeld /\ job.phase \notin Finished
            /\ job'.claimed /\ job'.phase = job.phase
        BY <2>2, <3>2 DEF SweepClaim, ClaimMatches, Orderly, DataTypes, JobType
      <4> QED BY <3>1, <4>1, OrderlyMake
    <3>3. CASE ~ClaimMatches
      <4>1. job' = job /\ pc'[a] = "topup"
        BY <2>2, <3>3 DEF SweepClaim, Goto, ActorTypes
      <4> QED BY <1>0, <3>1, <4>1, OrderlyQuiet DEF EndLabels, FinLabels, RetryLabels
    <3> QED BY <3>2, <3>3
  <2>3. CASE SweepPublish(a)
    <3>1. /\ Frame(a) /\ pc[a] \in EndLabels /\ pc'[a] \notin EndLabels
          /\ pc'[a] # "d_failed"
      BY <2>3, TickMoves DEF EndLabels, FinLabels, RetryLabels
    <3> QED BY <2>3, <3>1, OrderlyGive DEF SweepPublish
  <2> QED BY <1>5, <2>1, <2>2, <2>3 DEF TickStep
<1> QED BY <1>1, <1>2, <1>3, <1>4, <1>5 DEF Run

LEMMA FaultOrderly ==
  ASSUME DispatchHolds, TypeInv, TypeInv', Orderly, NEW a \in Actors, Raise(a) \/ Crash(a)
  PROVE  Orderly'
<1> USE TypeParts DEF ActorInv
<1>0. \A m \in EndMsgs : queue[m] \in Nat
  BY EndMsgsQueued, QueueNats
<1>1. ~RaiseInDispatch(a)
  BY DEF RaiseInDispatch, Fault, DispatchHolds
<1>2. queue' = queue /\ job' = job
  BY DEF Raise, RaiseInRow, RaiseAndEnd, RaiseInDispatch, RaiseInSweep, Crash
<1>3. Frame(a) /\ pc'[a] \notin EndLabels /\ pc'[a] # "d_failed"
  BY <1>1, FaultMoves DEF Raise, EndLabels, FinLabels, RetryLabels
<1> QED BY <1>0, <1>2, <1>3, OrderlyQuiet

LEMMA StartOrderly ==
  ASSUME TypeInv, TypeInv', Orderly, NEW a \in Actors, Take(a) \/ TickStart(a) \/ RetryFlip(a)
  PROVE  Orderly'
<1> USE TypeParts DEF ActorInv
<1>0. \A m \in EndMsgs : queue[m] \in Nat /\ m \in QueueMsgs
  BY EndMsgsQueued, QueueNats
<1>1. CASE Take(a)
  <2>1. PICK m \in QueueMsgs : /\ queue[m] > 0 /\ queue' = [queue EXCEPT ![m] = @ - 1]
                               /\ msg' = [msg EXCEPT ![a] = m]
    BY <1>1 DEF Take
  <2>2. Frame(a) /\ pc'[a] = m.task /\ job' = job
    <3>1. msg'[a] = m
      BY <2>1 DEF ActorTypes
    <3> QED BY <1>1, <3>1, StartMoves DEF Take
  <2>3. pc'[a] # "d_failed" /\ m.task \in EndLabels => m \in EndMsgs
    BY <2>2, MsgTasks DEF EndLabels, FinLabels, RetryLabels, EndMsgs
  <2>4. CASE m \in EndMsgs
    <3>1. Once(queue', At(EndLabels)', EndMsgs) /\ EndHeld
      BY <2>1, <2>2, <2>4, OnceTake, EndMsgsQueued DEF Orderly, EndHeld
    <3>2. \A b \in Actors : pc'[b] # "d_failed"
      BY <2>2, MsgTasks DEF Orderly, Frame
    <3> QED BY <2>2, <3>1, <3>2 DEF Orderly
  <2>5. CASE m \notin EndMsgs
    <3>1. \A n \in EndMsgs : queue'[n] = queue[n]
      BY <1>0, <2>1, <2>5 DEF DataTypes
    <3>2. pc'[a] # "d_failed" /\ pc'[a] \notin EndLabels
      BY <2>2, <2>3, <2>5, MsgTasks
    <3> QED BY <1>0, <2>2, <3>1, <3>2, OrderlyQuiet
  <2> QED BY <2>4, <2>5
<1>2. CASE TickStart(a)
  <2>1. Frame(a) /\ pc'[a] \notin EndLabels /\ pc'[a] # "d_failed"
    BY <1>2, StartMoves DEF EndLabels, FinLabels, RetryLabels
  <2> QED BY <1>0, <1>2, <2>1, OrderlyQuiet DEF TickStart
<1>3. CASE RetryFlip(a)
  <2>1. /\ ~EndHeld /\ job'.claimed /\ job'.phase = "processing" /\ queue' = queue
    BY <1>3 DEF RetryFlip, Orderly, DataTypes, JobType
  <2>2. Frame(a) /\ pc'[a] # "d_failed"
    BY <1>3, StartMoves
  <2> QED BY <2>1, <2>2, OrderlyMake DEF Finished
<1> QED BY <1>1, <1>2, <1>3

-----------------------------------------------------------------------------
(* A claimed job has no row outstanding, whatever fails.                   *)

LEMMA ClaimedQuiet ==
  ASSUME ClaimedMeansDone, job'.claimed => job.claimed,
         \A r \in Rows : row[r].status \in Terminal => row'[r].status \in Terminal
  PROVE  ClaimedMeansDone'
  BY DEF ClaimedMeansDone, NoRowsOutstanding, Outstanding

LEMMA StepClaimed ==
  ASSUME TypeInv, ClaimedMeansDone, [Next]_vars
  PROVE  ClaimedMeansDone'
<1> USE TypeParts DEF ActorInv
<1>1. CASE \E a \in Actors : CommitRow(a)
  <2>1. PICK a \in Actors : CommitRow(a)
    BY <1>1
  <2>2. \A r \in Rows : row[r].status \in Terminal => row'[r].status \in Terminal
    BY <2>1 DEF CommitRow, DataTypes, Terminal
  <2> QED BY <2>1, <2>2, ClaimedQuiet DEF CommitRow
<1>2. CASE \E a \in Actors : ClaimRows(a)
  <2>1. PICK a \in Actors : ClaimRows(a)
    BY <1>2
  <2>2. \A r \in Rows : row[r].status \in Terminal => row'[r] = row[r]
    BY <2>1 DEF ClaimRows, Won, Pending, Terminal
  <2> QED BY <2>1, <2>2, ClaimedQuiet DEF ClaimRows
<1>3. CASE \E a \in Actors : Claim(a) \/ SweepClaim(a)
  <2>1. PICK a \in Actors : Claim(a) \/ SweepClaim(a)
    BY <1>3
  <2>2. UNCHANGED row /\ (job' = job \/ NoRowsOutstanding)
    BY <2>1 DEF Claim, SweepClaim, ClaimMatches
  <2> QED BY <2>2 DEF ClaimedMeansDone, NoRowsOutstanding, Outstanding
<1>4. CASE \E a \in Actors : RetryReopen(a)
  BY <1>4 DEF RetryReopen, Reopened, DataTypes, JobType, ClaimedMeansDone
<1>5. CASE \E a \in Actors : BumpCounters(a)
  <2>1. PICK a \in Actors : BumpCounters(a)
    BY <1>5
  <2>2. rec[a].outcome \in {"matched", "no_match", "failed"}
    BY DEF ActorTypes
  <2>3. job'.claimed = job.claimed /\ row' = row
    BY <2>1, <2>2 DEF BumpCounters, DataTypes, JobType
  <2> QED BY <2>3, ClaimedQuiet
<1>6. CASE ~ \E a \in Actors : \/ CommitRow(a) \/ ClaimRows(a) \/ Claim(a) \/ SweepClaim(a)
                               \/ RetryReopen(a) \/ BumpCounters(a)
  <2>1. CASE \E a \in Actors : Run(a)
    <3>1. PICK a \in Actors : Run(a)
      BY <2>1
    <3>2. row' = row /\ job'.claimed = job.claimed
      BY <1>6, <3>1
      DEF Run, RowStep, LoadRow, MatchSucceeds, MatchRetries, MatchExhausted, MatchBreaks,
          Decide, Settle, PublishFinalize, WindowStep, SelectWindow, PublishRow, RowsPublished,
          DispatchStep, DispatchLoad, SyncMark, SyncRuns, DispatchMark, DispatchFailed,
          EndStep, FinalizeLoad, FinalizeCommit, RetrySelect, EndpointStep, RetryQueued,
          RetryNothing, TickStep, TickRemaining, SweepSelect, SweepPublish, TopUp,
          DataTypes, JobType
    <3> QED BY <3>2, ClaimedQuiet
  <2>2. CASE \E a \in Actors : Raise(a) \/ Crash(a)
    <3>1. row' = row /\ job' = job
      BY <2>2 DEF Raise, RaiseInRow, RaiseAndEnd, RaiseInDispatch, RaiseInSweep, Crash
    <3> QED BY <3>1, ClaimedQuiet
  <2>3. CASE \/ \E a \in Workers : Take(a)
             \/ \E a \in Beats : TickStart(a)
             \/ \E a \in Clients : RetryFlip(a)
             \/ UNCHANGED vars
    <3>1. row' = row /\ job'.claimed = job.claimed
      BY <2>3 DEF Take, TickStart, RetryFlip, vars, DataTypes, JobType
    <3> QED BY <3>1, ClaimedQuiet
  <2> QED BY <2>1, <2>2, <2>3 DEF Next
<1> QED BY <1>1, <1>2, <1>3, <1>4, <1>5, <1>6

-----------------------------------------------------------------------------
LEMMA InitStage == Init => DispatchInv /\ ClaimedMeansDone /\ Orderly /\ Unretried /\ SingleRetry
<1> SUFFICES ASSUME Init
             PROVE  DispatchInv /\ ClaimedMeansDone /\ Orderly /\ Unretried /\ SingleRetry
  OBVIOUS
<1>1. \A L : "idle" \notin L => At(L) = {}
  BY DEF Init, At
<1>2. \A m \in QueueMsgs : queue[m] = IF m = DispatchMsg THEN 1 ELSE 0
  BY DEF Init
<1>3. At(DispatchLabels) = {} /\ At(EndLabels) = {} /\ At(RetryLabels) = {} /\ At(FinLabels) = {}
  BY <1>1 DEF DispatchLabels, EndLabels, RetryLabels, FinLabels
<1>4. \A m \in EndMsgs : queue[m] = 0
  BY <1>2, EndMsgsQueued, MsgsDiffer DEF EndMsgs, RetryMsgs
<1>5. DispatchInv
  <2>1. Fresh
    BY <1>2 DEF Init, Fresh
  <2>2. Once(queue, At(DispatchLabels), {DispatchMsg})
    BY <1>2, <1>3, MsgsDiffer DEF Once
  <2> QED BY <2>1, <2>2 DEF DispatchInv
<1>6. ClaimedMeansDone
  BY DEF Init, ClaimedMeansDone
<1>7. ~EndHeld /\ ~RetryHeld /\ ~FinHeld
  BY <1>3, <1>4 DEF EndHeld, RetryHeld, FinHeld, Held, EndMsgs
<1>8. Once(queue, At(EndLabels), EndMsgs) /\ Once(queue, At(RetryLabels), RetryMsgs)
  BY <1>3, <1>4 DEF Once, EndMsgs
<1>9. Orderly
  BY <1>7, <1>8 DEF Init, Orderly, Finished
<1> QED BY <1>5, <1>6, <1>7, <1>8, <1>9 DEF Init, Unretried, SingleRetry

LEMMA StepDispatch == TypeInv /\ TypeInv' /\ DispatchInv /\ [Next]_vars => DispatchInv'
<1> SUFFICES ASSUME TypeInv, TypeInv', DispatchInv, [Next]_vars PROVE DispatchInv'
  OBVIOUS
<1>1. CASE UNCHANGED vars
  BY <1>1 DEF DispatchInv, DispatchHeld, Held, Once, Fresh, At, vars, local
<1> QED BY <1>1, TakeDispatch, StartDispatch, RunDispatch, FaultDispatch DEF Next, Actors

LEMMA StepOrderly ==
  ASSUME DispatchHolds
  PROVE  TypeInv /\ TypeInv' /\ DispatchInv /\ Orderly /\ [Next]_vars => Orderly'
<1> SUFFICES ASSUME TypeInv, TypeInv', DispatchInv, Orderly, [Next]_vars PROVE Orderly'
  OBVIOUS
<1>1. CASE UNCHANGED vars
  BY <1>1 DEF Orderly, EndHeld, Held, Once, At, vars, local
<1> QED BY <1>1, StartOrderly, RunOrderly, FaultOrderly DEF Next, Actors

LEMMA StageInvariant == Spec => [](TypeInv /\ DispatchInv /\ ClaimedMeansDone)
<1>1. Init => DispatchInv /\ ClaimedMeansDone
  BY InitStage
<1>2. TypeInv /\ TypeInv' /\ DispatchInv /\ ClaimedMeansDone /\ [Next]_vars
        => (DispatchInv /\ ClaimedMeansDone)'
  BY StepDispatch, StepClaimed
<1> QED BY <1>1, <1>2, TypeInvariant, PTL DEF Spec

LEMMA OrderlyInvariant ==
  ASSUME DispatchHolds
  PROVE  Spec => []Orderly
<1>1. Init => Orderly
  BY InitStage
<1>2. TypeInv /\ TypeInv' /\ DispatchInv /\ Orderly /\ [Next]_vars => Orderly'
  BY StepOrderly
<1> QED BY <1>1, <1>2, StageInvariant, PTL DEF Spec

-----------------------------------------------------------------------------
(* Where the retry endpoint is not called the dispatch may fail as well.   *)

LEMMA UnretriedQuiet ==
  ASSUME TypeInv, TypeInv', Unretried, NEW a \in Actors, Frame(a), pc'[a] \notin RetryLabels,
         pc'[a] \in FinLabels => pc[a] \in FinLabels \/ job'.claimed,
         \A m \in RetryMsgs : queue'[m] <= queue[m],
         queue'[FinalizeMsg] <= queue[FinalizeMsg] \/ pc[a] \in FinLabels,
         job.claimed => job'.claimed,
         \/ job'.phase = job.phase
         \/ job'.phase \notin {"completed", "completed_with_errors"}
         \/ pc[a] \in FinLabels
  PROVE  Unretried'
<1> USE TypeParts, TypePartsNext
<1>1. ~RetryHeld'
  BY OnceQuiet, MsgsDiffer DEF Unretried, RetryHeld
<1>2. pc[a] \in FinLabels => job'.claimed
  BY DEF Unretried, FinHeld, Held, At
<1>3. ~job'.claimed => (FinHeld' => FinHeld)
  <2> SUFFICES ASSUME ~job'.claimed PROVE FinHeld' => FinHeld
    OBVIOUS
  <2>1. {FinalizeMsg} \in SUBSET QueueMsgs /\ pc'[a] \notin FinLabels
        /\ \A m \in {FinalizeMsg} : queue'[m] <= queue[m]
    BY <1>2, MsgsDiffer
  <2> QED BY <2>1, OnceQuiet DEF FinHeld
<1> QED BY <1>1, <1>2, <1>3 DEF Unretried

LEMMA StepUnretried ==
  ASSUME MaxRequests = 0
  PROVE  TypeInv /\ TypeInv' /\ DispatchInv /\ Unretried /\ [Next]_vars => Unretried'
<1> SUFFICES ASSUME TypeInv, TypeInv', DispatchInv, Unretried, [Next]_vars PROVE Unretried'
  OBVIOUS
<1> USE TypeParts, TypePartsNext DEF ActorInv
<1>0. /\ \A m \in RetryMsgs : queue[m] \in Nat /\ m \in QueueMsgs
      /\ queue[FinalizeMsg] \in Nat /\ FinalizeMsg \in QueueMsgs
  BY MsgsDiffer, QueueNats
<1>1. \A a \in Actors : pc[a] \notin RetryLabels
  BY DEF Unretried, RetryHeld, Held, At
<1>2. ASSUME NEW a \in Actors, RowStep(a) PROVE Unretried'
  <2>1. Frame(a) /\ pc'[a] \notin RetryLabels /\ (pc'[a] \in FinLabels => Claim(a))
    BY <1>2, RowMoves DEF RowStep, FinLabels, RetryLabels
  <2>2. /\ \A m \in RetryMsgs : queue'[m] = queue[m]
        /\ queue'[FinalizeMsg] = queue[FinalizeMsg] \/ pc[a] \in FinLabels
    BY <1>0, <1>2, PublishCounts, MsgsDiffer
    DEF RetryMsgs, RowStep, LoadRow, MatchSucceeds, MatchRetries, MatchExhausted,
        MatchBreaks, Decide, CommitRow, BumpCounters, Settle, Claim, PublishFinalize, FinLabels
  <2>3. /\ job.claimed => job'.claimed
        /\ job'.phase = job.phase
    <3>1. CASE BumpCounters(a)
      <4>1. rec[a].outcome \in {"matched", "no_match", "failed"}
        BY DEF ActorTypes
      <4> QED BY <3>1, <4>1 DEF BumpCounters, DataTypes, JobType
    <3>2. CASE ~BumpCounters(a)
      BY <1>2, <3>2
      DEF RowStep, LoadRow, MatchSucceeds, MatchRetries, MatchExhausted, MatchBreaks, Decide,
          CommitRow, Settle, Claim, PublishFinalize, DataTypes, JobType
    <3> QED BY <3>1, <3>2
  <2>4. pc'[a] \in FinLabels => job'.claimed
    <3> SUFFICES ASSUME pc'[a] \in FinLabels PROVE job'.claimed
      OBVIOUS
    <3>1. Claim(a)
      BY <2>1
    <3>2. ClaimMatches
      BY <3>1, CallWindowFrame DEF Claim, FinLabels
    <3> QED BY <3>1, <3>2 DEF Claim, DataTypes, JobType
  <2> QED BY <1>0, <2>1, <2>2, <2>3, <2>4, UnretriedQuiet
<1>3. ASSUME NEW a \in Actors, WindowStep(a) PROVE Unretried'
  <2>1. /\ Frame(a) /\ pc'[a] \notin RetryLabels /\ pc'[a] \notin FinLabels
    BY <1>3, WindowMoves DEF WindowStep, FinLabels, RetryLabels
  <2>2. /\ job' = job /\ \A m \in RetryMsgs : queue'[m] = queue[m]
        /\ queue'[FinalizeMsg] = queue[FinalizeMsg]
    BY <1>0, <1>3, PublishCounts, MsgsDiffer
    DEF RetryMsgs, WindowStep, SelectWindow, ClaimRows, PublishRow, RowsPublished
  <2> QED BY <1>0, <2>1, <2>2, UnretriedQuiet
<1>4. ASSUME NEW a \in Actors, DispatchStep(a) PROVE Unretried'
  <2>1. /\ queue' = queue /\ job'.claimed = job.claimed
        /\ job'.phase = job.phase \/ job'.phase \in {"syncing", "processing", "failed"}
    BY <1>4 DEF DispatchStep, DispatchLoad, SyncMark, SyncRuns, DispatchMark, DispatchFailed,
                DataTypes, JobType
  <2>2. Frame(a) /\ pc'[a] \notin FinLabels /\ pc'[a] \notin RetryLabels
    <3>1. CASE DispatchMark(a)
      <4>1. Fresh
        BY <3>1, DispatchMoves DEF DispatchInv, DispatchHeld, Held, At, DispatchLabels
      <4>2. Pending # {}
        BY <4>1, ExternalAssumption DEF Fresh, Pending
      <4>3. pc'[a] = "select"
        BY <3>1, <4>2, CallWindowFrame DEF DispatchMark
      <4> QED BY <3>1, <4>3, DispatchMoves DEF FinLabels, RetryLabels
    <3>2. CASE ~DispatchMark(a)
      BY <1>4, <3>2, DispatchMoves DEF DispatchStep, FinLabels, RetryLabels
    <3> QED BY <3>1, <3>2
  <2> QED BY <1>0, <2>1, <2>2, UnretriedQuiet
<1>5. ASSUME NEW a \in Actors, EndStep(a) \/ EndpointStep(a) PROVE Unretried'
  <2>1. FinalizeLoad(a) \/ FinalizeCommit(a)
    BY <1>1, <1>5, EndMoves DEF EndStep, EndpointStep, RetryLabels
  <2>2. Frame(a) /\ pc[a] \in FinLabels /\ pc'[a] \notin RetryLabels
    BY <2>1, EndMoves DEF FinLabels, RetryLabels
  <2>3. queue' = queue /\ job'.claimed = job.claimed
    BY <2>1 DEF FinalizeLoad, FinalizeCommit, DataTypes, JobType
  <2> QED BY <1>0, <2>2, <2>3, UnretriedQuiet
<1>6. ASSUME NEW a \in Actors, TickStep(a) PROVE Unretried'
  <2>1. Frame(a) /\ pc'[a] \notin RetryLabels /\ (pc'[a] \in FinLabels => SweepClaim(a))
    BY <1>6, TickMoves DEF TickStep, FinLabels, RetryLabels
  <2>2. /\ \A m \in RetryMsgs : queue'[m] = queue[m]
        /\ queue'[FinalizeMsg] = queue[FinalizeMsg] \/ pc[a] \in FinLabels
    BY <1>0, <1>6, PublishCounts, MsgsDiffer
    DEF RetryMsgs, TickStep, TickRemaining, SweepSelect, SweepClaim, SweepPublish, TopUp,
        FinLabels
  <2>3. /\ job.claimed => job'.claimed
        /\ job'.phase = job.phase
    BY <1>6 DEF TickStep, TickRemaining, SweepSelect, SweepClaim, SweepPublish, TopUp,
                DataTypes, JobType
  <2>4. pc'[a] \in FinLabels => job'.claimed
    <3> SUFFICES ASSUME pc'[a] \in FinLabels PROVE job'.claimed
      OBVIOUS
    <3>1. SweepClaim(a)
      BY <2>1
    <3>2. ClaimMatches
      BY <3>1 DEF SweepClaim, Goto, ActorTypes, FinLabels
    <3> QED BY <3>1, <3>2 DEF SweepClaim, DataTypes, JobType
  <2> QED BY <1>0, <2>1, <2>2, <2>3, <2>4, UnretriedQuiet
<1>7. ASSUME NEW a \in Actors, Raise(a) \/ Crash(a) PROVE Unretried'
  <2>1. queue' = queue /\ job' = job
    BY <1>7 DEF Raise, RaiseInRow, RaiseAndEnd, RaiseInDispatch, RaiseInSweep, Crash
  <2>2. Frame(a) /\ pc'[a] \notin FinLabels /\ pc'[a] \notin RetryLabels
    BY <1>7, FaultMoves DEF Raise, FinLabels, RetryLabels
  <2> QED BY <1>0, <2>1, <2>2, UnretriedQuiet
<1>8. ASSUME NEW a \in Workers, Take(a) PROVE Unretried'
  <2>1. PICK m \in QueueMsgs : /\ queue[m] > 0 /\ queue' = [queue EXCEPT ![m] = @ - 1]
                               /\ msg' = [msg EXCEPT ![a] = m]
    BY <1>8 DEF Take
  <2>2. a \in Actors /\ msg'[a] = m /\ job' = job
    BY <1>8, <2>1 DEF Actors, ActorTypes, Take
  <2>3. Frame(a) /\ pc'[a] = m.task
    BY <1>8, <2>2, StartMoves
  <2>4. m \notin RetryMsgs
    BY <2>1 DEF Unretried, RetryHeld, Held
  <2>5. pc'[a] \notin RetryLabels /\ (pc'[a] \in FinLabels => m = FinalizeMsg)
    BY <2>3, <2>4, MsgTasks DEF RetryLabels, FinLabels
  <2>6. m = FinalizeMsg => job.claimed
    BY <2>1 DEF Unretried, FinHeld, Held
  <2>7. \A n \in QueueMsgs : queue[n] \in Nat /\ queue'[n] <= queue[n]
    BY <2>1 DEF DataTypes
  <2> QED BY <1>0, <2>2, <2>3, <2>5, <2>6, <2>7, UnretriedQuiet
<1>9. ASSUME NEW a \in Beats, TickStart(a) PROVE Unretried'
  <2>1. a \in Actors /\ Frame(a) /\ pc'[a] = "tick_remaining"
    BY <1>9, StartMoves DEF Actors
  <2> QED BY <1>0, <1>9, <2>1, UnretriedQuiet DEF TickStart, RetryLabels, FinLabels
<1>10. ASSUME NEW a \in Clients, RetryFlip(a) PROVE Unretried'
  BY <1>10 DEF RetryFlip, DataTypes
<1>11. CASE UNCHANGED vars
  BY <1>11 DEF Unretried, RetryHeld, FinHeld, Held, At, vars, local
<1> QED BY <1>2, <1>3, <1>4, <1>5, <1>6, <1>7, <1>8, <1>9, <1>10, <1>11 DEF Next, Run

LEMMA UnretriedInvariant ==
  ASSUME MaxRequests = 0
  PROVE  Spec => []Unretried
<1>1. Init => Unretried
  BY InitStage
<1>2. TypeInv /\ TypeInv' /\ DispatchInv /\ Unretried /\ [Next]_vars => Unretried'
  BY StepUnretried
<1> QED BY <1>1, <1>2, StageInvariant, PTL DEF Spec

(* A job is not finished while a row is pending or running, whoever won    *)
(* the claim and whatever failed, provided that either the dispatch of the *)
(* job does not break off (it may then be reopened any number of times) or *)
(* the job is never reopened.                                              *)
THEOREM FinishedMeansDoneHolds ==
  ASSUME DispatchHolds \/ MaxRequests = 0
  PROVE  Spec => []FinishedMeansDone
<1>1. CASE DispatchHolds
  <2>1. ClaimedMeansDone /\ Orderly => FinishedMeansDone
    BY DEF ClaimedMeansDone, Orderly, FinishedMeansDone, NoRowsOutstanding, Outstanding, Finished
  <2>2. Spec => []Orderly
    BY <1>1, OrderlyInvariant
  <2> QED BY <2>1, <2>2, StageInvariant, PTL
<1>2. CASE MaxRequests = 0
  <2>1. ClaimedMeansDone /\ Unretried => FinishedMeansDone
    BY DEF ClaimedMeansDone, Unretried, FinishedMeansDone, NoRowsOutstanding, Outstanding
  <2>2. Spec => []Unretried
    BY <1>2, UnretriedInvariant
  <2> QED BY <2>1, <2>2, StageInvariant, PTL
<1> QED BY <1>1, <1>2

-----------------------------------------------------------------------------
(* One retry call at most: its message and task exist once.                *)

LEMMA SingleRetryQuiet ==
  ASSUME TypeInv, TypeInv', SingleRetry, NEW a \in Actors, Frame(a),
         pc'[a] \notin RetryLabels \/ pc[a] \in RetryLabels,
         \A m \in RetryMsgs : queue'[m] <= queue[m], requests' = requests
  PROVE  SingleRetry'
<1> USE TypeParts, TypePartsNext
<1>1. RetryUnique' /\ (RetryHeld' => RetryHeld)
  BY OnceQuiet, MsgsDiffer DEF SingleRetry, RetryHeld, RetryUnique
<1> QED BY <1>1 DEF SingleRetry, RetryUnique

LEMMA StepSingleRetry ==
  ASSUME MaxRequests <= 1
  PROVE  TypeInv /\ TypeInv' /\ SingleRetry /\ [Next]_vars => SingleRetry'
<1> SUFFICES ASSUME TypeInv, TypeInv', SingleRetry, [Next]_vars PROVE SingleRetry'
  OBVIOUS
<1> USE TypeParts, TypePartsNext DEF ActorInv
<1>0. /\ \A m \in RetryMsgs : queue[m] \in Nat /\ m \in QueueMsgs
      /\ RetryMsgs \in SUBSET QueueMsgs
  BY MsgsDiffer, QueueNats
<1>1. ASSUME NEW a \in Actors, RowStep(a) \/ WindowStep(a) \/ DispatchStep(a) \/ TickStep(a)
      PROVE  SingleRetry'
  <2>1. Frame(a) /\ pc'[a] \notin RetryLabels
    BY <1>1, RowMoves, WindowMoves, DispatchMoves, TickMoves
    DEF RowStep, WindowStep, DispatchStep, TickStep, RetryLabels
  <2>2. requests' = requests /\ \A m \in RetryMsgs : queue'[m] = queue[m]
    <3>1. CASE RowStep(a)
      BY <1>0, <3>1, PublishCounts, MsgsDiffer
      DEF RetryMsgs, RowStep, LoadRow, MatchSucceeds, MatchRetries, MatchExhausted,
          MatchBreaks, Decide, CommitRow, BumpCounters, Settle, Claim, PublishFinalize
    <3>2. CASE WindowStep(a) \/ TickStep(a)
      BY <1>0, <3>2, PublishCounts, MsgsDiffer
      DEF RetryMsgs, WindowStep, SelectWindow, ClaimRows, PublishRow, RowsPublished,
          TickStep, TickRemaining, SweepSelect, SweepClaim, SweepPublish, TopUp
    <3>3. CASE DispatchStep(a)
      BY <3>3 DEF DispatchStep, DispatchLoad, SyncMark, SyncRuns, DispatchMark, DispatchFailed
    <3> QED BY <1>1, <3>1, <3>2, <3>3
  <2> QED BY <1>0, <2>1, <2>2, SingleRetryQuiet
<1>2. ASSUME NEW a \in Actors, EndStep(a) \/ EndpointStep(a) PROVE SingleRetry'
  <2>1. Frame(a) /\ requests' = requests
    BY <1>2, EndMoves
    DEF EndStep, EndpointStep, FinalizeLoad, FinalizeCommit, RetrySelect, RetryReopen,
        RetryQueued, RetryNothing
  <2>2. CASE RetryQueued(a)
    <3>1. pc[a] \in RetryLabels /\ pc'[a] \notin RetryLabels
      BY <2>2, EndMoves DEF RetryLabels
    <3>2. Once(queue', At(RetryLabels)', RetryMsgs) /\ RetryHeld
      BY <1>0, <2>1, <2>2, <3>1, OnceGive DEF SingleRetry, RetryHeld, RetryQueued
    <3> QED BY <2>1, <3>2 DEF SingleRetry
  <2>3. CASE ~RetryQueued(a)
    <3>1. pc'[a] \notin RetryLabels \/ pc[a] \in RetryLabels
      BY <1>2, EndMoves DEF EndStep, EndpointStep, RetryLabels
    <3>2. queue' = queue
      BY <1>2, <2>3
      DEF EndStep, EndpointStep, FinalizeLoad, FinalizeCommit, RetrySelect, RetryReopen,
          RetryNothing
    <3> QED BY <1>0, <2>1, <3>1, <3>2, SingleRetryQuiet
  <2> QED BY <2>2, <2>3
<1>3. ASSUME NEW a \in Actors, Raise(a) \/ Crash(a) PROVE SingleRetry'
  <2>1. queue' = queue /\ requests' = requests
    BY <1>3 DEF Raise, RaiseInRow, RaiseAndEnd, RaiseInDispatch, RaiseInSweep, Crash
  <2>2. Frame(a) /\ pc'[a] \notin RetryLabels
    BY <1>3, FaultMoves DEF Raise, RetryLabels
  <2> QED BY <1>0, <2>1, <2>2, SingleRetryQuiet
<1>4. ASSUME NEW a \in Workers, Take(a) PROVE SingleRetry'
  <2>1. PICK m \in QueueMsgs : /\ queue[m] > 0 /\ queue' = [queue EXCEPT ![m] = @ - 1]
                               /\ msg' = [msg EXCEPT ![a] = m]
    BY <1>4 DEF Take
  <2>2. a \in Actors /\ msg'[a] = m /\ requests' = requests
    BY <1>4, <2>1 DEF Actors, ActorTypes, Take
  <2>3. Frame(a) /\ pc'[a] = m.task
    BY <1>4, <2>2, StartMoves
  <2>4. CASE m \in RetryMsgs
    <3>1. Once(queue', At(RetryLabels)', RetryMsgs) /\ RetryHeld
      BY <1>0, <2>1, <2>2, <2>3, <2>4, OnceTake DEF SingleRetry, RetryHeld
    <3> QED BY <2>2, <3>1 DEF SingleRetry
  <2>5. CASE m \notin RetryMsgs
    <3>1. pc'[a] \notin RetryLabels
      BY <2>3, <2>5, MsgTasks DEF RetryLabels
    <3>2. \A n \in RetryMsgs : queue'[n] <= queue[n]
      BY <1>0, <2>1, <2>5 DEF DataTypes
    <3> QED BY <2>2, <2>3, <3>1, <3>2, SingleRetryQuiet
  <2> QED BY <2>4, <2>5
<1>5. ASSUME NEW a \in Beats, TickStart(a) PROVE SingleRetry'
  <2>1. a \in Actors /\ Frame(a) /\ pc'[a] \notin RetryLabels
    BY <1>5, StartMoves DEF Actors, RetryLabels
  <2> QED BY <1>0, <1>5, <2>1, SingleRetryQuiet DEF TickStart
<1>6. ASSUME NEW a \in Clients, RetryFlip(a) PROVE SingleRetry'
  <2>1. a \in Actors /\ Frame(a) /\ queue' = queue
    BY <1>6, StartMoves DEF Actors, RetryFlip
  <2>2. requests = 0 /\ requests' = 1
    BY <1>6, ExternalAssumption DEF RetryFlip, DataTypes
  <2>3. ~RetryHeld
    BY <2>2 DEF SingleRetry
  <2> QED BY <1>0, <2>1, <2>2, <2>3, OnceMake DEF SingleRetry, RetryHeld
<1>7. CASE UNCHANGED vars
  BY <1>7 DEF SingleRetry, RetryHeld, Held, Once, At, vars, local
<1> QED BY <1>1, <1>2, <1>3, <1>4, <1>5, <1>6, <1>7 DEF Next, Run

(* Retries never overlap when a job is reopened only after it ended, or    *)
(* when it is reopened at most once.                                       *)
LEMMA RetryUniqueInvariant ==
  ASSUME DispatchHolds \/ MaxRequests <= 1
  PROVE  Spec => []RetryUnique
<1>1. CASE DispatchHolds
  <2>1. Orderly => RetryUnique
    BY DEF Orderly, RetryUnique, Once, At, EndLabels, EndMsgs
  <2>2. Spec => []Orderly
    BY <1>1, OrderlyInvariant
  <2> QED BY <2>1, <2>2, PTL
<1>2. CASE MaxRequests <= 1
  <2>1. Init => SingleRetry
    BY InitStage
  <2>2. TypeInv /\ TypeInv' /\ SingleRetry /\ [Next]_vars => SingleRetry'
    BY <1>2, StepSingleRetry
  <2>3. SingleRetry => RetryUnique
    BY DEF SingleRetry, RetryUnique
  <2> QED BY <2>1, <2>2, <2>3, TypeInvariant, PTL DEF Spec
<1> QED BY <1>1, <1>2

-----------------------------------------------------------------------------
(* A row that is dispatched has one message, task or claimer, the others   *)
(* have none.                                                              *)

LEMMA RowMsgFacts ==
  /\ \A r \in Rows : \A m \in RowMsgs(r) : m.row = r /\ m \in QueueMsgs
  /\ \A r, s \in Rows : \A k : RowMsg(r, k) \in RowMsgs(s) => r = s
  /\ \A r \in Rows : \A m \in RowMsgs(r) :
        m.tries < MaxAttempts - 1 => RowMsg(r, m.tries + 1) \in RowMsgs(r)
  /\ \A r \in Rows : RowMsg(r, 0) \in RowMsgs(r)
  /\ \A r \in Rows : \A m \in RowMsgs(r) :
        m # DispatchMsg /\ m # FinalizeMsg /\ \A S : m # RetryMsg(S)
<1>1. \A r : \A k : RowMsg(r, k).row = r /\ RowMsg(r, k).tries = k /\ RowMsg(r, k).task = "row"
  BY DEF RowMsg
<1>2. \A r \in Rows : \A m \in RowMsgs(r) :
        \E k \in 0 .. MaxAttempts - 1 : m = RowMsg(r, k)
  BY DEF RowMsgs
<1>3. \A r \in Rows : \A k \in 0 .. MaxAttempts - 1 : RowMsg(r, k) \in RowMsgs(r)
  BY DEF RowMsgs
<1>4. \A r \in Rows : RowMsg(r, 0) \in RowMsgs(r)
  BY <1>3, ExternalAssumption
<1>5. ASSUME NEW r \in Rows, NEW m \in RowMsgs(r), m.tries < MaxAttempts - 1
      PROVE  RowMsg(r, m.tries + 1) \in RowMsgs(r)
  <2>1. PICK k \in 0 .. MaxAttempts - 1 : m = RowMsg(r, k)
    BY <1>2
  <2>2. m.tries = k
    BY <1>1, <2>1
  <2> QED BY <1>3, <1>5, <2>2, ExternalAssumption
<1>6. DispatchMsg.task = "dispatch" /\ FinalizeMsg.task = "finalize"
      /\ \A S : RetryMsg(S).task = "retry"
  BY DEF DispatchMsg, FinalizeMsg, RetryMsg
<1>7. \A r \in Rows : \A m \in RowMsgs(r) : m.row = r /\ m.task = "row"
  BY <1>1, <1>2
<1>8. \A r \in Rows : \A m \in RowMsgs(r) : m \in QueueMsgs
  BY <1>2 DEF QueueMsgs
<1>9. \A r, s \in Rows : \A k : RowMsg(r, k) \in RowMsgs(s) => r = s
  BY <1>1, <1>7
<1>10. \A r \in Rows : \A m \in RowMsgs(r) :
         m # DispatchMsg /\ m # FinalizeMsg /\ \A S : m # RetryMsg(S)
  BY <1>6, <1>7
<1> QED BY <1>4, <1>5, <1>7, <1>8, <1>9, <1>10

LEMMA HoldersFrame ==
  ASSUME NEW a \in Actors, Frame(a), NEW r
  PROVE  /\ RowHolders(r)' \subseteq RowHolders(r) \cup {a}
         /\ a \notin RowHolders(r)' => RowHolders(r)' \subseteq RowHolders(r) \ {a}
  BY DEF Frame, RowHolders

LEMMA MsgsQuiet ==
  ASSUME TokenMsgs, NEW a \in Actors, Frame(a),
         pc'[a] \in {"row", "match", "commit", "bump"} => \E r \in Rows : msg'[a] \in RowMsgs(r)
  PROVE  TokenMsgs'
  BY DEF TokenMsgs, Frame

LEMMA ReopenQuiet ==
  ASSUME ActorTypes, TokenReopen, NEW a \in Actors, Frame(a), pc'[a] # "reopen",
         \A r \in Rows : row[r].status = "failed" => row'[r].status = "failed"
  PROVE  TokenReopen'
<1>1. ASSUME NEW b \in Actors, pc'[b] = "reopen", NEW r \in want'[b].rows
      PROVE  row'[r].status = "failed"
  <2>1. b # a /\ pc[b] = "reopen" /\ r \in want[b].rows
    BY <1>1 DEF Frame
  <2>2. r \in Rows
    BY <2>1 DEF ActorTypes, WantType
  <2> QED BY <2>1, <2>2 DEF TokenReopen
<1> QED BY <1>1 DEF TokenReopen

LEMMA RowQuiet ==
  ASSUME DataTypes, DataTypes', NEW r \in Rows, TokenRow(r), NEW a \in Actors, Frame(a),
         a \in RowHolders(r)' => a \in RowHolders(r),
         \A m \in RowMsgs(r) : queue'[m] <= queue[m],
         RowHeld(r) => row'[r].status = row[r].status
  PROVE  TokenRow(r)'
<1>1. RowHolders(r)' \subseteq RowHolders(r)
  BY HoldersFrame
<1>2. \A m \in RowMsgs(r) : queue[m] \in Nat /\ queue'[m] \in Nat
  BY RowMsgFacts DEF DataTypes
<1>3. Once(queue', RowHolders(r)', RowMsgs(r))
  BY <1>1, <1>2, OnceDrops DEF TokenRow
<1>4. RowHeld(r)' => RowHeld(r)
  BY <1>1, <1>2, HeldDrops DEF RowHeld
<1> QED BY <1>3, <1>4 DEF TokenRow

LEMMA RowGive ==
  ASSUME DataTypes, NEW r \in Rows, TokenRow(r), NEW a \in RowHolders(r), Frame(a),
         a \notin RowHolders(r)', NEW m, Publish(m), row' = row
  PROVE  TokenRow(r)'
<1>1. RowHolders(r)' \subseteq RowHolders(r) \ {a}
  BY HoldersFrame DEF RowHolders
<1>2. \A n \in RowMsgs(r) : queue[n] \in Nat /\ queue'[n] = IF n = m THEN queue[n] + 1 ELSE queue[n]
  BY RowMsgFacts, PublishCounts DEF DataTypes
<1>3. Once(queue', RowHolders(r)', RowMsgs(r))
  BY <1>1, <1>2, OnceGiven DEF TokenRow
<1>4. row[r].status = "dispatched"
  BY DEF TokenRow, RowHeld, Held
<1> QED BY <1>3, <1>4 DEF TokenRow

LEMMA RowTake ==
  ASSUME DataTypes, NEW r \in Rows, TokenRow(r), NEW a \in Actors, Frame(a),
         NEW m \in RowMsgs(r), queue[m] > 0, queue' = [queue EXCEPT ![m] = @ - 1], row' = row
  PROVE  TokenRow(r)'
<1>1. RowHolders(r)' \subseteq RowHolders(r) \cup {a}
  BY HoldersFrame
<1>2. \A n \in RowMsgs(r) : queue[n] \in Nat /\ queue'[n] = IF n = m THEN queue[n] - 1 ELSE queue[n]
  BY RowMsgFacts DEF DataTypes
<1>3. Once(queue', RowHolders(r)', RowMsgs(r))
  BY <1>1, <1>2, OnceTaken DEF TokenRow
<1>4. row[r].status = "dispatched"
  BY DEF TokenRow, RowHeld, Held
<1> QED BY <1>3, <1>4 DEF TokenRow

LEMMA RowEnd ==
  ASSUME NEW r \in Rows, TokenRow(r), NEW a \in RowHolders(r), Frame(a),
         a \notin RowHolders(r)', queue' = queue, DataTypes
  PROVE  TokenRow(r)'
<1>1. RowHolders(r)' \subseteq RowHolders(r) \ {a}
  BY HoldersFrame DEF RowHolders
<1>2. RowHolders(r)' = {} /\ \A n \in RowMsgs(r) : queue'[n] = 0
  BY <1>1 DEF TokenRow, Once
<1> QED BY <1>2 DEF TokenRow, RowHeld, Held, Once

LEMMA RowMake ==
  ASSUME DataTypes, NEW r \in Rows, TokenRow(r), NEW a \in Actors, Frame(a), queue' = queue,
         row[r].status # "dispatched", row'[r].status = "dispatched"
  PROVE  TokenRow(r)'
<1>1. ~RowHeld(r) /\ RowHolders(r)' \subseteq RowHolders(r) \cup {a}
  BY HoldersFrame DEF TokenRow
<1>2. \A n \in RowMsgs(r) : queue[n] \in Nat
  BY RowMsgFacts DEF DataTypes
<1>3. Once(queue', RowHolders(r)', RowMsgs(r))
  BY <1>1, <1>2, OnceMade DEF RowHeld
<1> QED BY <1>3 DEF TokenRow

(* A step that neither moves a row's copy nor its status.                  *)
LEMMA TokenQuiet ==
  ASSUME TypeInv, TypeInv', TokenInv, NEW a \in Actors, Frame(a),
         \A r \in Rows : a \in RowHolders(r)' => a \in RowHolders(r),
         \A r \in Rows : \A m \in RowMsgs(r) : queue'[m] <= queue[m],
         row' = row,
         pc'[a] \in {"row", "match", "commit", "bump"} => \E r \in Rows : msg'[a] \in RowMsgs(r),
         pc'[a] # "reopen"
  PROVE  TokenInv'
<1> USE TypeParts, TypePartsNext DEF ActorInv
<1>1. TokenMsgs' /\ TokenReopen'
  BY MsgsQuiet, ReopenQuiet DEF TokenInv
<1>2. ASSUME NEW r \in Rows PROVE TokenRow(r)'
  BY RowQuiet DEF TokenInv
<1> QED BY <1>1, <1>2 DEF TokenInv

LEMMA QueueSame ==
  ASSUME DataTypes, NEW r \in Rows, queue' = queue
  PROVE  \A m \in RowMsgs(r) : queue'[m] <= queue[m]
  BY RowMsgFacts DEF DataTypes

LEMMA QueueOther ==
  ASSUME DataTypes, NEW r \in Rows, NEW m, Publish(m), m \notin RowMsgs(r)
  PROVE  \A n \in RowMsgs(r) : queue'[n] <= queue[n]
  BY RowMsgFacts, PublishCounts DEF DataTypes

LEMMA TokenAway ==
  ASSUME TypeInv, TypeInv', TokenInv, NEW a \in Actors, Frame(a),
         pc'[a] \notin {"row", "match", "commit", "bump", "publish_rows", "reopen"}, row' = row,
         queue' = queue \/ Publish(FinalizeMsg) \/ \E S : Publish(RetryMsg(S))
  PROVE  TokenInv'
<1>1. \A r \in Rows : a \notin RowHolders(r)'
  BY DEF RowHolders
<1>2. ASSUME NEW r \in Rows PROVE \A m \in RowMsgs(r) : queue'[m] <= queue[m]
  <2>1. FinalizeMsg \notin RowMsgs(r) /\ \A S : RetryMsg(S) \notin RowMsgs(r)
    BY RowMsgFacts
  <2> QED BY <2>1, QueueSame, QueueOther, TypeParts
<1> QED BY <1>1, <1>2, TokenQuiet

(* A worker at one of the labels of a row has one of its messages.         *)
LEMMA RowInHand ==
  ASSUME TokenInv, NEW a \in Actors, pc[a] \in {"row", "match", "commit", "bump"}
  PROVE  /\ msg[a].row \in Rows /\ msg[a] \in RowMsgs(msg[a].row)
         /\ pc[a] # "bump" => a \in RowHolders(msg[a].row)
<1>1. PICK r \in Rows : msg[a] \in RowMsgs(r)
  BY DEF TokenInv, TokenMsgs
<1>2. msg[a].row = r
  BY <1>1, RowMsgFacts
<1> QED BY <1>1, <1>2 DEF RowHolders

(* The row goes on in the same worker.                                     *)
LEMMA TokenStays ==
  ASSUME TypeInv, TypeInv', TokenInv, NEW a \in Actors, Frame(a),
         pc[a] \in {"row", "match", "commit"}, pc'[a] \in {"match", "commit"},
         msg' = msg, row' = row, queue' = queue
  PROVE  TokenInv'
<1>1. \A r \in Rows : a \in RowHolders(r)' => a \in RowHolders(r)
  BY DEF RowHolders
<1>2. \E r \in Rows : msg'[a] \in RowMsgs(r)
  BY RowInHand
<1>3. \A r \in Rows : \A m \in RowMsgs(r) : queue'[m] <= queue[m]
  BY QueueSame, TypeParts
<1> QED BY <1>1, <1>2, <1>3, TokenQuiet

LEMMA TokenMatchRetries ==
  ASSUME TypeInv, TypeInv', TokenInv, NEW a \in Actors, MatchRetries(a)
  PROVE  TokenInv'
<1> USE TypeParts, TypePartsNext DEF ActorInv
<1>0. PICK r, m : r = msg[a].row /\ m = RowMsg(msg[a].row, msg[a].tries + 1)
  OBVIOUS
<1>1. Frame(a) /\ pc[a] = "match" /\ pc'[a] = "idle"
  BY RowMoves
<1>2. Publish(m) /\ row' = row /\ msg[a].tries < MaxAttempts - 1
  BY <1>0 DEF MatchRetries
<1>3. r \in Rows /\ msg[a] \in RowMsgs(r) /\ a \in RowHolders(r)
  BY <1>0, <1>1, RowInHand
<1>4. m \in RowMsgs(r) /\ \A s \in Rows \ {r} : m \notin RowMsgs(s)
  BY <1>0, <1>2, <1>3, RowMsgFacts
<1>5. TokenMsgs' /\ TokenReopen'
  BY <1>1, <1>2, MsgsQuiet, ReopenQuiet DEF TokenInv
<1>6. \A s \in Rows : a \notin RowHolders(s)'
  BY <1>1 DEF RowHolders
<1>7. TokenRow(r)'
  BY <1>1, <1>2, <1>3, <1>6, RowGive DEF TokenInv
<1>8. ASSUME NEW s \in Rows \ {r} PROVE TokenRow(s)'
  <2>1. \A n \in RowMsgs(s) : queue'[n] <= queue[n]
    BY <1>2, <1>4, QueueOther
  <2> QED BY <1>1, <1>2, <1>6, <2>1, RowQuiet DEF TokenInv
<1> QED BY <1>5, <1>7, <1>8 DEF TokenInv

LEMMA TokenCommitRow ==
  ASSUME TypeInv, TypeInv', TokenInv, NEW a \in Actors, CommitRow(a)
  PROVE  TokenInv'
<1> USE TypeParts, TypePartsNext DEF ActorInv
<1>0. PICK r : r = msg[a].row
  OBVIOUS
<1>1. Frame(a) /\ pc[a] = "commit" /\ pc'[a] = "bump"
  BY RowMoves
<1>2. queue' = queue /\ msg' = msg
  BY LocalSame DEF CommitRow
<1>3. r \in Rows /\ msg[a] \in RowMsgs(r) /\ a \in RowHolders(r)
  BY <1>0, <1>1, RowInHand
<1>4. \A s \in Rows \ {r} : row'[s] = row[s]
  BY <1>0 DEF CommitRow, DataTypes
<1>5. row[r].status = "dispatched"
  BY <1>3 DEF TokenInv, TokenRow, RowHeld, Held
<1>6. TokenMsgs' /\ TokenReopen'
  BY <1>1, <1>2, <1>3, <1>4, <1>5, MsgsQuiet, ReopenQuiet DEF TokenInv
<1>7. \A s \in Rows : a \notin RowHolders(s)'
  BY <1>1 DEF RowHolders
<1>8. TokenRow(r)'
  BY <1>1, <1>2, <1>3, <1>7, RowEnd DEF TokenInv
<1>9. ASSUME NEW s \in Rows \ {r} PROVE TokenRow(s)'
  BY <1>1, <1>2, <1>4, <1>7, QueueSame, RowQuiet DEF TokenInv
<1> QED BY <1>6, <1>8, <1>9 DEF TokenInv

LEMMA TokenClaimRows ==
  ASSUME TypeInv, TypeInv', TokenInv, NEW a \in Actors, ClaimRows(a)
  PROVE  TokenInv'
<1> USE TypeParts, TypePartsNext DEF ActorInv
<1>1. Frame(a) /\ pc[a] = "claim_rows" /\ pc'[a] = "publish_rows"
  BY WindowMoves
<1>2. want'[a].rows = Won(want[a].rows) /\ queue' = queue
  BY DEF ClaimRows, ActorTypes, WantType
<1>3. \A r \in Rows : row'[r] = IF r \in Won(want[a].rows)
                                 THEN [row[r] EXCEPT !.status = "dispatched"] ELSE row[r]
  BY DEF ClaimRows
<1>4. \A r \in Won(want[a].rows) : r \in Rows /\ row[r].status = "pending"
  BY DEF Won, Pending
<1>5. TokenMsgs' /\ TokenReopen'
  BY <1>1, <1>3, <1>4, MsgsQuiet, ReopenQuiet DEF TokenInv
<1>6. ASSUME NEW r \in Won(want[a].rows) PROVE TokenRow(r)'
  <2>1. r \in Rows /\ row[r].status # "dispatched" /\ row'[r].status = "dispatched"
    BY <1>3, <1>4 DEF DataTypes
  <2> QED BY <1>1, <1>2, <2>1, RowMake DEF TokenInv
<1>7. ASSUME NEW r \in Rows \ Won(want[a].rows) PROVE TokenRow(r)'
  <2>1. a \notin RowHolders(r)' /\ row'[r] = row[r]
    BY <1>1, <1>2, <1>3 DEF RowHolders
  <2> QED BY <1>1, <1>2, <2>1, QueueSame, RowQuiet DEF TokenInv
<1> QED BY <1>5, <1>6, <1>7 DEF TokenInv

LEMMA TokenPublishRow ==
  ASSUME TypeInv, TypeInv', TokenInv, NEW a \in Actors, PublishRow(a)
  PROVE  TokenInv'
<1> USE TypeParts, TypePartsNext DEF ActorInv
<1>1. Frame(a) /\ pc[a] = "publish_rows" /\ pc'[a] = "publish_rows" /\ row' = row
  BY WindowMoves DEF PublishRow
<1>2. PICK r \in want[a].rows :
        /\ Publish(RowMsg(r, 0))
        /\ want' = [want EXCEPT ![a] = [want[a] EXCEPT !.rows = want[a].rows \ {r}]]
  BY DEF PublishRow
<1>3. r \in Rows /\ want'[a].rows = want[a].rows \ {r}
  BY <1>2 DEF ActorTypes, WantType
<1>4. \A s \in Rows \ {r} : RowMsg(r, 0) \notin RowMsgs(s)
  BY <1>3, RowMsgFacts
<1>5. TokenMsgs' /\ TokenReopen'
  BY <1>1, MsgsQuiet, ReopenQuiet DEF TokenInv
<1>6. TokenRow(r)'
  <2>1. a \in RowHolders(r) /\ a \notin RowHolders(r)'
    BY <1>1, <1>3 DEF RowHolders
  <2> QED BY <1>1, <1>2, <1>3, <2>1, RowGive DEF TokenInv
<1>7. ASSUME NEW s \in Rows \ {r} PROVE TokenRow(s)'
  <2>1. a \in RowHolders(s)' => a \in RowHolders(s)
    BY <1>1, <1>3 DEF RowHolders
  <2>2. \A n \in RowMsgs(s) : queue'[n] <= queue[n]
    BY <1>2, <1>4, QueueOther
  <2> QED BY <1>1, <2>1, <2>2, RowQuiet DEF TokenInv
<1> QED BY <1>5, <1>6, <1>7 DEF TokenInv

LEMMA TokenTake ==
  ASSUME TypeInv, TypeInv', TokenInv, NEW a \in Actors, Take(a)
  PROVE  TokenInv'
<1> USE TypeParts, TypePartsNext DEF ActorInv
<1>1. PICK m \in QueueMsgs : /\ queue[m] > 0 /\ queue' = [queue EXCEPT ![m] = @ - 1]
                             /\ msg' = [msg EXCEPT ![a] = m]
  BY DEF Take
<1>2. msg'[a] = m /\ row' = row
  BY <1>1 DEF ActorTypes, Take
<1>3. Frame(a) /\ pc'[a] = m.task
  BY <1>2, StartMoves
<1>4. \A s \in Rows : \A n \in RowMsgs(s) : n # m => queue'[n] <= queue[n]
  BY <1>1, RowMsgFacts DEF DataTypes
<1>5. CASE \E r \in Rows : m \in RowMsgs(r)
  <2>1. PICK r \in Rows : m \in RowMsgs(r)
    BY <1>5
  <2>2. m.row = r /\ pc'[a] = "row"
    <3>1. m.row = r /\ m # DispatchMsg /\ m # FinalizeMsg /\ m \notin RetryMsgs
      BY <2>1, RowMsgFacts DEF RetryMsgs
    <3> QED BY <1>3, <3>1, MsgTasks
  <2>3. TokenMsgs' /\ TokenReopen'
    BY <1>2, <1>3, <2>1, <2>2, MsgsQuiet, ReopenQuiet DEF TokenInv
  <2>4. TokenRow(r)'
    BY <1>1, <1>2, <1>3, <2>1, RowTake DEF TokenInv
  <2>5. ASSUME NEW s \in Rows \ {r} PROVE TokenRow(s)'
    <3>1. a \notin RowHolders(s)' /\ m \notin RowMsgs(s)
      BY <1>2, <2>1, <2>2, RowMsgFacts DEF RowHolders
    <3> QED BY <1>2, <1>3, <1>4, <3>1, RowQuiet DEF TokenInv
  <2> QED BY <2>3, <2>4, <2>5 DEF TokenInv
<1>6. CASE ~\E r \in Rows : m \in RowMsgs(r)
  <2>1. pc'[a] \notin {"row", "match", "commit", "bump", "publish_rows", "reopen"}
    BY <1>3, <1>6, MsgTasks
  <2>2. \A r \in Rows : a \notin RowHolders(r)'
    BY <2>1 DEF RowHolders
  <2> QED BY <1>2, <1>3, <1>4, <1>6, <2>1, <2>2, TokenQuiet
<1> QED BY <1>5, <1>6

LEMMA TokenRetryReopen ==
  ASSUME TypeInv, TypeInv', TokenInv, RetryUnique, NEW a \in Actors, RetryReopen(a)
  PROVE  TokenInv'
<1> USE TypeParts, TypePartsNext DEF ActorInv
<1>1. Frame(a) /\ pc[a] = "reopen" /\ pc'[a] = "select" /\ queue' = queue
  BY EndMoves DEF RetryReopen
<1>2. \A r \in Rows : row'[r] = IF r \in want[a].rows
                                 THEN [row[r] EXCEPT !.status = "pending"] ELSE row[r]
  BY DEF RetryReopen
<1>3. \A r \in want[a].rows : row[r].status = "failed"
  BY <1>1 DEF TokenInv, TokenReopen
<1>4. TokenMsgs'
  BY <1>1, MsgsQuiet DEF TokenInv
<1>5. TokenReopen'
  <2>1. \A b \in Actors : pc'[b] # "reopen"
    BY <1>1 DEF RetryUnique, Once, At, RetryLabels, Frame
  <2> QED BY <2>1 DEF TokenReopen
<1>6. ASSUME NEW r \in Rows PROVE TokenRow(r)'
  <2>1. a \notin RowHolders(r)'
    BY <1>1 DEF RowHolders
  <2>2. RowHeld(r) => row'[r].status = row[r].status
    BY <1>2, <1>3 DEF TokenInv, TokenRow
  <2> QED BY <1>1, <2>1, <2>2, QueueSame, RowQuiet DEF TokenInv
<1> QED BY <1>4, <1>5, <1>6 DEF TokenInv

LEMMA TokenRetrySelect ==
  ASSUME TypeInv, TypeInv', TokenInv, NEW a \in Actors, RetrySelect(a)
  PROVE  TokenInv'
<1> USE TypeParts, TypePartsNext DEF ActorInv
<1>1. Frame(a) /\ pc'[a] \in {"idle", "reopen"} /\ queue' = queue /\ row' = row
  BY EndMoves DEF RetrySelect
<1>2. pc'[a] = "reopen" => want'[a].rows = Retryable(msg[a].rows)
  BY DEF RetrySelect, Release, Goto, ActorTypes, WantType
<1>3. TokenMsgs'
  BY <1>1, MsgsQuiet DEF TokenInv
<1>4. TokenReopen'
  BY <1>1, <1>2 DEF TokenInv, TokenReopen, Retryable, Frame
<1>5. ASSUME NEW r \in Rows PROVE TokenRow(r)'
  <2>1. a \notin RowHolders(r)'
    BY <1>1 DEF RowHolders
  <2> QED BY <1>1, <2>1, QueueSame, RowQuiet DEF TokenInv
<1> QED BY <1>3, <1>4, <1>5 DEF TokenInv

LEMMA TokenRun ==
  ASSUME TypeInv, TypeInv', TokenInv, RetryUnique, NEW a \in Actors, Run(a)
  PROVE  TokenInv'
<1> USE TypeParts, TypePartsNext DEF ActorInv
<1>1. CASE \/ MatchRetries(a) \/ CommitRow(a) \/ ClaimRows(a) \/ PublishRow(a)
           \/ RetryReopen(a) \/ RetrySelect(a)
  BY <1>1, TokenMatchRetries, TokenCommitRow, TokenClaimRows, TokenPublishRow,
     TokenRetryReopen, TokenRetrySelect
<1>2. CASE LoadRow(a) \/ MatchSucceeds(a) \/ MatchExhausted(a) \/ MatchBreaks(a)
  <2>1. Frame(a) /\ pc[a] \in {"row", "match", "commit"} /\ pc'[a] \in {"match", "commit"}
    BY <1>2, RowMoves
  <2>2. msg' = msg /\ row' = row /\ queue' = queue
    BY <1>2 DEF LoadRow, MatchSucceeds, MatchExhausted, MatchBreaks, Decide
  <2> QED BY <2>1, <2>2, TokenStays
<1>3. CASE BumpCounters(a) \/ Settle(a) \/ Claim(a) \/ PublishFinalize(a)
  <2>1. Frame(a) /\ pc'[a] \in {"settle", "claim", "select", "publish_finalize", "idle"}
    BY <1>3, RowMoves
  <2>2. row' = row /\ (queue' = queue \/ Publish(FinalizeMsg))
    BY <1>3 DEF BumpCounters, Settle, Claim, PublishFinalize
  <2> QED BY <2>1, <2>2, TokenAway
<1>4. CASE RowsPublished(a)
  <2>1. Frame(a) /\ pc'[a] \in {"idle", "select"} /\ row' = row /\ queue' = queue
    BY <1>4, WindowMoves DEF RowsPublished
  <2> QED BY <2>1, TokenAway
<1>5. CASE SelectWindow(a)
  <2>1. Frame(a) /\ pc'[a] \in {"idle", "select", "claim_rows"} /\ row' = row /\ queue' = queue
    BY <1>5, WindowMoves DEF SelectWindow
  <2> QED BY <2>1, TokenAway
<1>6. CASE DispatchStep(a)
  <2>1. Frame(a) /\ pc'[a] \in {"sync_mark", "d_mark", "sync", "publish_finalize", "select", "idle"}
    BY <1>6, DispatchMoves DEF DispatchStep
  <2>2. row' = row /\ queue' = queue
    BY <1>6 DEF DispatchStep, DispatchLoad, SyncMark, SyncRuns, DispatchMark, DispatchFailed
  <2> QED BY <2>1, <2>2, TokenAway
<1>7. CASE FinalizeLoad(a) \/ FinalizeCommit(a) \/ EndpointStep(a)
  <2>1. Frame(a) /\ pc'[a] \in {"idle", "f_commit"}
    BY <1>7, EndMoves DEF EndpointStep
  <2>2. row' = row /\ (queue' = queue \/ \E S : Publish(RetryMsg(S)))
    BY <1>7 DEF EndpointStep, FinalizeLoad, FinalizeCommit, RetryQueued, RetryNothing
  <2> QED BY <2>1, <2>2, TokenAway
<1>8. CASE TickStep(a)
  <2>1. Frame(a) /\ pc'[a] \in {"sweep", "sweep_claim", "topup", "sweep_publish", "idle", "select"}
    BY <1>8, TickMoves DEF TickStep
  <2>2. row' = row /\ (queue' = queue \/ Publish(FinalizeMsg))
    BY <1>8 DEF TickStep, TickRemaining, SweepSelect, SweepClaim, SweepPublish, TopUp
  <2> QED BY <2>1, <2>2, TokenAway
<1> QED BY <1>1, <1>2, <1>3, <1>4, <1>5, <1>6, <1>7, <1>8 DEF Run, RowStep, WindowStep, EndStep

LEMMA TokenFault ==
  ASSUME <<"raise", "bump">> \notin FaultPoints,
         TypeInv, TypeInv', TokenInv, NEW a \in Actors, Raise(a) \/ Crash(a)
  PROVE  TokenInv'
<1> USE TypeParts, TypePartsNext DEF ActorInv
<1>1. Frame(a) /\ row' = row /\ queue' = queue
  BY FaultMoves DEF Raise, RaiseInRow, RaiseAndEnd, RaiseInDispatch, RaiseInSweep, Crash
<1>2. CASE pc'[a] \in {"idle", "d_failed", "topup"}
  BY <1>1, <1>2, TokenAway
<1>3. CASE pc'[a] \notin {"idle", "d_failed", "topup"}
  <2>1. RaiseInRow(a) /\ pc'[a] = "commit"
    BY <1>3, FaultMoves DEF Raise
  <2>2. pc[a] = "commit" /\ msg' = msg
    BY <1>3, <2>1 DEF RaiseInRow, Fault, Release, Goto, ActorTypes
  <2> QED BY <1>1, <2>1, <2>2, TokenStays
<1> QED BY <1>2, <1>3

LEMMA TokenStart ==
  ASSUME TypeInv, TypeInv', TokenInv, NEW a \in Actors, TickStart(a) \/ RetryFlip(a)
  PROVE  TokenInv'
<1>1. Frame(a) /\ pc'[a] \in {"tick_remaining", "decide"} /\ row' = row /\ queue' = queue
  BY StartMoves, TypeParts DEF ActorInv, TickStart, RetryFlip
<1> QED BY <1>1, TokenAway

LEMMA StepToken ==
  ASSUME <<"raise", "bump">> \notin FaultPoints
  PROVE  TypeInv /\ TypeInv' /\ RetryUnique /\ TokenInv /\ [Next]_vars => TokenInv'
<1> SUFFICES ASSUME TypeInv, TypeInv', RetryUnique, TokenInv, [Next]_vars PROVE TokenInv'
  OBVIOUS
<1>1. CASE UNCHANGED vars
  BY <1>1 DEF TokenInv, TokenMsgs, TokenRow, TokenReopen, RowHeld, Held, Once, RowHolders,
              vars, local
<1> QED BY <1>1, TokenTake, TokenStart, TokenRun, TokenFault DEF Next, Actors

LEMMA InitToken == Init => TokenInv
<1> SUFFICES ASSUME Init PROVE TokenInv
  OBVIOUS
<1>1. TokenMsgs /\ TokenReopen
  BY DEF Init, TokenMsgs, TokenReopen
<1>2. ASSUME NEW r \in Rows PROVE TokenRow(r)
  <2>1. RowHolders(r) = {}
    BY DEF Init, RowHolders
  <2>2. \A m \in RowMsgs(r) : queue[m] = 0
    BY RowMsgFacts DEF Init
  <2> QED BY <2>1, <2>2 DEF TokenRow, RowHeld, Held, Once
<1> QED BY <1>1, <1>2 DEF TokenInv

LEMMA TokenInvariant ==
  ASSUME DispatchHolds \/ MaxRequests <= 1, <<"raise", "bump">> \notin FaultPoints
  PROVE  Spec => []TokenInv
<1>1. TypeInv /\ TypeInv' /\ RetryUnique /\ TokenInv /\ [Next]_vars => TokenInv'
  BY StepToken
<1> QED BY <1>1, InitToken, RetryUniqueInvariant, TypeInvariant, PTL DEF Spec

-----------------------------------------------------------------------------
(* One copy means one copy: counted as the property counts.                *)

LEMMA OneAtMost ==
  ASSUME NEW S, \A x, y \in S : x = y
  PROVE  IsFiniteSet(S) /\ Cardinality(S) \in {0, 1} /\ (Cardinality(S) = 0 <=> S = {})
<1>1. CASE S = {}
  BY <1>1, FS_EmptySet
<1>2. CASE S # {}
  <2>1. PICK x : S = {x}
    BY <1>2
  <2>2. IsFiniteSet({x}) /\ Cardinality({x}) = 1
    BY FS_Singleton
  <2> QED BY <1>2, <2>1, <2>2
<1> QED BY <1>1, <1>2

LEMMA TokenMeansOneCopy ==
  ASSUME TypeInv, TokenInv
  PROVE  AtMostOneCopy
<1> SUFFICES ASSUME NEW r \in Rows
             PROVE  LET queued == {k \in 0 .. MaxAttempts - 1 : queue[RowMsg(r, k)] > 0}
                        running == {a \in Actors : pc[a] \in {"row", "match", "commit"} /\ msg[a].row = r}
                        claimed == {a \in Actors : pc[a] = "publish_rows" /\ r \in want[a].rows}
                    IN /\ \A k \in 0 .. MaxAttempts - 1 : queue[RowMsg(r, k)] <= 1
                       /\ Cardinality(queued) + Cardinality(running) + Cardinality(claimed) <= 1
  BY DEF AtMostOneCopy
<1> DEFINE queued == {k \in 0 .. MaxAttempts - 1 : queue[RowMsg(r, k)] > 0}
           running == {a \in Actors : pc[a] \in {"row", "match", "commit"} /\ msg[a].row = r}
           claimed == {a \in Actors : pc[a] = "publish_rows" /\ r \in want[a].rows}
<1>1. Once(queue, RowHolders(r), RowMsgs(r))
  BY DEF TokenInv, TokenRow
<1>2. \A k \in 0 .. MaxAttempts - 1 : RowMsg(r, k) \in RowMsgs(r) /\ RowMsg(r, k).tries = k
  BY DEF RowMsgs, RowMsg
<1>3. running \subseteq RowHolders(r) /\ claimed \subseteq RowHolders(r)
  BY DEF RowHolders
<1>4. \A k \in 0 .. MaxAttempts - 1 : queue[RowMsg(r, k)] <= 1
  BY <1>1, <1>2 DEF Once
<1>5. \A k, l \in queued : k = l
  BY <1>1, <1>2 DEF Once
<1>6. \A a, b \in running \cup claimed : a = b
  BY <1>1, <1>3 DEF Once
<1>7. queued = {} \/ running \cup claimed = {}
  <2>1. ASSUME NEW k \in queued, NEW a \in running \cup claimed PROVE FALSE
    <3>1. queue[RowMsg(r, k)] = 0
      BY <1>1, <1>2, <1>3 DEF Once
    <3> QED BY <3>1
  <2> QED BY <2>1
<1>8. running = {} \/ claimed = {}
  <2>1. ASSUME NEW a \in running, NEW b \in claimed PROVE FALSE
    BY <1>6
  <2> QED BY <2>1
<1> HIDE DEF queued, running, claimed
<1>9. /\ Cardinality(queued) \in {0, 1} /\ (Cardinality(queued) = 0 <=> queued = {})
      /\ Cardinality(running) \in {0, 1} /\ (Cardinality(running) = 0 <=> running = {})
      /\ Cardinality(claimed) \in {0, 1} /\ (Cardinality(claimed) = 0 <=> claimed = {})
  BY <1>5, <1>6, OneAtMost
<1>10. Cardinality(queued) + Cardinality(running) + Cardinality(claimed) <= 1
  BY <1>7, <1>8, <1>9
<1> QED BY <1>4, <1>10 DEF queued, running, claimed

(* A row is never queued, claimed or running twice, provided that retries  *)
(* cannot overlap and that a row whose outcome is committed is not sent    *)
(* through its rescue branch again by an error in the counters' update.    *)
THEOREM AtMostOneCopyHolds ==
  ASSUME DispatchHolds \/ MaxRequests <= 1, <<"raise", "bump">> \notin FaultPoints
  PROVE  Spec => []AtMostOneCopy
<1>1. TypeInv /\ TokenInv => AtMostOneCopy
  BY TokenMeansOneCopy
<1> QED BY <1>1, TokenInvariant, TypeInvariant, PTL

(* No step touches a row that is completed.                                *)
LEMMA StepCompleted ==
  ASSUME TypeInv, TokenInv, [Next]_vars, NEW r \in Rows, row[r].status = "completed"
  PROVE  row'[r] = row[r]
<1> USE TypeParts DEF ActorInv
<1>1. CASE \E a \in Actors : CommitRow(a)
  <2>1. PICK a \in Actors : CommitRow(a)
    BY <1>1
  <2>2. msg[a].row \in Rows /\ row[msg[a].row].status = "dispatched"
    BY <2>1, RowInHand, RowMoves DEF TokenInv, TokenRow, RowHeld, Held
  <2> QED BY <2>1, <2>2 DEF CommitRow, DataTypes
<1>2. CASE \E a \in Actors : ClaimRows(a)
  BY <1>2 DEF ClaimRows, Won, Pending
<1>3. CASE \E a \in Actors : RetryReopen(a)
  <2>1. PICK a \in Actors : RetryReopen(a)
    BY <1>3
  <2>2. r \notin want[a].rows
    BY <2>1 DEF TokenInv, TokenReopen, RetryReopen
  <2> QED BY <2>1, <2>2 DEF RetryReopen
<1>4. CASE ~ \E a \in Actors : CommitRow(a) \/ ClaimRows(a) \/ RetryReopen(a)
  <2>1. CASE \E a \in Actors : Run(a)
    BY <1>4, <2>1
    DEF Run, RowStep, LoadRow, MatchSucceeds, MatchRetries, MatchExhausted, MatchBreaks,
        Decide, BumpCounters, Settle, Claim, PublishFinalize, WindowStep, SelectWindow,
        PublishRow, RowsPublished, DispatchStep, DispatchLoad, SyncMark, SyncRuns,
        DispatchMark, DispatchFailed, EndStep, FinalizeLoad, FinalizeCommit, RetrySelect,
        EndpointStep, RetryQueued, RetryNothing, TickStep, TickRemaining, SweepSelect,
        SweepClaim, SweepPublish, TopUp
  <2>2. CASE \E a \in Actors : Raise(a) \/ Crash(a)
    BY <2>2 DEF Raise, RaiseInRow, RaiseAndEnd, RaiseInDispatch, RaiseInSweep, Crash
  <2>3. CASE \/ \E a \in Workers : Take(a)
             \/ \E a \in Beats : TickStart(a)
             \/ \E a \in Clients : RetryFlip(a)
             \/ UNCHANGED vars
    BY <2>3 DEF Take, TickStart, RetryFlip, vars
  <2> QED BY <2>1, <2>2, <2>3 DEF Next
<1> QED BY <1>1, <1>2, <1>3, <1>4

(* A row's match, once delivered, is never lost or tried again, whoever    *)
(* retries the job, under the same two conditions.                         *)
THEOREM CompletedIsFinalHolds ==
  ASSUME DispatchHolds \/ MaxRequests <= 1, <<"raise", "bump">> \notin FaultPoints
  PROVE  Spec => CompletedIsFinal
<1>1. TypeInv /\ TokenInv /\ [Next]_vars
        => [\A r \in Rows : row[r].status = "completed" => row'[r] = row[r]]_vars
  BY StepCompleted
<1> QED BY <1>1, TokenInvariant, TypeInvariant, PTL DEF Spec, CompletedIsFinal

-----------------------------------------------------------------------------
(* The counters agree with the rows.                                       *)

Outcomes == {"matched", "no_match", "failed"}
Successes == {"matched", "no_match"}

(* CountersMatchRows with its numbers named.                               *)
Balance(j, all, lost, got, regot, tried, missed, done) ==
  /\ j.processed + all = tried
  /\ j.failed + lost - regot = missed
  /\ j.matched + j.no_match + got + regot = done

LEMMA CountersBalance ==
  CountersMatchRows <=>
    Balance(job, Cardinality(Bumping(FALSE, Outcomes)), Cardinality(Bumping(FALSE, {"failed"})),
            Cardinality(Bumping(FALSE, Successes)), Cardinality(Bumping(TRUE, Successes)),
            Cardinality(Tried), Cardinality(Missed), Cardinality(Tried \ Missed))
  BY DEF CountersMatchRows, Balance, Outcomes, Successes

LEMMA CountersBalanceNext ==
  CountersMatchRows' <=>
    Balance(job', Cardinality(Bumping(FALSE, Outcomes)'), Cardinality(Bumping(FALSE, {"failed"})'),
            Cardinality(Bumping(FALSE, Successes)'), Cardinality(Bumping(TRUE, Successes)'),
            Cardinality(Tried'), Cardinality(Missed'), Cardinality((Tried \ Missed)'))
  BY DEF CountersMatchRows, Balance, Outcomes, Successes

(* An outcome is committed: a first one, failed or not, or that of a retry. *)
LEMMA BalanceMoves ==
  ASSUME NEW j, j.processed \in Nat, j.failed \in Int, j.matched \in Nat, j.no_match \in Nat,
         NEW all \in Nat, NEW lost \in Nat, NEW got \in Nat, NEW regot \in Nat,
         NEW tried \in Nat, NEW missed \in Nat, NEW done \in Nat,
         Balance(j, all, lost, got, regot, tried, missed, done)
  PROVE  /\ Balance(j, all + 1, lost + 1, got, regot, tried + 1, missed + 1, done)
         /\ Balance(j, all + 1, lost, got + 1, regot, tried + 1, missed, done + 1)
         /\ Balance(j, all, lost, got, regot + 1, tried, missed - 1, done + 1)
<1>1. /\ j.processed + all = tried
      /\ j.failed + lost - regot = missed
      /\ j.matched + j.no_match + got + regot = done
  BY DEF Balance
<1>2. /\ j.processed + (all + 1) = tried + 1
      /\ j.failed + (lost + 1) - regot = missed + 1
      /\ j.failed + lost - (regot + 1) = missed - 1
  BY <1>1
<1>3. /\ j.matched + j.no_match + (got + 1) + regot = done + 1
      /\ j.matched + j.no_match + got + (regot + 1) = done + 1
  BY <1>1
<1> QED BY <1>1, <1>2, <1>3 DEF Balance

(* The counters' update: of a first outcome, failed or not, and of a retry  *)
(* that succeeds.                                                          *)
LEMMA BalanceBumps ==
  ASSUME NEW j, j.processed \in Nat, j.failed \in Int, j.matched \in Nat, j.no_match \in Nat,
         NEW all \in Nat, NEW lost \in Nat, NEW got \in Nat, NEW regot \in Nat,
         NEW tried \in Nat, NEW missed \in Nat, NEW done \in Nat,
         Balance(j, all, lost, got, regot, tried, missed, done), NEW k
  PROVE  /\ /\ k.processed = j.processed + 1 /\ k.failed = j.failed + 1
            /\ k.matched = j.matched /\ k.no_match = j.no_match
            => Balance(k, all - 1, lost - 1, got, regot, tried, missed, done)
         /\ /\ k.processed = j.processed + 1 /\ k.failed = j.failed
            /\ \/ k.matched = j.matched + 1 /\ k.no_match = j.no_match
               \/ k.matched = j.matched /\ k.no_match = j.no_match + 1
            => Balance(k, all - 1, lost, got - 1, regot, tried, missed, done)
         /\ /\ k.processed = j.processed /\ k.failed = j.failed - 1
            /\ \/ k.matched = j.matched + 1 /\ k.no_match = j.no_match
               \/ k.matched = j.matched /\ k.no_match = j.no_match + 1
            => Balance(k, all, lost, got, regot - 1, tried, missed, done)
<1>1. /\ j.processed + all = tried
      /\ j.failed + lost - regot = missed
      /\ j.matched + j.no_match + got + regot = done
  BY DEF Balance
<1>2. /\ (j.processed + 1) + (all - 1) = tried
      /\ (j.failed + 1) + (lost - 1) - regot = missed
      /\ (j.failed - 1) + lost - (regot - 1) = missed
  BY <1>1
<1>3. /\ (j.matched + 1) + j.no_match + (got - 1) + regot = done
      /\ j.matched + (j.no_match + 1) + (got - 1) + regot = done
      /\ (j.matched + 1) + j.no_match + got + (regot - 1) = done
      /\ j.matched + (j.no_match + 1) + got + (regot - 1) = done
  BY <1>1
<1> QED BY <1>1, <1>2, <1>3 DEF Balance

LEMMA BumpingFinite ==
  ASSUME IsFiniteSet(At({"bump"})), NEW x, NEW O
  PROVE  IsFiniteSet(Bumping(x, O)) /\ Cardinality(Bumping(x, O)) \in Nat
<1>1. Bumping(x, O) \subseteq At({"bump"})
  BY DEF Bumping, At
<1> QED BY <1>1, FS_Subset, FS_CardinalityType

LEMMA RowSetsFinite ==
  /\ IsFiniteSet(Tried) /\ IsFiniteSet(Missed) /\ IsFiniteSet(Tried \ Missed)
  /\ Cardinality(Tried) \in Nat /\ Cardinality(Missed) \in Nat
  /\ Cardinality(Tried \ Missed) \in Nat
<1>1. Tried \subseteq Rows /\ Missed \subseteq Rows /\ Tried \ Missed \subseteq Rows
  BY DEF Tried, Missed
<1> QED BY <1>1, ExternalAssumption, FS_Subset, FS_CardinalityType

LEMMA Joined ==
  ASSUME NEW S, IsFiniteSet(S), NEW x, x \notin S
  PROVE  IsFiniteSet(S \cup {x}) /\ Cardinality(S \cup {x}) = Cardinality(S) + 1
         /\ Cardinality(S) \in Nat
  BY FS_AddElement, FS_CardinalityType

LEMMA Left ==
  ASSUME NEW S, IsFiniteSet(S), NEW x \in S
  PROVE  IsFiniteSet(S \ {x}) /\ Cardinality(S \ {x}) = Cardinality(S) - 1
         /\ Cardinality(S) \in Nat
  BY FS_RemoveElement, FS_CardinalityType

LEMMA BumpingSame ==
  ASSUME NEW a \in Actors, Frame(a), pc[a] # "bump", pc'[a] # "bump", NEW x, NEW O
  PROVE  Bumping(x, O)' = Bumping(x, O) /\ At({"bump"})' = At({"bump"})
  BY DEF Frame, Bumping, At

LEMMA BumpingGains ==
  ASSUME NEW a \in Actors, Frame(a), pc[a] # "bump", pc'[a] = "bump", rec' = rec, NEW x, NEW O
  PROVE  /\ a \notin Bumping(x, O)
         /\ rec[a].retry = x /\ rec[a].outcome \in O => Bumping(x, O)' = Bumping(x, O) \cup {a}
         /\ rec[a].retry # x \/ rec[a].outcome \notin O => Bumping(x, O)' = Bumping(x, O)
         /\ At({"bump"})' = At({"bump"}) \cup {a}
  BY DEF Frame, Bumping, At

LEMMA BumpingLoses ==
  ASSUME NEW a \in Actors, Frame(a), pc[a] = "bump", pc'[a] # "bump", NEW x, NEW O
  PROVE  /\ rec[a].retry = x /\ rec[a].outcome \in O =>
              a \in Bumping(x, O) /\ Bumping(x, O)' = Bumping(x, O) \ {a}
         /\ rec[a].retry # x \/ rec[a].outcome \notin O => Bumping(x, O)' = Bumping(x, O)
         /\ At({"bump"})' = At({"bump"}) \ {a}
  BY DEF Frame, Bumping, At

(* A step that counts nothing and tries no row.                            *)
LEMMA CountQuiet ==
  ASSUME TypeInv, TokenInv, CountInv, NEW a \in Actors, Frame(a),
         pc[a] # "bump", pc'[a] # "bump",
         \A r \in Rows : /\ row'[r].attempts = row[r].attempts
                         /\ row'[r].status = "completed" <=> row[r].status = "completed",
         job'.processed = job.processed, job'.failed = job.failed,
         job'.matched = job.matched, job'.no_match = job.no_match,
         pc'[a] \in {"match", "commit"} => rec'[a].retry = (row'[msg'[a].row].attempts > 0)
  PROVE  CountInv'
<1>1. CountRec'
  <2>1. ASSUME NEW b \in Actors, b # a, pc'[b] \in {"match", "commit"}
        PROVE  rec'[b].retry = (row'[msg'[b].row].attempts > 0)
    <3>1. pc[b] = pc'[b] /\ msg'[b] = msg[b] /\ rec'[b] = rec[b]
      BY <2>1 DEF Frame
    <3>2. msg[b].row \in Rows
      BY <2>1, <3>1, RowInHand
    <3> QED BY <2>1, <3>1, <3>2 DEF CountInv, CountRec
  <2> QED BY <2>1 DEF CountRec
<1>2. Tried' = Tried /\ Missed' = Missed /\ (Tried \ Missed)' = Tried \ Missed
  BY DEF Tried, Missed
<1>3. CountersMatchRows'
  <2>1. Balance(job, Cardinality(Bumping(FALSE, Outcomes)), Cardinality(Bumping(FALSE, {"failed"})),
                Cardinality(Bumping(FALSE, Successes)), Cardinality(Bumping(TRUE, Successes)),
                Cardinality(Tried), Cardinality(Missed), Cardinality(Tried \ Missed))
    BY CountersBalance DEF CountInv
  <2> QED BY <1>2, <2>1, BumpingSame, CountersBalanceNext DEF Balance
<1> QED BY <1>1, <1>3, BumpingSame DEF CountInv

LEMMA CountCommitRow ==
  ASSUME TypeInv, TokenInv, CountInv, NEW a \in Actors, CommitRow(a)
  PROVE  CountInv'
<1> USE TypeParts DEF ActorInv
<1>1. Frame(a) /\ pc[a] = "commit" /\ pc'[a] = "bump"
  BY RowMoves
<1>2. job' = job /\ msg' = msg /\ rec' = rec
  BY LocalSame DEF CommitRow
<1>3. PICK r \in Rows : r = msg[a].row /\ a \in RowHolders(r)
  BY <1>1, RowInHand
<1>4. /\ row'[r].status = IF rec[a].outcome = "failed" THEN "failed" ELSE "completed"
      /\ row'[r].attempts = row[r].attempts + 1
      /\ \A s \in Rows \ {r} : row'[s] = row[s]
      /\ row[r].attempts \in Nat /\ row[r].status = "dispatched"
  <2>1. row[r].status = "dispatched"
    BY <1>3 DEF TokenInv, TokenRow, RowHeld, Held
  <2> QED BY <1>3, <2>1 DEF CommitRow, DataTypes
<1>5. rec[a].retry = (row[r].attempts > 0) /\ rec[a].retry \in BOOLEAN /\ rec[a].outcome \in Outcomes
  BY <1>1, <1>3 DEF CountInv, CountRec, ActorTypes, Outcomes
<1>6. CountRec'
  <2>1. ASSUME NEW b \in Actors, pc'[b] \in {"match", "commit"}
        PROVE  rec'[b].retry = (row'[msg'[b].row].attempts > 0)
    <3>1. b # a /\ pc[b] = pc'[b] /\ msg'[b] = msg[b] /\ rec'[b] = rec[b]
      BY <1>1, <2>1 DEF Frame
    <3>2. msg[b].row \in Rows /\ b \in RowHolders(msg[b].row)
      BY <2>1, <3>1, RowInHand
    <3>3. msg[b].row # r
      BY <1>3, <3>1, <3>2 DEF TokenInv, TokenRow, Once
    <3> QED BY <1>4, <2>1, <3>1, <3>2, <3>3 DEF CountInv, CountRec
  <2> QED BY <2>1 DEF CountRec
<1>7. IsFiniteSet(At({"bump"})')
  <2>1. At({"bump"})' = At({"bump"}) \cup {a}
    BY <1>1, <1>2, BumpingGains
  <2> QED BY <2>1, FS_AddElement DEF CountInv
<1>8. /\ rec[a].retry = FALSE => ~(row[r].attempts > 0)
      /\ rec[a].retry = TRUE => row[r].attempts > 0
      /\ rec[a].retry = TRUE \/ rec[a].retry = FALSE
  BY <1>5, Zenon
<1>9. /\ \A S : IsFiniteSet(S) => \A x : x \notin S => Cardinality(S \cup {x}) = Cardinality(S) + 1
      /\ \A S : IsFiniteSet(S) => \A x : x \in S => Cardinality(S \ {x}) = Cardinality(S) - 1
  BY Joined, Left
<1>12. /\ Cardinality(Bumping(FALSE, Outcomes)) \in Nat /\ Cardinality(Bumping(FALSE, {"failed"})) \in Nat
      /\ Cardinality(Bumping(FALSE, Successes)) \in Nat /\ Cardinality(Bumping(TRUE, Successes)) \in Nat
      /\ Cardinality(Tried) \in Nat /\ Cardinality(Missed) \in Nat /\ Cardinality(Tried \ Missed) \in Nat
      /\ job.processed \in Nat /\ job.matched \in Nat /\ job.no_match \in Nat /\ job.failed \in Int
  BY BumpingFinite, RowSetsFinite DEF CountInv, DataTypes, JobType
<1>13. Balance(job, Cardinality(Bumping(FALSE, Outcomes)), Cardinality(Bumping(FALSE, {"failed"})),
               Cardinality(Bumping(FALSE, Successes)), Cardinality(Bumping(TRUE, Successes)),
               Cardinality(Tried), Cardinality(Missed), Cardinality(Tried \ Missed))
  BY CountersBalance DEF CountInv
<1>10. CASE rec[a].retry = FALSE
  <2>1. ~(row[r].attempts > 0) /\ row'[r].attempts > 0
    BY <1>4, <1>8, <1>10
  <2>2. r \notin Tried /\ r \notin Missed /\ Tried' = Tried \cup {r}
    BY <1>4, <2>1 DEF Tried, Missed
  <2>3. /\ Bumping(FALSE, Outcomes)' = Bumping(FALSE, Outcomes) \cup {a}
        /\ Bumping(TRUE, Successes)' = Bumping(TRUE, Successes)
        /\ \A O : a \notin Bumping(FALSE, O)
    <3>1. rec[a].retry # TRUE
      BY <1>10
    <3> QED BY <1>1, <1>2, <1>5, <1>10, <3>1, BumpingGains
  <2>4. /\ Cardinality(Tried') = Cardinality(Tried) + 1
        /\ Cardinality(Bumping(FALSE, Outcomes)') = Cardinality(Bumping(FALSE, Outcomes)) + 1
    BY <1>9, <2>2, <2>3, BumpingFinite, RowSetsFinite DEF CountInv
  <2>5. CASE rec[a].outcome = "failed"
    <3>1. Missed' = Missed \cup {r} /\ (Tried \ Missed)' = Tried \ Missed
      BY <1>4, <2>1, <2>2, <2>5 DEF Tried, Missed
    <3>2. /\ Bumping(FALSE, {"failed"})' = Bumping(FALSE, {"failed"}) \cup {a}
          /\ Bumping(FALSE, Successes)' = Bumping(FALSE, Successes)
      BY <1>1, <1>2, <1>10, <2>5, BumpingGains DEF Successes
    <3>3. /\ Cardinality(Missed') = Cardinality(Missed) + 1
          /\ Cardinality(Bumping(FALSE, {"failed"})') = Cardinality(Bumping(FALSE, {"failed"})) + 1
      BY <1>9, <2>2, <2>3, <3>1, <3>2, BumpingFinite, RowSetsFinite DEF CountInv
    <3>4. CountersMatchRows'
      <4>1. /\ Cardinality(Bumping(FALSE, Outcomes)') = Cardinality(Bumping(FALSE, Outcomes)) + 1
            /\ Cardinality(Bumping(FALSE, {"failed"})') = Cardinality(Bumping(FALSE, {"failed"})) + 1
            /\ Cardinality(Bumping(FALSE, Successes)') = Cardinality(Bumping(FALSE, Successes))
            /\ Cardinality(Bumping(TRUE, Successes)') = Cardinality(Bumping(TRUE, Successes))
            /\ Cardinality(Tried') = Cardinality(Tried) + 1
            /\ Cardinality(Missed') = Cardinality(Missed) + 1
            /\ Cardinality((Tried \ Missed)') = Cardinality((Tried \ Missed))
        BY <2>2, <2>3, <2>4, <3>1, <3>2, <3>3
      <4>2. Balance(job, Cardinality(Bumping(FALSE, Outcomes)) + 1, Cardinality(Bumping(FALSE, {"failed"})) + 1,
                    Cardinality(Bumping(FALSE, Successes)), Cardinality(Bumping(TRUE, Successes)),
                    Cardinality(Tried) + 1, Cardinality(Missed) + 1, Cardinality(Tried \ Missed))
        BY <1>12, <1>13, BalanceMoves
      <4> QED BY <1>2, <4>1, <4>2, CountersBalanceNext
    <3> QED BY <1>6, <1>7, <3>4 DEF CountInv
  <2>6. CASE rec[a].outcome # "failed"
    <3>1. Missed' = Missed /\ (Tried \ Missed)' = (Tried \ Missed) \cup {r}
      BY <1>4, <2>1, <2>2, <2>6 DEF Tried, Missed
    <3>2. /\ Bumping(FALSE, {"failed"})' = Bumping(FALSE, {"failed"})
          /\ Bumping(FALSE, Successes)' = Bumping(FALSE, Successes) \cup {a}
      BY <1>1, <1>2, <1>5, <1>10, <2>6, BumpingGains, ZenonT(60) DEF Successes, Outcomes
    <3>3. /\ Cardinality((Tried \ Missed)') = Cardinality(Tried \ Missed) + 1
          /\ Cardinality(Bumping(FALSE, Successes)') = Cardinality(Bumping(FALSE, Successes)) + 1
      BY <1>9, <2>2, <2>3, <3>1, <3>2, BumpingFinite, RowSetsFinite DEF CountInv
    <3>4. CountersMatchRows'
      <4>1. /\ Cardinality(Bumping(FALSE, Outcomes)') = Cardinality(Bumping(FALSE, Outcomes)) + 1
            /\ Cardinality(Bumping(FALSE, {"failed"})') = Cardinality(Bumping(FALSE, {"failed"}))
            /\ Cardinality(Bumping(FALSE, Successes)') = Cardinality(Bumping(FALSE, Successes)) + 1
            /\ Cardinality(Bumping(TRUE, Successes)') = Cardinality(Bumping(TRUE, Successes))
            /\ Cardinality(Tried') = Cardinality(Tried) + 1
            /\ Cardinality(Missed') = Cardinality(Missed)
            /\ Cardinality((Tried \ Missed)') = Cardinality((Tried \ Missed)) + 1
        BY <2>2, <2>3, <2>4, <3>1, <3>2, <3>3
      <4>2. Balance(job, Cardinality(Bumping(FALSE, Outcomes)) + 1, Cardinality(Bumping(FALSE, {"failed"})),
                    Cardinality(Bumping(FALSE, Successes)) + 1, Cardinality(Bumping(TRUE, Successes)),
                    Cardinality(Tried) + 1, Cardinality(Missed), Cardinality(Tried \ Missed) + 1)
        BY <1>12, <1>13, BalanceMoves
      <4> QED BY <1>2, <4>1, <4>2, CountersBalanceNext
    <3> QED BY <1>6, <1>7, <3>4 DEF CountInv
  <2> QED BY <2>5, <2>6
<1>11. CASE rec[a].retry = TRUE
  <2>1. row[r].attempts > 0 /\ row'[r].attempts > 0
    BY <1>4, <1>8, <1>11
  <2>2. r \in Tried /\ r \in Missed /\ Tried' = Tried
    BY <1>4, <2>1 DEF Tried, Missed
  <2>3. /\ \A O : Bumping(FALSE, O)' = Bumping(FALSE, O)
        /\ a \notin Bumping(TRUE, Successes)
    <3>1. rec[a].retry # FALSE
      BY <1>11
    <3> QED BY <1>1, <1>2, <3>1, BumpingGains, ZenonT(60)
  <2>4. CASE rec[a].outcome = "failed"
    <3>1. Missed' = Missed /\ (Tried \ Missed)' = Tried \ Missed
      BY <1>4, <2>1, <2>2, <2>4 DEF Tried, Missed
    <3>2. Bumping(TRUE, Successes)' = Bumping(TRUE, Successes)
      BY <1>1, <1>2, <2>4, BumpingGains DEF Successes
    <3>3. CountersMatchRows'
      BY <1>2, <1>13, <2>2, <2>3, <3>1, <3>2, CountersBalanceNext
    <3> QED BY <1>6, <1>7, <3>3 DEF CountInv
  <2>5. CASE rec[a].outcome # "failed"
    <3>1. Missed' = Missed \ {r} /\ (Tried \ Missed)' = (Tried \ Missed) \cup {r}
      BY <1>4, <2>1, <2>2, <2>5 DEF Tried, Missed
    <3>2. Bumping(TRUE, Successes)' = Bumping(TRUE, Successes) \cup {a}
      <4>1. rec[a].outcome \in Successes
        BY <1>5, <2>5 DEF Successes, Outcomes
      <4> QED BY <1>1, <1>2, <1>11, <4>1, BumpingGains
    <3>3. /\ Cardinality(Missed') = Cardinality(Missed) - 1
          /\ Cardinality((Tried \ Missed)') = Cardinality(Tried \ Missed) + 1
          /\ Cardinality(Bumping(TRUE, Successes)') = Cardinality(Bumping(TRUE, Successes)) + 1
      BY <1>9, <2>2, <2>3, <3>1, <3>2, BumpingFinite, RowSetsFinite DEF CountInv
    <3>4. CountersMatchRows'
      <4>1. /\ Cardinality(Bumping(FALSE, Outcomes)') = Cardinality(Bumping(FALSE, Outcomes))
            /\ Cardinality(Bumping(FALSE, {"failed"})') = Cardinality(Bumping(FALSE, {"failed"}))
            /\ Cardinality(Bumping(FALSE, Successes)') = Cardinality(Bumping(FALSE, Successes))
            /\ Cardinality(Bumping(TRUE, Successes)') = Cardinality(Bumping(TRUE, Successes)) + 1
            /\ Cardinality(Tried') = Cardinality(Tried)
            /\ Cardinality(Missed') = Cardinality(Missed) - 1
            /\ Cardinality((Tried \ Missed)') = Cardinality((Tried \ Missed)) + 1
        BY <2>2, <2>3, <3>3
      <4>2. Balance(job, Cardinality(Bumping(FALSE, Outcomes)), Cardinality(Bumping(FALSE, {"failed"})),
                    Cardinality(Bumping(FALSE, Successes)), Cardinality(Bumping(TRUE, Successes)) + 1,
                    Cardinality(Tried), Cardinality(Missed) - 1, Cardinality(Tried \ Missed) + 1)
        BY <1>12, <1>13, BalanceMoves
      <4> QED BY <1>2, <4>1, <4>2, CountersBalanceNext
    <3> QED BY <1>6, <1>7, <3>4 DEF CountInv
  <2> QED BY <2>4, <2>5
<1> QED BY <1>8, <1>10, <1>11

LEMMA CountBumpCounters ==
  ASSUME TypeInv, TokenInv, CountInv, NEW a \in Actors, BumpCounters(a)
  PROVE  CountInv'
<1> USE TypeParts DEF ActorInv
<1>1. Frame(a) /\ pc[a] = "bump" /\ pc'[a] = "settle"
  BY RowMoves
<1>2. row' = row /\ rec[a].outcome \in Outcomes /\ rec[a].retry \in BOOLEAN
  BY DEF BumpCounters, ActorTypes, Outcomes
<1>3. /\ rec[a].retry = FALSE /\ rec[a].outcome = "failed" =>
           /\ job'.processed = job.processed + 1 /\ job'.failed = job.failed + 1
           /\ job'.matched = job.matched /\ job'.no_match = job.no_match
      /\ rec[a].retry = FALSE /\ rec[a].outcome \in Successes =>
           /\ job'.processed = job.processed + 1 /\ job'.failed = job.failed
           /\ \/ job'.matched = job.matched + 1 /\ job'.no_match = job.no_match
              \/ job'.matched = job.matched /\ job'.no_match = job.no_match + 1
      /\ rec[a].retry = TRUE /\ rec[a].outcome \in Successes =>
           /\ job'.processed = job.processed /\ job'.failed = job.failed - 1
           /\ \/ job'.matched = job.matched + 1 /\ job'.no_match = job.no_match
              \/ job'.matched = job.matched /\ job'.no_match = job.no_match + 1
      /\ rec[a].retry = TRUE /\ rec[a].outcome = "failed" => job' = job
  BY <1>2 DEF BumpCounters, DataTypes, JobType, Successes
<1>4. CountRec'
  <2>1. ASSUME NEW b \in Actors, pc'[b] \in {"match", "commit"}
        PROVE  rec'[b].retry = (row'[msg'[b].row].attempts > 0)
    <3>1. b # a /\ pc[b] = pc'[b] /\ msg'[b] = msg[b] /\ rec'[b] = rec[b]
      BY <1>1, <2>1 DEF Frame
    <3> QED BY <1>2, <2>1, <3>1 DEF CountInv, CountRec
  <2> QED BY <2>1 DEF CountRec
<1>5. IsFiniteSet(At({"bump"})')
  <2>1. At({"bump"})' = At({"bump"}) \ {a}
    BY <1>1, BumpingLoses
  <2> QED BY <2>1, FS_RemoveElement DEF CountInv
<1>6. Tried' = Tried /\ Missed' = Missed /\ (Tried \ Missed)' = Tried \ Missed
  BY <1>2 DEF Tried, Missed
<1>7. \A S : IsFiniteSet(S) => \A x : x \in S => Cardinality(S \ {x}) = Cardinality(S) - 1
  BY Left
<1>8. /\ Cardinality(Bumping(FALSE, Outcomes)) \in Nat /\ Cardinality(Bumping(FALSE, {"failed"})) \in Nat
      /\ Cardinality(Bumping(FALSE, Successes)) \in Nat /\ Cardinality(Bumping(TRUE, Successes)) \in Nat
      /\ Cardinality(Tried) \in Nat /\ Cardinality(Missed) \in Nat /\ Cardinality(Tried \ Missed) \in Nat
      /\ job.processed \in Nat /\ job.matched \in Nat /\ job.no_match \in Nat /\ job.failed \in Int
  BY BumpingFinite, RowSetsFinite DEF CountInv, DataTypes, JobType
<1>9. Balance(job, Cardinality(Bumping(FALSE, Outcomes)), Cardinality(Bumping(FALSE, {"failed"})),
              Cardinality(Bumping(FALSE, Successes)), Cardinality(Bumping(TRUE, Successes)),
              Cardinality(Tried), Cardinality(Missed), Cardinality(Tried \ Missed))
  BY CountersBalance DEF CountInv
<1>10. CASE rec[a].retry = FALSE
  <2>0. rec[a].retry # TRUE
    BY <1>10
  <2>1. /\ a \in Bumping(FALSE, Outcomes)
        /\ Bumping(FALSE, Outcomes)' = Bumping(FALSE, Outcomes) \ {a}
        /\ Bumping(TRUE, Successes)' = Bumping(TRUE, Successes)
    BY <1>1, <1>2, <1>10, <2>0, BumpingLoses
  <2>2. Cardinality(Bumping(FALSE, Outcomes)') = Cardinality(Bumping(FALSE, Outcomes)) - 1
    BY <1>7, <2>1, BumpingFinite DEF CountInv
  <2>3. CASE rec[a].outcome = "failed"
    <3>0. rec[a].outcome \in {"failed"} /\ rec[a].outcome \notin Successes
      BY <2>3 DEF Successes
    <3>1. /\ a \in Bumping(FALSE, {"failed"})
          /\ Bumping(FALSE, {"failed"})' = Bumping(FALSE, {"failed"}) \ {a}
          /\ Bumping(FALSE, Successes)' = Bumping(FALSE, Successes)
      BY <1>1, <1>10, <3>0, BumpingLoses
    <3>2. Cardinality(Bumping(FALSE, {"failed"})') = Cardinality(Bumping(FALSE, {"failed"})) - 1
      BY <1>7, <3>1, BumpingFinite DEF CountInv
    <3>3. Balance(job', Cardinality(Bumping(FALSE, Outcomes)) - 1, Cardinality(Bumping(FALSE, {"failed"})) - 1,
                  Cardinality(Bumping(FALSE, Successes)), Cardinality(Bumping(TRUE, Successes)),
                  Cardinality(Tried), Cardinality(Missed), Cardinality(Tried \ Missed))
      BY <1>3, <1>8, <1>9, <1>10, <2>3, BalanceBumps
    <3>4. CountersMatchRows'
      BY <1>6, <2>1, <2>2, <3>1, <3>2, <3>3, CountersBalanceNext
    <3> QED BY <1>4, <1>5, <3>4 DEF CountInv
  <2>4. CASE rec[a].outcome # "failed"
    <3>0. rec[a].outcome \in Successes /\ rec[a].outcome \notin {"failed"}
      BY <1>2, <2>4 DEF Successes, Outcomes
    <3>1. /\ a \in Bumping(FALSE, Successes)
          /\ Bumping(FALSE, Successes)' = Bumping(FALSE, Successes) \ {a}
          /\ Bumping(FALSE, {"failed"})' = Bumping(FALSE, {"failed"})
      BY <1>1, <1>10, <3>0, BumpingLoses
    <3>2. Cardinality(Bumping(FALSE, Successes)') = Cardinality(Bumping(FALSE, Successes)) - 1
      BY <1>7, <3>1, BumpingFinite DEF CountInv
    <3>3. Balance(job', Cardinality(Bumping(FALSE, Outcomes)) - 1, Cardinality(Bumping(FALSE, {"failed"})),
                  Cardinality(Bumping(FALSE, Successes)) - 1, Cardinality(Bumping(TRUE, Successes)),
                  Cardinality(Tried), Cardinality(Missed), Cardinality(Tried \ Missed))
      BY <1>3, <1>8, <1>9, <1>10, <3>0, BalanceBumps
    <3>4. CountersMatchRows'
      BY <1>6, <2>1, <2>2, <3>1, <3>2, <3>3, CountersBalanceNext
    <3> QED BY <1>4, <1>5, <3>4 DEF CountInv
  <2> QED BY <2>3, <2>4
<1>11. CASE rec[a].retry = TRUE
  <2>0. rec[a].retry # FALSE
    BY <1>11
  <2>1. /\ Bumping(FALSE, Outcomes)' = Bumping(FALSE, Outcomes)
        /\ Bumping(FALSE, {"failed"})' = Bumping(FALSE, {"failed"})
        /\ Bumping(FALSE, Successes)' = Bumping(FALSE, Successes)
    BY <1>1, <2>0, BumpingLoses
  <2>2. CASE rec[a].outcome = "failed"
    <3>1. Bumping(TRUE, Successes)' = Bumping(TRUE, Successes)
      BY <1>1, <2>2, BumpingLoses DEF Successes
    <3>2. CountersMatchRows'
      BY <1>3, <1>6, <1>9, <1>11, <2>1, <2>2, <3>1, CountersBalanceNext
    <3> QED BY <1>4, <1>5, <3>2 DEF CountInv
  <2>3. CASE rec[a].outcome # "failed"
    <3>0. rec[a].outcome \in Successes
      BY <1>2, <2>3 DEF Successes, Outcomes
    <3>1. /\ a \in Bumping(TRUE, Successes)
          /\ Bumping(TRUE, Successes)' = Bumping(TRUE, Successes) \ {a}
      BY <1>1, <1>11, <3>0, BumpingLoses
    <3>2. Cardinality(Bumping(TRUE, Successes)') = Cardinality(Bumping(TRUE, Successes)) - 1
      BY <1>7, <3>1, BumpingFinite DEF CountInv
    <3>3. Balance(job', Cardinality(Bumping(FALSE, Outcomes)), Cardinality(Bumping(FALSE, {"failed"})),
                  Cardinality(Bumping(FALSE, Successes)), Cardinality(Bumping(TRUE, Successes)) - 1,
                  Cardinality(Tried), Cardinality(Missed), Cardinality(Tried \ Missed))
      BY <1>3, <1>8, <1>9, <1>11, <3>0, BalanceBumps
    <3>4. CountersMatchRows'
      BY <1>6, <2>1, <3>2, <3>3, CountersBalanceNext
    <3> QED BY <1>4, <1>5, <3>4 DEF CountInv
  <2> QED BY <2>2, <2>3
<1> QED BY <1>2, <1>10, <1>11

(* Steps that leave the rows alone, or only their pending status.          *)
RowsKept ==
  \A r \in Rows : /\ row'[r].attempts = row[r].attempts
                  /\ row'[r].status = "completed" <=> row[r].status = "completed"

CountersKept ==
  /\ job'.processed = job.processed /\ job'.failed = job.failed
  /\ job'.matched = job.matched /\ job'.no_match = job.no_match

LEMMA RowsKeptSame == row' = row => RowsKept
  BY DEF RowsKept

LEMMA CountAway ==
  ASSUME TypeInv, TokenInv, CountInv, NEW a \in Actors, Frame(a),
         pc[a] # "bump", pc'[a] \notin {"match", "commit", "bump"}, RowsKept, CountersKept
  PROVE  CountInv'
  BY CountQuiet DEF RowsKept, CountersKept

LEMMA CountRow ==
  ASSUME TypeInv, TokenInv, CountInv, NEW a \in Actors,
         LoadRow(a) \/ MatchSucceeds(a) \/ MatchExhausted(a) \/ MatchBreaks(a)
  PROVE  CountInv'
<1> USE TypeParts DEF ActorInv
<1>1. Frame(a) /\ pc[a] \in {"row", "match"} /\ pc'[a] \in {"match", "commit"}
  BY RowMoves
<1>2. row' = row /\ job' = job /\ msg' = msg
  BY DEF LoadRow, MatchSucceeds, MatchExhausted, MatchBreaks, Decide
<1>3. rec'[a].retry = (row'[msg'[a].row].attempts > 0)
  <2>1. CASE LoadRow(a)
    <3>1. rec'[a].retry = IsRetry(msg[a].row)
      BY <2>1 DEF LoadRow, ActorTypes, NoRec
    <3> QED BY <1>2, <3>1 DEF IsRetry
  <2>2. CASE MatchSucceeds(a) \/ MatchExhausted(a) \/ MatchBreaks(a)
    <3>1. rec'[a].retry = rec[a].retry /\ pc[a] = "match"
      BY <2>2 DEF MatchSucceeds, MatchExhausted, MatchBreaks, Decide, ActorTypes
    <3>2. rec[a].retry = (row[msg[a].row].attempts > 0)
      BY <3>1 DEF CountInv, CountRec
    <3> QED BY <1>2, <3>1, <3>2
  <2> QED BY <2>1, <2>2
<1>4. pc[a] # "bump" /\ pc'[a] # "bump"
  BY <1>1
<1> QED BY <1>1, <1>2, <1>3, <1>4, CountQuiet

LEMMA CountRun ==
  ASSUME TypeInv, TokenInv, CountInv, NEW a \in Actors, Run(a)
  PROVE  CountInv'
<1> USE TypeParts DEF ActorInv
<1>1. CASE CommitRow(a) \/ BumpCounters(a)
  BY <1>1, CountCommitRow, CountBumpCounters
<1>2. CASE LoadRow(a) \/ MatchSucceeds(a) \/ MatchExhausted(a) \/ MatchBreaks(a)
  BY <1>2, CountRow
<1>3. CASE MatchRetries(a) \/ Settle(a) \/ Claim(a) \/ PublishFinalize(a)
  <2>1. Frame(a) /\ pc[a] # "bump"
        /\ pc'[a] \in {"idle", "claim", "select", "publish_finalize"}
    BY <1>3, RowMoves
  <2>2. row' = row /\ CountersKept
    BY <1>3 DEF MatchRetries, Settle, Claim, PublishFinalize, CountersKept, DataTypes, JobType
  <2> QED BY <2>1, <2>2, RowsKeptSame, CountAway
<1>4. CASE WindowStep(a)
  <2>1. Frame(a) /\ pc[a] # "bump"
        /\ pc'[a] \in {"idle", "select", "claim_rows", "publish_rows"}
    BY <1>4, WindowMoves DEF WindowStep
  <2>2. CountersKept
    BY <1>4 DEF WindowStep, SelectWindow, ClaimRows, PublishRow, RowsPublished, CountersKept
  <2>3. RowsKept
    <3>1. CASE ClaimRows(a)
      BY <3>1 DEF ClaimRows, Won, Pending, RowsKept, DataTypes
    <3>2. CASE ~ClaimRows(a)
      BY <1>4, <3>2, RowsKeptSame DEF WindowStep, SelectWindow, PublishRow, RowsPublished
    <3> QED BY <3>1, <3>2
  <2> QED BY <2>1, <2>2, <2>3, CountAway
<1>5. CASE DispatchStep(a)
  <2>1. Frame(a) /\ pc[a] # "bump"
        /\ pc'[a] \in {"sync_mark", "d_mark", "sync", "publish_finalize", "select", "idle"}
    BY <1>5, DispatchMoves DEF DispatchStep
  <2>2. row' = row /\ CountersKept
    BY <1>5
    DEF DispatchStep, DispatchLoad, SyncMark, SyncRuns, DispatchMark, DispatchFailed,
        CountersKept, DataTypes, JobType
  <2> QED BY <2>1, <2>2, RowsKeptSame, CountAway
<1>6. CASE EndStep(a) \/ EndpointStep(a)
  <2>1. Frame(a) /\ pc[a] # "bump" /\ pc'[a] \in {"idle", "f_commit", "reopen", "select"}
    BY <1>6, EndMoves DEF EndStep, EndpointStep
  <2>2. CountersKept
    BY <1>6
    DEF EndStep, EndpointStep, FinalizeLoad, FinalizeCommit, RetrySelect, RetryReopen, Reopened,
        RetryQueued, RetryNothing, CountersKept, DataTypes, JobType
  <2>3. RowsKept
    <3>1. CASE RetryReopen(a)
      <4>1. \A r \in want[a].rows : row[r].status = "failed"
        BY <3>1 DEF RetryReopen, TokenInv, TokenReopen
      <4> QED BY <3>1, <4>1 DEF RetryReopen, RowsKept, DataTypes
    <3>2. CASE ~RetryReopen(a)
      BY <1>6, <3>2, RowsKeptSame
      DEF EndStep, EndpointStep, FinalizeLoad, FinalizeCommit, RetrySelect, RetryQueued,
          RetryNothing
    <3> QED BY <3>1, <3>2
  <2> QED BY <2>1, <2>2, <2>3, CountAway
<1>7. CASE TickStep(a)
  <2>1. Frame(a) /\ pc[a] # "bump"
        /\ pc'[a] \in {"sweep", "sweep_claim", "topup", "sweep_publish", "idle", "select"}
    BY <1>7, TickMoves DEF TickStep
  <2>2. row' = row /\ CountersKept
    BY <1>7
    DEF TickStep, TickRemaining, SweepSelect, SweepClaim, SweepPublish, TopUp, CountersKept,
        DataTypes, JobType
  <2> QED BY <2>1, <2>2, RowsKeptSame, CountAway
<1> QED BY <1>1, <1>2, <1>3, <1>4, <1>5, <1>6, <1>7 DEF Run, RowStep

LEMMA CountFault ==
  ASSUME BumpHolds, TypeInv, TokenInv, CountInv, NEW a \in Actors, Raise(a) \/ Crash(a)
  PROVE  CountInv'
<1> USE TypeParts DEF ActorInv
<1>1. Frame(a) /\ row' = row /\ job' = job
  BY FaultMoves DEF Raise, RaiseInRow, RaiseAndEnd, RaiseInDispatch, RaiseInSweep, Crash
<1>2. pc[a] # "bump"
  <2>1. CASE RaiseInRow(a)
    BY <2>1 DEF RaiseInRow, Fault, BumpHolds
  <2>2. CASE Crash(a)
    BY <2>2 DEF Crash, Fault, BumpHolds
  <2>3. CASE RaiseAndEnd(a) \/ RaiseInDispatch(a) \/ RaiseInSweep(a)
    BY <2>3 DEF RaiseAndEnd, RaiseInDispatch, RaiseInSweep
  <2> QED BY <2>1, <2>2, <2>3 DEF Raise
<1>3. CASE pc'[a] \in {"idle", "d_failed", "topup"}
  BY <1>1, <1>2, <1>3, RowsKeptSame, CountAway DEF CountersKept
<1>4. CASE pc'[a] \notin {"idle", "d_failed", "topup"}
  <2>1. RaiseInRow(a) /\ pc'[a] = "commit" /\ pc[a] = "commit"
    BY <1>2, <1>4, FaultMoves DEF Raise
  <2>2. msg' = msg /\ rec'[a].retry = rec[a].retry
    BY <1>4, <2>1 DEF RaiseInRow, Release, Goto, ActorTypes
  <2>3. rec[a].retry = (row[msg[a].row].attempts > 0)
    BY <2>1 DEF CountInv, CountRec
  <2>4. rec'[a].retry = (row'[msg'[a].row].attempts > 0) /\ pc'[a] # "bump"
    BY <1>1, <2>1, <2>2, <2>3
  <2> QED BY <1>1, <1>2, <2>4, CountQuiet
<1> QED BY <1>3, <1>4

LEMMA CountStart ==
  ASSUME TypeInv, TokenInv, CountInv, NEW a \in Actors,
         Take(a) \/ TickStart(a) \/ RetryFlip(a)
  PROVE  CountInv'
<1> USE TypeParts DEF ActorInv
<1>1. Frame(a) /\ pc[a] = "idle"
  BY StartMoves
<1>2. pc'[a] \notin {"match", "commit", "bump"}
  <2>1. CASE Take(a)
    <3>1. PICK m \in QueueMsgs : pc'[a] = m.task
      BY <2>1 DEF Take, Goto, ActorTypes
    <3> QED BY <3>1, MsgTasks
  <2> QED BY <2>1, StartMoves
<1>3. row' = row /\ CountersKept
  BY DEF Take, TickStart, RetryFlip, CountersKept, DataTypes, JobType
<1> QED BY <1>1, <1>2, <1>3, RowsKeptSame, CountAway

LEMMA StepCount ==
  ASSUME BumpHolds
  PROVE  TypeInv /\ TokenInv /\ CountInv /\ [Next]_vars => CountInv'
<1> SUFFICES ASSUME TypeInv, TokenInv, CountInv, [Next]_vars PROVE CountInv'
  OBVIOUS
<1>1. CASE UNCHANGED vars
  BY <1>1 DEF CountInv, CountRec, CountersMatchRows, Bumping, Tried, Missed, At, vars, local
<1> QED BY <1>1, CountStart, CountRun, CountFault DEF Next, Actors

LEMMA InitCount == Init => CountInv
<1> SUFFICES ASSUME Init PROVE CountInv
  OBVIOUS
<1>1. CountRec
  BY DEF Init, CountRec
<1>2. At({"bump"}) = {} /\ \A x, O : Bumping(x, O) = {}
  BY DEF Init, At, Bumping
<1>3. Tried = {} /\ Missed = {} /\ Tried \ Missed = {}
  BY DEF Init, Tried, Missed
<1>4. CountersMatchRows
  <2>1. job.processed = 0 /\ job.failed = 0 /\ job.matched = 0 /\ job.no_match = 0
    BY DEF Init
  <2>2. Cardinality({}) = 0
    BY FS_EmptySet
  <2>3. Balance(job, Cardinality({}), Cardinality({}), Cardinality({}), Cardinality({}),
                Cardinality({}), Cardinality({}), Cardinality({}))
    BY <2>1, <2>2 DEF Balance
  <2> QED BY <1>2, <1>3, <2>3, CountersBalance
<1> QED BY <1>1, <1>2, <1>4, FS_EmptySet DEF CountInv

(* The counters agree with the rows, up to updates under way, provided that *)
(* retries cannot overlap and that the update of the counters, in a         *)
(* transaction of its own after the row's, is not what fails.               *)
THEOREM CountersMatchRowsHolds ==
  ASSUME DispatchHolds \/ MaxRequests <= 1, BumpHolds
  PROVE  Spec => []CountersMatchRows
<1>1. <<"raise", "bump">> \notin FaultPoints
  BY DEF BumpHolds
<1>2. TypeInv /\ TokenInv /\ CountInv /\ [Next]_vars => CountInv'
  BY StepCount
<1>3. CountInv => CountersMatchRows
  BY DEF CountInv
<1> QED BY <1>1, <1>2, <1>3, InitCount, TokenInvariant, TypeInvariant, PTL DEF Spec
=============================================================================
