--------------------------- MODULE FairShareProofs ---------------------------
(***************************************************************************)
(* Proofs about FairShare: the turns of a tick are fair and no job floods  *)
(* the shared queue, for any number of jobs, rows and workers.             *)
(***************************************************************************)
EXTENDS FairShare, FiniteSetTheorems, FunctionTheorems, SequenceTheorems, TLAPS

-----------------------------------------------------------------------------
(* Counting the messages of a queue and the workers at a step.             *)

Copies(s, m) == {k \in 1 .. Len(s) : s[k] = m}
Count(s, m) == Cardinality(Copies(s, m))
Holders(h, v) == {w \in Workers : h[w] = v}
Held(h, v) == Cardinality(Holders(h, v))

LEMMA CopiesFinite ==
  ASSUME NEW M, NEW s \in Seq(M), NEW m
  PROVE  /\ IsFiniteSet(Copies(s, m)) /\ Count(s, m) \in Nat
         /\ \A k \in 1 .. Len(s) : s[k] = m => Count(s, m) > 0
<1>1. IsFiniteSet(1 .. Len(s)) /\ Copies(s, m) \subseteq 1 .. Len(s)
  BY FS_Interval DEF Copies
<1>2. IsFiniteSet(Copies(s, m))
  BY <1>1, FS_Subset
<1>3. Count(s, m) \in Nat /\ (Count(s, m) = 0 <=> Copies(s, m) = {})
  BY <1>2, FS_CardinalityType, FS_EmptySet DEF Count
<1> QED BY <1>2, <1>3 DEF Copies

LEMMA HoldersFinite ==
  ASSUME NEW h, NEW v
  PROVE  /\ IsFiniteSet(Holders(h, v)) /\ Held(h, v) \in Nat
         /\ Held(h, v) <= Cardinality(Workers)
         /\ \A w \in Workers : h[w] = v => Held(h, v) > 0
<1>1. IsFiniteSet(Workers) /\ Holders(h, v) \subseteq Workers
  BY ShareAssumption DEF Holders
<1>2. IsFiniteSet(Holders(h, v)) /\ Cardinality(Holders(h, v)) <= Cardinality(Workers)
  BY <1>1, FS_Subset
<1>3. Held(h, v) \in Nat /\ (Held(h, v) = 0 <=> Holders(h, v) = {})
  BY <1>2, FS_CardinalityType, FS_EmptySet DEF Held
<1> QED BY <1>2, <1>3 DEF Holders, Held

(* Two different things are held by different workers.                     *)
LEMMA HeldTogether ==
  ASSUME NEW h, NEW u, NEW v, u # v
  PROVE  Held(h, u) + Held(h, v) <= Cardinality(Workers)
<1>1. IsFiniteSet(Holders(h, u)) /\ IsFiniteSet(Holders(h, v))
      /\ Held(h, u) \in Nat /\ Held(h, v) \in Nat
  BY HoldersFinite
<1>2. Holders(h, u) \cap Holders(h, v) = {}
  BY DEF Holders
<1>3. Cardinality(Holders(h, u) \cup Holders(h, v)) = Held(h, u) + Held(h, v)
  <2>1. Cardinality(Holders(h, u) \cup Holders(h, v))
          = Cardinality(Holders(h, u)) + Cardinality(Holders(h, v)) - Cardinality({})
    BY <1>1, <1>2, FS_Union
  <2>2. Cardinality({}) = 0
    BY FS_EmptySet
  <2> QED BY <1>1, <2>1, <2>2 DEF Held
<1>4. IsFiniteSet(Workers) /\ Holders(h, u) \cup Holders(h, v) \subseteq Workers
  BY ShareAssumption DEF Holders
<1> QED BY <1>3, <1>4, FS_Subset

(* One worker goes from one thing to another.                              *)
LEMMA Regrip ==
  ASSUME NEW h, NEW g, NEW w \in Workers, NEW u, NEW v,
         g[w] = u, \A x \in Workers : x # w => g[x] = h[x]
  PROVE  Held(g, v) = Held(h, v) - (IF h[w] = v THEN 1 ELSE 0) + (IF u = v THEN 1 ELSE 0)
<1>1. IsFiniteSet(Holders(h, v)) /\ Held(h, v) \in Nat
  BY HoldersFinite
<1>2. IsFiniteSet(Holders(h, v) \ {w})
      /\ Cardinality(Holders(h, v) \ {w}) = IF h[w] = v THEN Held(h, v) - 1 ELSE Held(h, v)
  BY <1>1, FS_RemoveElement DEF Held, Holders
<1>3. Holders(g, v) = IF u = v THEN (Holders(h, v) \ {w}) \cup {w} ELSE Holders(h, v) \ {w}
  BY DEF Holders
<1>4. Cardinality((Holders(h, v) \ {w}) \cup {w}) = Cardinality(Holders(h, v) \ {w}) + 1
  BY <1>2, FS_AddElement
<1>5. Held(g, v) = IF u = v THEN Cardinality(Holders(h, v) \ {w}) + 1 ELSE Cardinality(Holders(h, v) \ {w})
  BY <1>3, <1>4 DEF Held
<1>6. Held(g, v) = Held(h, v) - (IF h[w] = v THEN 1 ELSE 0) + (IF u = v THEN 1 ELSE 0)
  BY <1>1, <1>2, <1>5
<1> QED BY <1>6

LEMMA CountAppend ==
  ASSUME NEW M, NEW s \in Seq(M), NEW a \in M, NEW m
  PROVE  Count(Append(s, a), m) = Count(s, m) + (IF a = m THEN 1 ELSE 0)
<1> DEFINE t == Append(s, a)  n == Len(s) + 1
<1>1. Len(t) = n /\ t[n] = a /\ \A k \in 1 .. Len(s) : t[k] = s[k]
  OBVIOUS
<1>2. Len(s) \in Nat /\ n \notin 1 .. Len(s) /\ 1 .. n = (1 .. Len(s)) \cup {n}
  OBVIOUS
<1> HIDE DEF t, n
<1>3. Copies(t, m) = IF a = m THEN Copies(s, m) \cup {n} ELSE Copies(s, m)
  BY <1>1, <1>2 DEF Copies
<1>4. n \notin Copies(s, m)
  BY <1>2 DEF Copies
<1>6. Count(s, m) \in Nat /\ Cardinality(Copies(s, m) \cup {n}) = Count(s, m) + 1
  BY <1>4, CopiesFinite, FS_AddElement DEF Count
<1>5. Count(t, m) = Count(s, m) + (IF a = m THEN 1 ELSE 0)
  BY <1>3, <1>6 DEF Count
<1> QED BY <1>5 DEF t

LEMMA CountRows ==
  ASSUME NEW M, NEW s \in Seq(M), NEW r \in Seq(M), NEW a \in M, NEW m,
         \A i \in 1 .. Len(r) : r[i] = a
  PROVE  Count(s \o r, m) = Count(s, m) + (IF a = m THEN Len(r) ELSE 0)
<1>1. PICK t, n, new : t = s \o r /\ n = Len(r) /\ new = Len(s) + 1 .. Len(s) + n
  OBVIOUS
<1>2. Len(s) \in Nat /\ n \in Nat /\ Len(t) = Len(s) + n
      /\ \A k \in 1 .. Len(s) + n : t[k] = IF k <= Len(s) THEN s[k] ELSE a
  <2>1. Len(s) \in Nat /\ n \in Nat
    BY <1>1
  <2>2. Len(t) = Len(s) + n
        /\ \A k \in 1 .. Len(s) + n : t[k] = IF k <= Len(s) THEN s[k] ELSE r[k - Len(s)]
    BY <1>1, ConcatProperties
  <2>3. \A k \in 1 .. Len(s) + n : k > Len(s) => k - Len(s) \in 1 .. n
    BY <2>1
  <2> QED BY <1>1, <2>1, <2>2, <2>3
<1>3. IsFiniteSet(new) /\ Cardinality(new) = n
  <2>1. Len(s) + 1 \in Int /\ Len(s) + n \in Int
    BY <1>2
  <2>2. IsFiniteSet(new)
        /\ Cardinality(new) = IF Len(s) + 1 > Len(s) + n THEN 0 ELSE (Len(s) + n) - (Len(s) + 1) + 1
    BY <1>1, <2>1, FS_Interval
  <2> QED BY <1>2, <2>2
<1>4. Copies(t, m) = IF a = m THEN Copies(s, m) \cup new ELSE Copies(s, m)
  BY <1>1, <1>2 DEF Copies
<1>5. Copies(s, m) \cap new = {}
  BY <1>1, <1>2 DEF Copies
<1>6. Cardinality(Copies(s, m) \cup new) = Count(s, m) + n
  <2>1. IsFiniteSet(Copies(s, m)) /\ Count(s, m) \in Nat
    BY CopiesFinite
  <2>2. Cardinality(Copies(s, m) \cup new) = Cardinality(Copies(s, m)) + Cardinality(new) - Cardinality({})
    BY <1>3, <1>5, <2>1, FS_Union
  <2>3. Cardinality({}) = 0
    BY FS_EmptySet
  <2> QED BY <1>2, <1>3, <2>1, <2>2, <2>3 DEF Count
<1>7. Count(t, m) = Count(s, m) + (IF a = m THEN n ELSE 0)
  BY <1>4, <1>6, CopiesFinite DEF Count
<1> QED BY <1>1, <1>7

LEMMA CountTail ==
  ASSUME NEW M, NEW s \in Seq(M), s # <<>>, NEW m
  PROVE  Count(s, m) = Count(Tail(s), m) + (IF Head(s) = m THEN 1 ELSE 0)
<1> DEFINE t == Tail(s)  later == {k \in 2 .. Len(s) : s[k] = m}
<1>1. Len(s) \in Nat \ {0} /\ t \in Seq(M) /\ Len(t) = Len(s) - 1 /\ Head(s) = s[1]
      /\ \A k \in 1 .. Len(s) - 1 : t[k] = s[k + 1]
  OBVIOUS
<1> HIDE DEF t
<1>2. Copies(s, m) = IF Head(s) = m THEN later \cup {1} ELSE later
  BY <1>1 DEF Copies
<1>3. [k \in Copies(t, m) |-> k + 1] \in Bijection(Copies(t, m), later)
  <2>1. \A k \in Copies(t, m) : k \in Nat /\ k + 1 \in later
    BY <1>1 DEF Copies
  <2>2. \A l \in later : l - 1 \in Copies(t, m) /\ (l - 1) + 1 = l
    BY <1>1 DEF Copies
  <2> HIDE DEF later
  <2> DEFINE f == [k \in Copies(t, m) |-> k + 1]
  <2>3. f \in [Copies(t, m) -> later] /\ \A k \in Copies(t, m) : f[k] = k + 1
    BY <2>1
  <2>4. \A k, l \in Copies(t, m) : f[k] = f[l] => k = l
    BY <2>1, <2>3
  <2>5. \A l \in later : \E k \in Copies(t, m) : f[k] = l
    BY <2>2, <2>3
  <2> HIDE DEF f
  <2>6. f \in Bijection(Copies(t, m), later)
    BY <2>3, <2>4, <2>5, Fun_IsBij
  <2> QED BY <2>6 DEF f
<1>4. IsFiniteSet(later) /\ Cardinality(later) = Count(t, m)
  BY <1>1, <1>3, CopiesFinite, FS_Bijection DEF ExistsBijection, Count
<1>5. 1 \notin later
  OBVIOUS
<1> HIDE DEF later
<1>6. Cardinality(later \cup {1}) = Cardinality(later) + 1
  BY <1>4, <1>5, FS_AddElement
<1>7. Count(t, m) \in Nat
  BY <1>1, CopiesFinite
<1> QED BY <1>2, <1>4, <1>6, <1>7 DEF Count, t

-----------------------------------------------------------------------------
(* The inductive invariant.  A job's dispatch is one message or one worker *)
(* at its start, its finalize task likewise, and its outstanding rows are  *)
(* the row messages and the workers that have one in hand.                 *)

Queued(m) == Count(queue, m)
At(step, j) == Held(hand, [step |-> step, job |-> j])

Dispatches(j) == Queued(Msg("dispatch", j)) + At("mark", j)
RowCopies(j) == Queued(Msg("row", j)) + At("row", j)
Finalizes(j) == Queued(Msg("finalize", j)) + At("finalize", j)
Settling(j) == At("settle", j)
FirstDue(j) == At("first_window", j)

Begun(j) == job[j].phase \notin {"new", "queued"}

JobInv(j) ==
  /\ job[j].phase = "new" => Dispatches(j) = 0
  /\ job[j].phase = "queued" => Dispatches(j) = 1
  /\ ~Begun(j) => /\ RowCopies(j) = 0 /\ Finalizes(j) = 0 /\ Settling(j) = 0 /\ FirstDue(j) = 0
                  /\ job[j].dispatched = 0
  /\ Begun(j) => Dispatches(j) = 0 /\ FirstDue(j) <= 1
  /\ job[j].phase = "processing" => Finalizes(j) = 0
  /\ job[j].phase \in {"claimed", "completed"} => job[j].processed = Total[j] /\ Finalizes(j) <= 1
  /\ job[j].phase = "completed" => Finalizes(j) = 0
  /\ RowCopies(j) = Outstanding(j)

CountInv == \A j \in Jobs : JobInv(j)

LEMMA CountsNat ==
  ASSUME TypeOK, NEW j \in Jobs
  PROVE  /\ Dispatches(j) \in Nat /\ RowCopies(j) \in Nat /\ Finalizes(j) \in Nat
         /\ Settling(j) \in Nat /\ FirstDue(j) \in Nat
         /\ job[j].dispatched \in Nat /\ job[j].processed \in Nat /\ Total[j] \in Nat
         /\ job[j].processed <= job[j].dispatched /\ job[j].dispatched <= Total[j]
         /\ Settling(j) + FirstDue(j) <= Cardinality(Workers) /\ Cardinality(Workers) \in Nat
<1>1. queue \in Seq([task : Tasks, job : Jobs])
  BY DEF TypeOK
<1>2. \A m : Queued(m) \in Nat
  BY <1>1, CopiesFinite DEF Queued
<1>3. \A st : At(st, j) \in Nat
  BY HoldersFinite DEF At
<1>4. [step |-> "settle", job |-> j] # [step |-> "first_window", job |-> j]
  OBVIOUS
<1>5. Settling(j) + FirstDue(j) <= Cardinality(Workers)
  BY <1>4, HeldTogether DEF Settling, FirstDue, At
<1>6. Cardinality(Workers) \in Nat
  BY ShareAssumption, FS_CardinalityType
<1>7. /\ Total[j] \in Nat /\ job[j].dispatched \in Nat /\ job[j].processed \in Nat
      /\ job[j].processed <= job[j].dispatched /\ job[j].dispatched <= Total[j]
  BY ShareAssumption DEF TypeOK
<1>8. /\ Dispatches(j) \in Nat /\ RowCopies(j) \in Nat /\ Finalizes(j) \in Nat
      /\ Settling(j) \in Nat /\ FirstDue(j) \in Nat
  BY <1>2, <1>3 DEF Dispatches, RowCopies, Finalizes, Settling, FirstDue
<1> QED BY <1>5, <1>6, <1>7, <1>8

-----------------------------------------------------------------------------
(* What the steps do to the counts.                                        *)

SameCounts(j) ==
  /\ Dispatches(j)' = Dispatches(j) /\ RowCopies(j)' = RowCopies(j) /\ Finalizes(j)' = Finalizes(j)
  /\ Settling(j)' = Settling(j) /\ FirstDue(j)' = FirstDue(j)

(* Worker w lets go of what it is at and takes up v.                       *)
Step(st, j) == [step |-> st, job |-> j]

Turns(w, v) == hand'[w] = v /\ \A x \in Workers : x # w => hand'[x] = hand[x]

LEMMA HandTurns ==
  ASSUME TypeOK, NEW w \in Workers, NEW v, hand' = [hand EXCEPT ![w] = v]
  PROVE  Turns(w, v)
  BY DEF TypeOK, Turns

LEMMA HandMoves ==
  ASSUME NEW w \in Workers, NEW v, Turns(w, v)
  PROVE  \A st, j : At(st, j)' = At(st, j) - (IF hand[w] = Step(st, j) THEN 1 ELSE 0)
                                          + (IF v = Step(st, j) THEN 1 ELSE 0)
<1>1. PICK g, h : g = hand' /\ h = hand
  OBVIOUS
<1>2. g[w] = v /\ \A x \in Workers : x # w => g[x] = h[x]
  BY <1>1 DEF Turns
<1>3. \A u : Held(g, u) = Held(h, u) - (IF h[w] = u THEN 1 ELSE 0) + (IF v = u THEN 1 ELSE 0)
  BY <1>2, Regrip
<1> QED BY <1>1, <1>3 DEF At, Step

LEMMA Appended ==
  ASSUME TypeOK, NEW a \in [task : Tasks, job : Jobs], queue' = Append(queue, a)
  PROVE  \A m : Queued(m)' = Queued(m) + (IF a = m THEN 1 ELSE 0)
<1>1. queue \in Seq([task : Tasks, job : Jobs])
  BY DEF TypeOK
<1>2. \A m : Count(Append(queue, a), m) = Count(queue, m) + (IF a = m THEN 1 ELSE 0)
  BY <1>1, CountAppend
<1> QED BY <1>2 DEF Queued

LEMMA RowsAppended ==
  ASSUME TypeOK, NEW x \in Jobs, NEW n \in Nat, queue' = queue \o Rows(x, n)
  PROVE  /\ queue' \in Seq([task : Tasks, job : Jobs])
         /\ \A m : Queued(m)' = Queued(m) + (IF Msg("row", x) = m THEN n ELSE 0)
<1>1. queue \in Seq([task : Tasks, job : Jobs])
  BY DEF TypeOK
<1>2. Msg("row", x) \in [task : Tasks, job : Jobs]
  BY DEF Msg, Tasks
<1>3. PICK M, q, r, a : /\ M = [task : Tasks, job : Jobs] /\ q = queue
                        /\ r = Rows(x, n) /\ a = Msg("row", x)
  OBVIOUS
<1>4. a \in M /\ q \in Seq(M) /\ r \in Seq(M) /\ Len(r) = n /\ \A i \in 1 .. Len(r) : r[i] = a
  BY <1>1, <1>2, <1>3 DEF Rows
<1>5. q \o r \in Seq(M)
  BY <1>4, ConcatProperties
<1>6. \A m : Count(q \o r, m) = Count(q, m) + (IF a = m THEN Len(r) ELSE 0)
  BY <1>4, CountRows
<1>7. Len(r) = n
  BY <1>4
<1> QED BY <1>3, <1>5, <1>6, <1>7 DEF Queued

LEMMA Removed ==
  ASSUME TypeOK, queue # <<>>, queue' = Tail(queue)
  PROVE  \A m : Queued(m) = Queued(m)' + (IF Head(queue) = m THEN 1 ELSE 0)
<1>1. queue \in Seq([task : Tasks, job : Jobs])
  BY DEF TypeOK
<1>2. \A m : Count(queue, m) = Count(Tail(queue), m) + (IF Head(queue) = m THEN 1 ELSE 0)
  BY <1>1, CountTail
<1> QED BY <1>2 DEF Queued

LEMMA Distinct ==
  /\ \A t, u, j, l : Msg(t, j) = Msg(u, l) <=> t = u /\ j = l
  /\ \A t, u, j, l : Step(t, j) = Step(u, l) <=> t = u /\ j = l
  /\ \A t, j : t # "free" => Free # Step(t, j)
  BY DEF Msg, Step, Free

LEMMA Still ==
  ASSUME queue' = queue, hand' = hand
  PROVE  /\ \A m : Queued(m)' = Queued(m)
         /\ \A st, j : At(st, j)' = At(st, j)
  BY DEF Queued, At

LEMMA SubmitCounts ==
  ASSUME TypeOK, NEW x \in Jobs, Submit(x)
  PROVE  /\ Dispatches(x)' = Dispatches(x) + 1
         /\ \A j \in Jobs : /\ RowCopies(j)' = RowCopies(j) /\ Finalizes(j)' = Finalizes(j)
                            /\ Settling(j)' = Settling(j) /\ FirstDue(j)' = FirstDue(j)
                            /\ j # x => Dispatches(j)' = Dispatches(j)
<1>1. Msg("dispatch", x) \in [task : Tasks, job : Jobs]
  BY DEF Msg, Tasks
<1>2. queue' = Append(queue, Msg("dispatch", x)) /\ hand' = hand
  BY DEF Submit
<1>3. \A m : Queued(m)' = Queued(m) + (IF Msg("dispatch", x) = m THEN 1 ELSE 0)
  BY <1>1, <1>2, Appended
<1>4. \A st, j : At(st, j)' = At(st, j)
  BY <1>2 DEF At
<1>5. \A j : /\ Queued(Msg("dispatch", j))' = Queued(Msg("dispatch", j)) + (IF j = x THEN 1 ELSE 0)
             /\ Queued(Msg("row", j))' = Queued(Msg("row", j)) + 0
             /\ Queued(Msg("finalize", j))' = Queued(Msg("finalize", j)) + 0
  BY <1>3, Distinct
<1>6. \A m : Queued(m) \in Nat
  BY CopiesFinite DEF Queued, TypeOK
<1>7. \A st, j : At(st, j) \in Nat
  BY HoldersFinite DEF At
<1> QED BY <1>4, <1>5, <1>6, <1>7 DEF Dispatches, RowCopies, Finalizes, Settling, FirstDue

LEMMA TakeCounts ==
  ASSUME TypeOK, NEW w \in Workers, Take(w)
  PROVE  \A j \in Jobs : SameCounts(j)
<1>1. PICK t, x : t = Head(queue).task /\ x = Head(queue).job
  OBVIOUS
<1>2. /\ queue # <<>> /\ queue \in Seq([task : Tasks, job : Jobs]) /\ Head(queue) \in [task : Tasks, job : Jobs]
      /\ queue' = Tail(queue) /\ hand' = [hand EXCEPT ![w] = Step(Entered(t), x)] /\ hand[w] = Free
  <2>1. queue # <<>> /\ queue \in Seq([task : Tasks, job : Jobs])
    BY DEF TypeOK, Take
  <2>2. Head(queue) \in [task : Tasks, job : Jobs]
    <3> DEFINE M == [task : Tasks, job : Jobs]
    <3>1. queue \in Seq(M)
      BY <2>1
    <3> HIDE DEF M
    <3>2. Head(queue) \in M
      BY <2>1, <3>1
    <3> QED BY <3>2 DEF M
  <2>3. queue' = Tail(queue) /\ hand' = [hand EXCEPT ![w] = Step(Entered(t), x)] /\ hand[w] = Free
    BY <1>1 DEF Take, Does, Step
  <2> QED BY <2>1, <2>2, <2>3
<1>3. Head(queue) = Msg(t, x) /\ t \in Tasks
  BY <1>1, <1>2 DEF Msg
<1>4. \A m : Queued(m) = Queued(m)' + (IF Msg(t, x) = m THEN 1 ELSE 0)
  BY <1>2, <1>3, Removed
<1>5. \A st, j : At(st, j)' = At(st, j) - (IF Free = Step(st, j) THEN 1 ELSE 0)
                                       + (IF Step(Entered(t), x) = Step(st, j) THEN 1 ELSE 0)
  <2>1. PICK v : v = Step(Entered(t), x)
    OBVIOUS
  <2>2. Turns(w, v)
    BY <1>2, <2>1, HandTurns
  <2>3. \A st, j : At(st, j)' = At(st, j) - (IF hand[w] = Step(st, j) THEN 1 ELSE 0)
                                        + (IF v = Step(st, j) THEN 1 ELSE 0)
    BY <2>2, HandMoves
  <2> QED BY <1>2, <2>1, <2>3
<1>6. \A m : Queued(m) \in Nat /\ Queued(m)' \in Nat
  <2>1. queue' \in Seq([task : Tasks, job : Jobs])
    BY <1>2
  <2>2. \A m : Count(queue, m) \in Nat /\ Count(queue', m) \in Nat
    BY <1>2, <2>1, CopiesFinite
  <2> QED BY <2>2 DEF Queued
<1>7. \A st, j : At(st, j) \in Nat
  BY HoldersFinite DEF At
<1>8. \A j : /\ Queued(Msg("dispatch", j)) = Queued(Msg("dispatch", j))' + (IF t = "dispatch" /\ j = x THEN 1 ELSE 0)
             /\ Queued(Msg("row", j)) = Queued(Msg("row", j))' + (IF t = "row" /\ j = x THEN 1 ELSE 0)
             /\ Queued(Msg("finalize", j)) = Queued(Msg("finalize", j))' + (IF t = "finalize" /\ j = x THEN 1 ELSE 0)
  BY <1>4, Distinct
<1>9. \A st, j : st # "free" => At(st, j)' = At(st, j) + (IF Entered(t) = st /\ x = j THEN 1 ELSE 0)
  BY <1>5, <1>7, Distinct
<1>10. Entered(t) = CASE t = "dispatch" -> "mark" [] t = "row" -> "row" [] t = "finalize" -> "finalize"
  BY DEF Entered
<1>11. \A j : /\ At("mark", j)' = At("mark", j) + (IF t = "dispatch" /\ j = x THEN 1 ELSE 0)
              /\ At("row", j)' = At("row", j) + (IF t = "row" /\ j = x THEN 1 ELSE 0)
              /\ At("finalize", j)' = At("finalize", j) + (IF t = "finalize" /\ j = x THEN 1 ELSE 0)
              /\ At("settle", j)' = At("settle", j) + 0 /\ At("first_window", j)' = At("first_window", j) + 0
  BY <1>3, <1>9, <1>10 DEF Tasks
<1> HIDE <1>10
<1> QED BY <1>6, <1>7, <1>8, <1>11 DEF SameCounts, Dispatches, RowCopies, Finalizes, Settling, FirstDue

LEMMA InHand ==
  ASSUME TypeOK, NEW w \in Workers, NEW st, st # "free", hand[w].step = st
  PROVE  hand[w].job \in Jobs /\ hand[w] = Step(st, hand[w].job)
<1>1. hand[w] \in [step : Steps, job : Jobs] \cup {Free}
  BY DEF TypeOK
<1>2. hand[w] \in [step : Steps, job : Jobs]
  BY <1>1 DEF Free
<1> QED BY <1>2 DEF Step

(* Worker w is free again.                                                 *)
LEMMA LetsGo ==
  ASSUME TypeOK, NEW w \in Workers, NEW x, NEW st, hand[w] = Step(st, x), Turns(w, Free)
  PROVE  \A s, j : s # "free" => At(s, j)' = At(s, j) - (IF s = st /\ j = x THEN 1 ELSE 0)
<1>1. PICK v : v = Free
  OBVIOUS
<1>2. Turns(w, v)
  BY <1>1
<1>3. \A s, j : At(s, j)' = At(s, j) - (IF hand[w] = Step(s, j) THEN 1 ELSE 0)
                                     + (IF v = Step(s, j) THEN 1 ELSE 0)
  BY <1>2, HandMoves
<1>4. \A s, j : At(s, j) \in Nat
  BY HoldersFinite DEF At
<1>5. \A s, j : (hand[w] = Step(s, j) <=> s = st /\ j = x) /\ (s # "free" => v # Step(s, j))
  BY <1>1, Distinct
<1> QED BY <1>3, <1>4, <1>5

LEMMA Numbers ==
  ASSUME TypeOK
  PROVE  (\A m : Queued(m) \in Nat) /\ (\A st, j : At(st, j) \in Nat)
  BY CopiesFinite, HoldersFinite DEF Queued, At, TypeOK

LEMMA DispatchMarkCounts ==
  ASSUME TypeOK, NEW w \in Workers, NEW x, x = hand[w].job, DispatchMark(w)
  PROVE  /\ x \in Jobs /\ Dispatches(x) > 0
         /\ \A j \in Jobs : /\ Dispatches(j)' = Dispatches(j) - (IF j = x THEN 1 ELSE 0)
                            /\ FirstDue(j)' = FirstDue(j) + (IF j = x THEN 1 ELSE 0)
                            /\ RowCopies(j)' = RowCopies(j) /\ Finalizes(j)' = Finalizes(j)
                            /\ Settling(j)' = Settling(j)
<1>1. x \in Jobs /\ hand[w] = Step("mark", x)
  BY InHand DEF DispatchMark
<1>2. \A m : Queued(m)' = Queued(m)
  BY DEF DispatchMark, Queued
<1>3. \A s, j : At(s, j)' = At(s, j) - (IF s = "mark" /\ j = x THEN 1 ELSE 0)
                                     + (IF s = "first_window" /\ j = x THEN 1 ELSE 0)
  <2>1. PICK v : v = Step("first_window", x)
    OBVIOUS
  <2>2. hand' = [hand EXCEPT ![w] = v]
    BY <2>1 DEF DispatchMark, Does, Step
  <2>3. Turns(w, v)
    BY <2>2, HandTurns
  <2>4. \A s, j : At(s, j)' = At(s, j) - (IF hand[w] = Step(s, j) THEN 1 ELSE 0)
                                       + (IF v = Step(s, j) THEN 1 ELSE 0)
    BY <2>3, HandMoves
  <2> QED BY <1>1, <2>1, <2>4, Distinct
<1>4. At("mark", x) > 0
  BY <1>1, HoldersFinite DEF At, Step
<1>5. \A j : /\ At("mark", j)' = At("mark", j) - (IF j = x THEN 1 ELSE 0)
             /\ At("first_window", j)' = At("first_window", j) + (IF j = x THEN 1 ELSE 0)
             /\ At("row", j)' = At("row", j) /\ At("settle", j)' = At("settle", j)
             /\ At("finalize", j)' = At("finalize", j)
  BY <1>3, Numbers
<1> QED BY <1>1, <1>2, <1>4, <1>5, Numbers DEF Dispatches, RowCopies, Finalizes, Settling, FirstDue

LEMMA RowEndsCounts ==
  ASSUME TypeOK, NEW w \in Workers, NEW x, x = hand[w].job, RowEnds(w)
  PROVE  /\ x \in Jobs /\ RowCopies(x) > 0
         /\ \A j \in Jobs : /\ RowCopies(j)' = RowCopies(j) - (IF j = x THEN 1 ELSE 0)
                            /\ Settling(j)' = Settling(j) + (IF j = x THEN 1 ELSE 0)
                            /\ Dispatches(j)' = Dispatches(j) /\ Finalizes(j)' = Finalizes(j)
                            /\ FirstDue(j)' = FirstDue(j)
<1>1. x \in Jobs /\ hand[w] = Step("row", x)
  BY InHand DEF RowEnds
<1>2. \A m : Queued(m)' = Queued(m)
  BY DEF RowEnds, Queued
<1>3. \A s, j : At(s, j)' = At(s, j) - (IF s = "row" /\ j = x THEN 1 ELSE 0)
                                     + (IF s = "settle" /\ j = x THEN 1 ELSE 0)
  <2>1. PICK v : v = Step("settle", x)
    OBVIOUS
  <2>2. hand' = [hand EXCEPT ![w] = v]
    BY <2>1 DEF RowEnds, Does, Step
  <2>3. Turns(w, v)
    BY <2>2, HandTurns
  <2>4. \A s, j : At(s, j)' = At(s, j) - (IF hand[w] = Step(s, j) THEN 1 ELSE 0)
                                       + (IF v = Step(s, j) THEN 1 ELSE 0)
    BY <2>3, HandMoves
  <2> QED BY <1>1, <2>1, <2>4, Distinct
<1>4. At("row", x) > 0
  BY <1>1, HoldersFinite DEF At, Step
<1>5. \A j : /\ At("row", j)' = At("row", j) - (IF j = x THEN 1 ELSE 0)
             /\ At("settle", j)' = At("settle", j) + (IF j = x THEN 1 ELSE 0)
             /\ At("mark", j)' = At("mark", j) /\ At("first_window", j)' = At("first_window", j)
             /\ At("finalize", j)' = At("finalize", j)
  BY <1>3, Numbers
<1> QED BY <1>1, <1>2, <1>4, <1>5, Numbers DEF Dispatches, RowCopies, Finalizes, Settling, FirstDue

(* A worker that lets go of step st for job x and publishes nothing.       *)
LEMMA LetsGoCounts ==
  ASSUME TypeOK, NEW w \in Workers, NEW x \in Jobs, NEW st \in {"settle", "finalize"},
         hand[w] = Step(st, x), Turns(w, Free), queue' = queue
  PROVE  /\ st = "settle" => Settling(x) > 0
         /\ st = "finalize" => Finalizes(x) > 0
         /\ \A j \in Jobs : /\ RowCopies(j)' = RowCopies(j) /\ Dispatches(j)' = Dispatches(j)
                            /\ FirstDue(j)' = FirstDue(j)
                            /\ Settling(j)' = Settling(j) - (IF st = "settle" /\ j = x THEN 1 ELSE 0)
                            /\ Finalizes(j)' = Finalizes(j) - (IF st = "finalize" /\ j = x THEN 1 ELSE 0)
<1>1. \A m : Queued(m)' = Queued(m)
  BY DEF Queued
<1>2. \A s, j : s # "free" => At(s, j)' = At(s, j) - (IF s = st /\ j = x THEN 1 ELSE 0)
  BY LetsGo
<1>3. At(st, x) > 0
  BY HoldersFinite DEF At, Step
<1>4. \A j : /\ At("row", j)' = At("row", j) /\ At("mark", j)' = At("mark", j)
             /\ At("first_window", j)' = At("first_window", j)
             /\ At("settle", j)' = At("settle", j) - (IF st = "settle" /\ j = x THEN 1 ELSE 0)
             /\ At("finalize", j)' = At("finalize", j) - (IF st = "finalize" /\ j = x THEN 1 ELSE 0)
  BY <1>2, Numbers
<1> QED BY <1>1, <1>3, <1>4, Numbers DEF Dispatches, RowCopies, Finalizes, Settling, FirstDue

(* A worker that lets go of st and publishes n rows of its job.            *)
LEMMA RefillCounts ==
  ASSUME TypeOK, NEW w \in Workers, NEW x \in Jobs, NEW st \in {"settle", "first_window"}, NEW n \in Nat,
         hand[w] = Step(st, x), Turns(w, Free), queue' = queue \o Rows(x, n)
  PROVE  /\ queue' \in Seq([task : Tasks, job : Jobs]) /\ At(st, x) > 0
         /\ \A j \in Jobs : /\ RowCopies(j)' = RowCopies(j) + (IF j = x THEN n ELSE 0)
                            /\ Dispatches(j)' = Dispatches(j) /\ Finalizes(j)' = Finalizes(j)
                            /\ Settling(j)' = Settling(j) - (IF st = "settle" /\ j = x THEN 1 ELSE 0)
                            /\ FirstDue(j)' = FirstDue(j) - (IF st = "first_window" /\ j = x THEN 1 ELSE 0)
<1>1. /\ queue' \in Seq([task : Tasks, job : Jobs])
      /\ \A m : Queued(m)' = Queued(m) + (IF Msg("row", x) = m THEN n ELSE 0)
  BY RowsAppended
<1>2. \A j : /\ Queued(Msg("row", j))' = Queued(Msg("row", j)) + (IF j = x THEN n ELSE 0)
             /\ Queued(Msg("dispatch", j))' = Queued(Msg("dispatch", j)) + 0
             /\ Queued(Msg("finalize", j))' = Queued(Msg("finalize", j)) + 0
  BY <1>1, Distinct
<1>3. \A s, j : s # "free" => At(s, j)' = At(s, j) - (IF s = st /\ j = x THEN 1 ELSE 0)
  BY LetsGo
<1>4. At(st, x) > 0
  BY HoldersFinite DEF At, Step
<1>5. \A j : /\ At("row", j)' = At("row", j) - 0 /\ At("mark", j)' = At("mark", j) - 0
             /\ At("finalize", j)' = At("finalize", j) - 0
             /\ At("settle", j)' = At("settle", j) - (IF st = "settle" /\ j = x THEN 1 ELSE 0)
             /\ At("first_window", j)' = At("first_window", j) - (IF st = "first_window" /\ j = x THEN 1 ELSE 0)
  BY <1>3
<1> QED BY <1>1, <1>2, <1>4, <1>5, Numbers, SMTT(30) DEF Dispatches, RowCopies, Finalizes, Settling, FirstDue

(* The tick publishes n rows of job x.                                     *)
LEMMA TickRowsCounts ==
  ASSUME TypeOK, NEW x \in Jobs, NEW n \in Nat, hand' = hand, queue' = queue \o Rows(x, n)
  PROVE  /\ queue' \in Seq([task : Tasks, job : Jobs])
         /\ \A j \in Jobs : /\ RowCopies(j)' = RowCopies(j) + (IF j = x THEN n ELSE 0)
                            /\ Dispatches(j)' = Dispatches(j) /\ Finalizes(j)' = Finalizes(j)
                            /\ Settling(j)' = Settling(j) /\ FirstDue(j)' = FirstDue(j)
<1>1. /\ queue' \in Seq([task : Tasks, job : Jobs])
      /\ \A m : Queued(m)' = Queued(m) + (IF Msg("row", x) = m THEN n ELSE 0)
  BY RowsAppended
<1>2. \A j : /\ Queued(Msg("row", j))' = Queued(Msg("row", j)) + (IF j = x THEN n ELSE 0)
             /\ Queued(Msg("dispatch", j))' = Queued(Msg("dispatch", j)) + 0
             /\ Queued(Msg("finalize", j))' = Queued(Msg("finalize", j)) + 0
  BY <1>1, Distinct
<1>3. \A s, j : At(s, j)' = At(s, j)
  BY DEF At
<1> QED BY <1>1, <1>2, <1>3, Numbers DEF Dispatches, RowCopies, Finalizes, Settling, FirstDue

(* The finalize message of job x is published, by a settling worker ...    *)
LEMMA FinalizeMessage ==
  ASSUME TypeOK, NEW x \in Jobs, queue' = Append(queue, Msg("finalize", x))
  PROVE  \A j : /\ Queued(Msg("row", j))' = Queued(Msg("row", j))
                /\ Queued(Msg("dispatch", j))' = Queued(Msg("dispatch", j))
                /\ Queued(Msg("finalize", j))' = Queued(Msg("finalize", j)) + (IF j = x THEN 1 ELSE 0)
<1>1. Msg("finalize", x) \in [task : Tasks, job : Jobs]
  BY DEF Msg, Tasks
<1>2. \A m : Queued(m)' = Queued(m) + (IF Msg("finalize", x) = m THEN 1 ELSE 0)
  BY <1>1, Appended
<1> QED BY <1>2, Distinct, Numbers

LEMMA FinalizeCounts ==
  ASSUME TypeOK, NEW w \in Workers, NEW x \in Jobs, hand[w] = Step("settle", x),
         Turns(w, Free), queue' = Append(queue, Msg("finalize", x))
  PROVE  /\ Settling(x) > 0
         /\ \A j \in Jobs : /\ RowCopies(j)' = RowCopies(j) /\ Dispatches(j)' = Dispatches(j)
                            /\ FirstDue(j)' = FirstDue(j)
                            /\ Settling(j)' = Settling(j) - (IF j = x THEN 1 ELSE 0)
                            /\ Finalizes(j)' = Finalizes(j) + (IF j = x THEN 1 ELSE 0)
<1>1. \A s, j : s # "free" => At(s, j)' = At(s, j) - (IF s = "settle" /\ j = x THEN 1 ELSE 0)
  BY LetsGo
<1>2. At("settle", x) > 0
  BY HoldersFinite DEF At, Step
<1>3. \A j : /\ At("row", j)' = At("row", j) /\ At("mark", j)' = At("mark", j)
             /\ At("first_window", j)' = At("first_window", j) /\ At("finalize", j)' = At("finalize", j)
             /\ At("settle", j)' = At("settle", j) - (IF j = x THEN 1 ELSE 0)
  BY <1>1, Numbers
<1>4. \A j : /\ Queued(Msg("row", j))' = Queued(Msg("row", j))
             /\ Queued(Msg("dispatch", j))' = Queued(Msg("dispatch", j))
             /\ Queued(Msg("finalize", j))' = Queued(Msg("finalize", j)) + (IF j = x THEN 1 ELSE 0)
  BY FinalizeMessage
<1> QED BY <1>2, <1>3, <1>4, Numbers DEF Dispatches, RowCopies, Finalizes, Settling, FirstDue

(* ... or by the tick.                                                     *)
LEMMA SweepCounts ==
  ASSUME TypeOK, NEW x \in Jobs, hand' = hand, queue' = Append(queue, Msg("finalize", x))
  PROVE  \A j \in Jobs : /\ RowCopies(j)' = RowCopies(j) /\ Dispatches(j)' = Dispatches(j)
                         /\ FirstDue(j)' = FirstDue(j) /\ Settling(j)' = Settling(j)
                         /\ Finalizes(j)' = Finalizes(j) + (IF j = x THEN 1 ELSE 0)
<1>1. \A s, j : At(s, j)' = At(s, j)
  BY DEF At
<1> QED BY <1>1, FinalizeMessage, Numbers DEF Dispatches, RowCopies, Finalizes, Settling, FirstDue

LEMMA StillCounts ==
  ASSUME queue' = queue, hand' = hand
  PROVE  \A j \in Jobs : SameCounts(j)
  BY Still DEF SameCounts, Dispatches, RowCopies, Finalizes, Settling, FirstDue

-----------------------------------------------------------------------------
(* What the steps do to the jobs, and what is preserved.                   *)

Phases == {"new", "queued", "processing", "claimed", "completed"}
Records == [phase : Phases, dispatched : Nat, processed : Nat]
Messages == [task : Tasks, job : Jobs]

(* Job x goes to phase p, with d more rows dispatched and e more ended.    *)
JobTo(x, p, d, e) ==
  /\ job' \in [Jobs -> Records]
  /\ \A j \in Jobs :
       IF j = x
       THEN /\ job'[j].phase = p
            /\ job'[j].dispatched = job[j].dispatched + d
            /\ job'[j].processed = job[j].processed + e
       ELSE job'[j] = job[j]

LEMMA PhaseChanges ==
  ASSUME TypeOK, NEW x \in Jobs, NEW p \in Phases, job' = [job EXCEPT ![x].phase = p]
  PROVE  JobTo(x, p, 0, 0)
<1>1. PICK f : f = job
  OBVIOUS
<1>2. f \in [Jobs -> Records] /\ job' = [f EXCEPT ![x] = [f[x] EXCEPT !.phase = p]]
  BY <1>1 DEF TypeOK, Records, Phases
<1>3. PICK r : r = [f[x] EXCEPT !.phase = p]
  OBVIOUS
<1>4. r \in Records /\ r.phase = p /\ r.dispatched = f[x].dispatched /\ r.processed = f[x].processed
  BY <1>2, <1>3 DEF Records, Phases
<1>5. job' = [f EXCEPT ![x] = r]
  BY <1>2, <1>3
<1>6. f[x].dispatched \in Nat /\ f[x].processed \in Nat
  BY <1>2 DEF Records
<1> QED BY <1>1, <1>2, <1>4, <1>5, <1>6 DEF JobTo

LEMMA RowsClaimed ==
  ASSUME TypeOK, NEW x \in Jobs, NEW n \in Nat, job' = [job EXCEPT ![x].dispatched = @ + n]
  PROVE  JobTo(x, job[x].phase, n, 0)
<1>1. PICK f : f = job
  OBVIOUS
<1>2. f \in [Jobs -> Records] /\ job' = [f EXCEPT ![x] = [f[x] EXCEPT !.dispatched = f[x].dispatched + n]]
  BY <1>1 DEF TypeOK, Records, Phases
<1>3. PICK r : r = [f[x] EXCEPT !.dispatched = f[x].dispatched + n]
  OBVIOUS
<1>4. r \in Records /\ r.phase = f[x].phase /\ r.dispatched = f[x].dispatched + n /\ r.processed = f[x].processed
  BY <1>2, <1>3 DEF Records, Phases
<1>5. job' = [f EXCEPT ![x] = r]
  BY <1>2, <1>3
<1>6. f[x].dispatched \in Nat /\ f[x].processed \in Nat
  BY <1>2 DEF Records
<1> QED BY <1>1, <1>2, <1>4, <1>5, <1>6 DEF JobTo

LEMMA RowCounted ==
  ASSUME TypeOK, NEW x \in Jobs, job' = [job EXCEPT ![x].processed = @ + 1]
  PROVE  JobTo(x, job[x].phase, 0, 1)
<1>1. PICK f : f = job
  OBVIOUS
<1>2. f \in [Jobs -> Records] /\ job' = [f EXCEPT ![x] = [f[x] EXCEPT !.processed = f[x].processed + 1]]
  BY <1>1 DEF TypeOK, Records, Phases
<1>3. PICK r : r = [f[x] EXCEPT !.processed = f[x].processed + 1]
  OBVIOUS
<1>4. r \in Records /\ r.phase = f[x].phase /\ r.dispatched = f[x].dispatched /\ r.processed = f[x].processed + 1
  BY <1>2, <1>3 DEF Records, Phases
<1>5. job' = [f EXCEPT ![x] = r]
  BY <1>2, <1>3
<1>6. f[x].dispatched \in Nat /\ f[x].processed \in Nat
  BY <1>2 DEF Records
<1> QED BY <1>1, <1>2, <1>4, <1>5, <1>6 DEF JobTo

(* The parts of TypeOK that a worker or an upload touches, and the rest.   *)
WorkTyped ==
  /\ job \in [Jobs -> Records]
  /\ \A j \in Jobs : job[j].dispatched <= Total[j] /\ job[j].processed <= job[j].dispatched
  /\ queue \in Seq(Messages)
  /\ hand \in [Workers -> [step : Steps, job : Jobs] \cup {Free}]

LEMMA WorkIsTyped ==
  ASSUME TypeOK
  PROVE  WorkTyped
  BY DEF TypeOK, WorkTyped, Records, Phases, Messages

LEMMA HandTyped ==
  ASSUME TypeOK, NEW w \in Workers, NEW v \in [step : Steps, job : Jobs] \cup {Free},
         hand' = [hand EXCEPT ![w] = v]
  PROVE  hand' \in [Workers -> [step : Steps, job : Jobs] \cup {Free}]
  BY DEF TypeOK

(* The rows of job x stay within bounds.                                   *)
LEMMA RowsBounded ==
  ASSUME TypeOK, NEW x \in Jobs, NEW p, NEW d \in Nat, NEW e \in Nat, JobTo(x, p, d, e),
         job[x].dispatched + d <= Total[x], job[x].processed + e <= job[x].dispatched + d
  PROVE  \A j \in Jobs : job'[j].dispatched <= Total[j] /\ job'[j].processed <= job'[j].dispatched
<1> TAKE j \in Jobs
<1>1. CASE j = x
  BY <1>1 DEF JobTo
<1>2. CASE j # x
  BY <1>2 DEF JobTo, TypeOK
<1> QED BY <1>1, <1>2

(* A job that a step leaves alone.                                         *)
LEMMA Aside ==
  ASSUME NEW j \in Jobs, JobInv(j), job'[j] = job[j], SameCounts(j)
  PROVE  JobInv(j)'
  BY DEF JobInv, SameCounts, Begun, Outstanding

LEMMA SubmitKeeps ==
  ASSUME TypeOK, CountInv, NEW x \in Jobs, Submit(x)
  PROVE  WorkTyped' /\ CountInv'
<1>1. JobTo(x, "queued", 0, 0)
  BY PhaseChanges DEF Submit, Phases
<1>2. /\ Dispatches(x)' = Dispatches(x) + 1
      /\ \A j \in Jobs : /\ RowCopies(j)' = RowCopies(j) /\ Finalizes(j)' = Finalizes(j)
                         /\ Settling(j)' = Settling(j) /\ FirstDue(j)' = FirstDue(j)
                         /\ j # x => Dispatches(j)' = Dispatches(j)
  BY SubmitCounts
<1>3. WorkTyped'
  <2>1. Msg("dispatch", x) \in Messages /\ queue \in Seq(Messages)
    BY DEF Msg, Tasks, TypeOK, Messages
  <2>2. queue' \in Seq(Messages)
    BY <2>1, AppendProperties DEF Submit
  <2>3. job[x].dispatched + 0 <= Total[x] /\ job[x].processed + 0 <= job[x].dispatched + 0
    BY CountsNat
  <2>4. \A j \in Jobs : job'[j].dispatched <= Total[j] /\ job'[j].processed <= job'[j].dispatched
    BY <1>1, <2>3, RowsBounded
  <2>5. hand' \in [Workers -> [step : Steps, job : Jobs] \cup {Free}]
    BY DEF Submit, TypeOK
  <2> QED BY <1>1, <2>2, <2>4, <2>5 DEF WorkTyped, JobTo
<1>4. ASSUME NEW j \in Jobs PROVE JobInv(j)'
  <2>1. JobInv(j)
    BY DEF CountInv
  <2>2. CASE j = x
    <3>1. /\ job[x].phase = "new" /\ job'[x].phase = "queued"
          /\ job'[x].dispatched = job[x].dispatched /\ job'[x].processed = job[x].processed
      BY <1>1, CountsNat DEF JobTo, Submit
    <3> QED BY <1>2, <2>1, <2>2, <3>1 DEF JobInv, Begun, Outstanding
  <2>3. CASE j # x
    BY <1>1, <1>2, <2>1, <2>3, Aside DEF JobTo, SameCounts
  <2> QED BY <2>2, <2>3
<1> QED BY <1>3, <1>4 DEF CountInv

LEMMA TakeKeeps ==
  ASSUME TypeOK, CountInv, NEW w \in Workers, Take(w)
  PROVE  WorkTyped' /\ CountInv'
<1>1. /\ queue # <<>> /\ queue \in Seq(Messages) /\ queue' = Tail(queue) /\ job' = job
  BY DEF Take, TypeOK, Messages
<1>2. Head(queue) \in Messages /\ queue' \in Seq(Messages)
  BY <1>1, HeadTailProperties
<1>3. PICK v : v = [step |-> Entered(Head(queue).task), job |-> Head(queue).job]
  OBVIOUS
<1>4. v \in [step : Steps, job : Jobs] \cup {Free}
  <2>1. Head(queue).task \in Tasks /\ Head(queue).job \in Jobs
    BY <1>2 DEF Messages
  <2>2. Entered(Head(queue).task) \in Steps
    BY <2>1 DEF Tasks, Steps, Entered
  <2> QED BY <1>3, <2>1, <2>2
<1>5. hand' = [hand EXCEPT ![w] = v]
  BY <1>3 DEF Take, Does
<1>6. hand' \in [Workers -> [step : Steps, job : Jobs] \cup {Free}]
  BY <1>4, <1>5, HandTyped
<1>7. WorkTyped'
  BY <1>1, <1>2, <1>6, WorkIsTyped DEF WorkTyped
<1>8. CountInv'
  BY <1>1, TakeCounts, Aside DEF CountInv
<1> QED BY <1>7, <1>8

LEMMA DispatchMarkKeeps ==
  ASSUME TypeOK, CountInv, NEW w \in Workers, DispatchMark(w)
  PROVE  WorkTyped' /\ CountInv'
<1>1. PICK x : x = hand[w].job
  OBVIOUS
<1>2. /\ x \in Jobs /\ Dispatches(x) > 0
      /\ \A j \in Jobs : /\ Dispatches(j)' = Dispatches(j) - (IF j = x THEN 1 ELSE 0)
                         /\ FirstDue(j)' = FirstDue(j) + (IF j = x THEN 1 ELSE 0)
                         /\ RowCopies(j)' = RowCopies(j) /\ Finalizes(j)' = Finalizes(j)
                         /\ Settling(j)' = Settling(j)
  BY <1>1, DispatchMarkCounts
<1>3. JobTo(x, "processing", 0, 0)
  <2>1. job' = [job EXCEPT ![x].phase = "processing"] /\ "processing" \in Phases
    BY <1>1 DEF DispatchMark, Phases
  <2> QED BY <1>2, <2>1, PhaseChanges
<1>4. job[x].phase = "queued"
  BY <1>2, CountsNat DEF CountInv, JobInv, Begun
<1>5. WorkTyped'
  <2>1. job[x].dispatched + 0 <= Total[x] /\ job[x].processed + 0 <= job[x].dispatched + 0
    BY <1>2, CountsNat
  <2>2. \A j \in Jobs : job'[j].dispatched <= Total[j] /\ job'[j].processed <= job'[j].dispatched
    BY <1>2, <1>3, <2>1, RowsBounded
  <2>3. PICK v : v = [step |-> "first_window", job |-> x]
    OBVIOUS
  <2>4. hand' = [hand EXCEPT ![w] = v] /\ v \in [step : Steps, job : Jobs] \cup {Free}
    BY <1>1, <1>2, <2>3 DEF DispatchMark, Does, Steps
  <2>5. hand' \in [Workers -> [step : Steps, job : Jobs] \cup {Free}]
    BY <2>4, HandTyped
  <2>6. queue' \in Seq(Messages)
    BY WorkIsTyped DEF DispatchMark, WorkTyped
  <2> QED BY <1>3, <2>2, <2>5, <2>6 DEF WorkTyped, JobTo
<1>6. ASSUME NEW j \in Jobs PROVE JobInv(j)'
  <2>1. JobInv(j)
    BY DEF CountInv
  <2>2. CASE j = x
    <3>1. /\ job'[x].phase = "processing"
          /\ job'[x].dispatched = job[x].dispatched /\ job'[x].processed = job[x].processed
      BY <1>2, <1>3, CountsNat DEF JobTo
    <3>2. Dispatches(x) = 1 /\ FirstDue(x) = 0 /\ Finalizes(x) = 0
      BY <1>4, <2>1, <2>2 DEF JobInv, Begun
    <3> QED BY <1>2, <2>1, <2>2, <3>1, <3>2 DEF JobInv, Begun, Outstanding
  <2>3. CASE j # x
    <3>1. SameCounts(j)
      BY <1>2, <2>3, CountsNat DEF SameCounts
    <3> QED BY <1>3, <2>1, <2>3, <3>1, Aside DEF JobTo
  <2> QED BY <2>2, <2>3
<1> QED BY <1>5, <1>6 DEF CountInv

LEMMA RowEndsKeeps ==
  ASSUME TypeOK, CountInv, NEW w \in Workers, RowEnds(w)
  PROVE  WorkTyped' /\ CountInv'
<1>1. PICK x : x = hand[w].job
  OBVIOUS
<1>2. /\ x \in Jobs /\ RowCopies(x) > 0
      /\ \A j \in Jobs : /\ RowCopies(j)' = RowCopies(j) - (IF j = x THEN 1 ELSE 0)
                         /\ Settling(j)' = Settling(j) + (IF j = x THEN 1 ELSE 0)
                         /\ Dispatches(j)' = Dispatches(j) /\ Finalizes(j)' = Finalizes(j)
                         /\ FirstDue(j)' = FirstDue(j)
  BY <1>1, RowEndsCounts
<1>3. JobTo(x, job[x].phase, 0, 1)
  <2>1. job' = [job EXCEPT ![x].processed = @ + 1]
    BY <1>1 DEF RowEnds
  <2> QED BY <1>2, <2>1, RowCounted
<1>4. job[x].processed + 1 <= job[x].dispatched /\ job[x].dispatched <= Total[x] /\ Begun(x)
  <2>1. RowCopies(x) = job[x].dispatched - job[x].processed /\ JobInv(x)
    BY <1>2 DEF CountInv, JobInv, Outstanding
  <2> QED BY <1>2, <2>1, CountsNat DEF JobInv
<1>5. job[x].phase = "processing"
  <2>1. job[x].phase \in Phases
    BY <1>2, WorkIsTyped DEF WorkTyped, Records
  <2>2. job[x].processed # Total[x]
    BY <1>2, <1>4, CountsNat
  <2>3. job[x].phase \notin {"claimed", "completed"}
    BY <1>2, <2>2 DEF CountInv, JobInv
  <2> QED BY <1>4, <2>1, <2>3 DEF Phases, Begun
<1>6. WorkTyped'
  <2>1. job[x].dispatched + 0 <= Total[x] /\ job[x].processed + 1 <= job[x].dispatched + 0
    BY <1>2, <1>4, CountsNat
  <2>2. \A j \in Jobs : job'[j].dispatched <= Total[j] /\ job'[j].processed <= job'[j].dispatched
    BY <1>2, <1>3, <2>1, RowsBounded
  <2>3. PICK v : v = [step |-> "settle", job |-> x]
    OBVIOUS
  <2>4. hand' = [hand EXCEPT ![w] = v] /\ v \in [step : Steps, job : Jobs] \cup {Free}
    BY <1>1, <1>2, <2>3 DEF RowEnds, Does, Steps
  <2>5. hand' \in [Workers -> [step : Steps, job : Jobs] \cup {Free}]
    BY <2>4, HandTyped
  <2>6. queue' \in Seq(Messages)
    BY WorkIsTyped DEF RowEnds, WorkTyped
  <2> QED BY <1>3, <2>2, <2>5, <2>6 DEF WorkTyped, JobTo
<1>7. ASSUME NEW j \in Jobs PROVE JobInv(j)'
  <2>1. JobInv(j)
    BY DEF CountInv
  <2>2. CASE j = x
    <3>1. /\ job'[x].phase = "processing"
          /\ job'[x].dispatched = job[x].dispatched /\ job'[x].processed = job[x].processed + 1
      BY <1>2, <1>3, <1>5, CountsNat DEF JobTo
    <3>2. RowCopies(x) = job[x].dispatched - job[x].processed
      BY <2>1, <2>2 DEF JobInv, Outstanding
    <3>3. RowCopies(x)' = job'[x].dispatched - job'[x].processed
      BY <1>2, <3>1, <3>2, CountsNat
    <3> QED BY <1>2, <1>5, <2>1, <2>2, <3>1, <3>3 DEF JobInv, Begun, Outstanding
  <2>3. CASE j # x
    <3>1. SameCounts(j)
      BY <1>2, <2>3, CountsNat DEF SameCounts
    <3> QED BY <1>3, <2>1, <2>3, <3>1, Aside DEF JobTo
  <2> QED BY <2>2, <2>3
<1> QED BY <1>6, <1>7 DEF CountInv

LEMMA ClaimableBounds ==
  ASSUME TypeOK, NEW x \in Jobs, NEW limit \in Nat
  PROVE  /\ Claimable(x, limit) \in Nat /\ Claimable(x, limit) <= limit
         /\ Claimable(x, limit) <= Total[x] - job[x].dispatched
         /\ Claimable(x, limit) > 0 => job[x].phase = "processing"
         /\ job[x].phase = "processing" /\ Claimable(x, limit) < limit
              => Claimable(x, limit) = Total[x] - job[x].dispatched
  BY CountsNat DEF Claimable, Lesser, Remaining

LEMMA ReadJobWindowNat ==
  ASSUME TypeOK
  PROVE  ReadJobWindow \in Nat
  BY ShareAssumption DEF TypeOK, ReadJobWindow

(* n more rows of job x are published.                                     *)
LEMMA PublishKeeps ==
  ASSUME TypeOK, CountInv, NEW x \in Jobs, NEW n \in Nat, Publish(x, n),
         n <= Total[x] - job[x].dispatched, n > 0 => job[x].phase = "processing",
         Begun(x) \/ n = 0,
         \A j \in Jobs : /\ RowCopies(j)' = RowCopies(j) + (IF j = x THEN n ELSE 0)
                         /\ Dispatches(j)' = Dispatches(j) /\ Finalizes(j)' = Finalizes(j)
                         /\ Settling(j)' \in Nat /\ Settling(j)' <= Settling(j)
                         /\ FirstDue(j)' \in Nat /\ FirstDue(j)' <= FirstDue(j)
  PROVE  /\ JobTo(x, job[x].phase, n, 0)
         /\ \A j \in Jobs : job'[j].dispatched <= Total[j] /\ job'[j].processed <= job'[j].dispatched
         /\ CountInv'
<1>1. JobTo(x, job[x].phase, n, 0)
  BY RowsClaimed DEF Publish
<1>2. \A j \in Jobs : job'[j].dispatched <= Total[j] /\ job'[j].processed <= job'[j].dispatched
  <2>1. job[x].dispatched + n <= Total[x] /\ job[x].processed + 0 <= job[x].dispatched + n
    BY CountsNat
  <2> QED BY <1>1, <2>1, RowsBounded
<1>3. ASSUME NEW j \in Jobs PROVE JobInv(j)'
  <2>1. JobInv(j)
    BY DEF CountInv
  <2>2. CASE j = x
    <3>1. /\ job'[x].phase = job[x].phase
          /\ job'[x].dispatched = job[x].dispatched + n /\ job'[x].processed = job[x].processed
      BY <1>1, CountsNat DEF JobTo
    <3>2. RowCopies(x) = job[x].dispatched - job[x].processed
      BY <2>1, <2>2 DEF JobInv, Outstanding
    <3>3. RowCopies(x)' = job'[x].dispatched - job'[x].processed
      BY <3>1, <3>2, CountsNat
    <3>4. ~Begun(x) => job'[x].dispatched = 0 /\ RowCopies(x)' = RowCopies(x)
      BY <2>1, <2>2, <3>1, CountsNat DEF JobInv
    <3>5. Settling(x)' <= Settling(x) /\ FirstDue(x)' <= FirstDue(x) /\ Settling(x)' \in Nat /\ FirstDue(x)' \in Nat
          /\ Settling(x) \in Nat /\ FirstDue(x) \in Nat
      BY CountsNat
    <3> QED BY <2>1, <2>2, <3>1, <3>3, <3>4, <3>5 DEF JobInv, Begun, Outstanding
  <2>3. CASE j # x
    <3>1. RowCopies(j)' = RowCopies(j) /\ job'[j] = job[j]
      BY <1>1, <2>3, CountsNat DEF JobTo
    <3>2. Settling(j)' <= Settling(j) /\ FirstDue(j)' <= FirstDue(j) /\ Settling(j)' \in Nat /\ FirstDue(j)' \in Nat
          /\ Settling(j) \in Nat /\ FirstDue(j) \in Nat
      BY CountsNat
    <3> QED BY <2>1, <3>1, <3>2 DEF JobInv, Begun, Outstanding
  <2> QED BY <2>2, <2>3
<1> QED BY <1>1, <1>2, <1>3 DEF CountInv

(* A worker at st publishes n rows of its job and is free.                 *)
LEMMA RefillKeeps ==
  ASSUME TypeOK, CountInv, NEW w \in Workers, NEW x \in Jobs, NEW st \in {"settle", "first_window"}, NEW limit \in Nat,
         hand[w] = Step(st, x), hand' = [hand EXCEPT ![w] = Free], Publish(x, Claimable(x, limit))
  PROVE  /\ WorkTyped' /\ CountInv' /\ JobTo(x, job[x].phase, Claimable(x, limit), 0)
         /\ At(st, x) > 0
         /\ \A j \in Jobs : /\ Settling(j)' = Settling(j) - (IF st = "settle" /\ j = x THEN 1 ELSE 0)
                            /\ FirstDue(j)' = FirstDue(j) - (IF st = "first_window" /\ j = x THEN 1 ELSE 0)
<1>1. PICK n : n = Claimable(x, limit)
  OBVIOUS
<1>2. /\ n \in Nat /\ n <= Total[x] - job[x].dispatched /\ (n > 0 => job[x].phase = "processing")
      /\ Publish(x, n) /\ queue' = queue \o Rows(x, n)
  BY <1>1, ClaimableBounds DEF Publish
<1>3. PICK v : v = Free
  OBVIOUS
<1>4. Turns(w, Free) /\ hand' \in [Workers -> [step : Steps, job : Jobs] \cup {Free}]
  <2>1. hand' = [hand EXCEPT ![w] = v] /\ v \in [step : Steps, job : Jobs] \cup {Free}
    BY <1>3
  <2>2. Turns(w, v)
    BY <2>1, HandTurns
  <2>3. hand' \in [Workers -> [step : Steps, job : Jobs] \cup {Free}]
    BY <2>1, HandTyped
  <2> QED BY <1>3, <2>2, <2>3
<1>5. /\ queue' \in Seq([task : Tasks, job : Jobs]) /\ At(st, x) > 0
      /\ \A j \in Jobs : /\ RowCopies(j)' = RowCopies(j) + (IF j = x THEN n ELSE 0)
                         /\ Dispatches(j)' = Dispatches(j) /\ Finalizes(j)' = Finalizes(j)
                         /\ Settling(j)' = Settling(j) - (IF st = "settle" /\ j = x THEN 1 ELSE 0)
                         /\ FirstDue(j)' = FirstDue(j) - (IF st = "first_window" /\ j = x THEN 1 ELSE 0)
  <2>1. n \in Nat /\ Turns(w, Free) /\ queue' = queue \o Rows(x, n)
    BY <1>2, <1>4
  <2>2. CASE st = "settle"
    BY <2>1, <2>2, RefillCounts, ZenonT(60)
  <2>3. CASE st = "first_window"
    BY <2>1, <2>3, RefillCounts, ZenonT(60)
  <2> QED BY <2>2, <2>3
<1>6. Begun(x)
  <2>1. JobInv(x) /\ (Settling(x) > 0 \/ FirstDue(x) > 0)
    BY <1>5 DEF CountInv, Settling, FirstDue
  <2> QED BY <2>1 DEF JobInv
<1>7. \A j \in Jobs : /\ Settling(j)' \in Nat /\ Settling(j)' <= Settling(j)
                      /\ FirstDue(j)' \in Nat /\ FirstDue(j)' <= FirstDue(j)
  <2> TAKE j \in Jobs
  <2>1. /\ Settling(j)' = Settling(j) - (IF st = "settle" /\ j = x THEN 1 ELSE 0)
        /\ FirstDue(j)' = FirstDue(j) - (IF st = "first_window" /\ j = x THEN 1 ELSE 0)
    BY <1>5
  <2>2. (st = "settle" => Settling(x) > 0) /\ (st = "first_window" => FirstDue(x) > 0)
    BY <1>5 DEF Settling, FirstDue
  <2>3. Settling(j) \in Nat /\ FirstDue(j) \in Nat
    BY CountsNat
  <2> QED BY <2>1, <2>2, <2>3
<1>8. /\ JobTo(x, job[x].phase, n, 0)
      /\ \A j \in Jobs : job'[j].dispatched <= Total[j] /\ job'[j].processed <= job'[j].dispatched
      /\ CountInv'
  BY <1>2, <1>5, <1>6, <1>7, PublishKeeps
<1>9. WorkTyped'
  BY <1>4, <1>5, <1>8 DEF WorkTyped, JobTo, Messages
<1> QED BY <1>1, <1>5, <1>8, <1>9

(* Job x is claimed and its finalize message published.                    *)
LEMMA ClaimKeeps ==
  ASSUME TypeOK, CountInv, NEW x \in Jobs, Finalize(x), AllProcessed(x),
         \A j \in Jobs : /\ RowCopies(j)' = RowCopies(j) /\ Dispatches(j)' = Dispatches(j)
                         /\ FirstDue(j)' = FirstDue(j)
                         /\ Settling(j)' \in Nat /\ Settling(j)' <= Settling(j)
                         /\ Finalizes(j)' = Finalizes(j) + (IF j = x THEN 1 ELSE 0)
  PROVE  /\ JobTo(x, "claimed", 0, 0) /\ queue' \in Seq(Messages)
         /\ \A j \in Jobs : job'[j].dispatched <= Total[j] /\ job'[j].processed <= job'[j].dispatched
         /\ CountInv'
<1>1. JobTo(x, "claimed", 0, 0)
  BY PhaseChanges DEF Finalize, Phases
<1>2. queue' \in Seq(Messages)
  <2>1. Msg("finalize", x) \in Messages /\ queue \in Seq(Messages)
    BY DEF Msg, Tasks, TypeOK, Messages
  <2> QED BY <2>1, AppendProperties DEF Finalize
<1>3. \A j \in Jobs : job'[j].dispatched <= Total[j] /\ job'[j].processed <= job'[j].dispatched
  <2>1. job[x].dispatched + 0 <= Total[x] /\ job[x].processed + 0 <= job[x].dispatched + 0
    BY CountsNat
  <2> QED BY <1>1, <2>1, RowsBounded
<1>4. ASSUME NEW j \in Jobs PROVE JobInv(j)'
  <2>1. JobInv(j)
    BY DEF CountInv
  <2>2. CASE j = x
    <3>1. /\ job[x].phase = "processing" /\ job'[x].phase = "claimed"
          /\ job'[x].dispatched = job[x].dispatched /\ job'[x].processed = job[x].processed
          /\ job[x].processed = Total[x]
      BY <1>1, CountsNat DEF JobTo, AllProcessed
    <3>2. Finalizes(x)' = 1
      BY <2>1, <2>2, <3>1 DEF JobInv
    <3> QED BY <2>1, <2>2, <3>1, <3>2 DEF JobInv, Begun, Outstanding
  <2>3. CASE j # x
    <3>1. Finalizes(j)' = Finalizes(j) /\ job'[j] = job[j]
      BY <1>1, <2>3, CountsNat DEF JobTo
    <3>2. Settling(j)' <= Settling(j) /\ Settling(j)' \in Nat /\ Settling(j) \in Nat
      BY CountsNat
    <3> QED BY <2>1, <3>1, <3>2 DEF JobInv, Begun, Outstanding
  <2> QED BY <2>2, <2>3
<1> QED BY <1>1, <1>2, <1>3, <1>4 DEF CountInv

LEMMA FirstWindowKeeps ==
  ASSUME TypeOK, CountInv, NEW w \in Workers, FirstWindow(w)
  PROVE  WorkTyped' /\ CountInv'
<1>1. PICK x, limit : x = hand[w].job /\ limit = ReadJobWindow
  OBVIOUS
<1>2. x \in Jobs /\ hand[w] = Step("first_window", x) /\ limit \in Nat
  BY <1>1, InHand, ReadJobWindowNat DEF FirstWindow
<1>3. Publish(x, Claimable(x, limit)) /\ hand' = [hand EXCEPT ![w] = Free]
  BY <1>1 DEF FirstWindow, Done
<1> QED BY <1>2, <1>3, RefillKeeps

LEMMA SettleFinalizes ==
  ASSUME TypeOK, CountInv, NEW w \in Workers, NEW x \in Jobs, hand[w] = Step("settle", x),
         hand' = [hand EXCEPT ![w] = Free], AllProcessed(x), Finalize(x)
  PROVE  /\ WorkTyped' /\ CountInv' /\ JobTo(x, "claimed", 0, 0) /\ Settling(x) > 0
         /\ \A j \in Jobs : /\ Settling(j)' = Settling(j) - (IF j = x THEN 1 ELSE 0)
                            /\ FirstDue(j)' = FirstDue(j)
<1>1. PICK v : v = Free
  OBVIOUS
<1>2. Turns(w, Free) /\ hand' \in [Workers -> [step : Steps, job : Jobs] \cup {Free}]
  <2>1. hand' = [hand EXCEPT ![w] = v] /\ v \in [step : Steps, job : Jobs] \cup {Free}
    BY <1>1
  <2>2. Turns(w, v)
    BY <2>1, HandTurns
  <2>3. hand' \in [Workers -> [step : Steps, job : Jobs] \cup {Free}]
    BY <2>1, HandTyped
  <2> QED BY <1>1, <2>2, <2>3
<1>3. /\ Settling(x) > 0
      /\ \A j \in Jobs : /\ RowCopies(j)' = RowCopies(j) /\ Dispatches(j)' = Dispatches(j)
                         /\ FirstDue(j)' = FirstDue(j)
                         /\ Settling(j)' = Settling(j) - (IF j = x THEN 1 ELSE 0)
                         /\ Finalizes(j)' = Finalizes(j) + (IF j = x THEN 1 ELSE 0)
  <2>1. queue' = Append(queue, Msg("finalize", x))
    BY DEF Finalize
  <2> QED BY <1>2, <2>1, FinalizeCounts
<1>4. \A j \in Jobs : Settling(j)' \in Nat /\ Settling(j)' <= Settling(j)
  BY <1>3, CountsNat
<1>5. /\ JobTo(x, "claimed", 0, 0) /\ queue' \in Seq(Messages)
      /\ \A j \in Jobs : job'[j].dispatched <= Total[j] /\ job'[j].processed <= job'[j].dispatched
      /\ CountInv'
  BY <1>3, <1>4, ClaimKeeps
<1> QED BY <1>2, <1>3, <1>5 DEF WorkTyped, JobTo

LEMMA SettleKeeps ==
  ASSUME TypeOK, CountInv, NEW w \in Workers, Settle(w)
  PROVE  WorkTyped' /\ CountInv'
<1>1. PICK x : x = hand[w].job
  OBVIOUS
<1>2. x \in Jobs /\ hand[w] = Step("settle", x) /\ hand' = [hand EXCEPT ![w] = Free]
  BY <1>1, InHand DEF Settle, Done
<1>3. CASE AllProcessed(x)
  <2>1. Finalize(x)
    BY <1>1, <1>3 DEF Settle
  <2> QED BY <1>2, <1>3, <2>1, SettleFinalizes
<1>4. CASE ~AllProcessed(x)
  <2>1. Publish(x, Claimable(x, Chunk)) /\ Chunk \in Nat
    BY <1>1, <1>4, ShareAssumption DEF Settle
  <2> QED BY <1>2, <2>1, RefillKeeps
<1> QED BY <1>3, <1>4

LEMMA SettleLostKeeps ==
  ASSUME TypeOK, CountInv, NEW w \in Workers, SettleLost(w)
  PROVE  WorkTyped' /\ CountInv'
<1>1. PICK x, v : x = hand[w].job /\ v = Free
  OBVIOUS
<1>2. x \in Jobs /\ hand[w] = Step("settle", x) /\ hand' = [hand EXCEPT ![w] = v] /\ job' = job /\ queue' = queue
  BY <1>1, InHand DEF SettleLost, Done
<1>3. Turns(w, v) /\ hand' \in [Workers -> [step : Steps, job : Jobs] \cup {Free}]
  BY <1>1, <1>2, HandTurns, HandTyped
<1>4. /\ Settling(x) > 0
      /\ \A j \in Jobs : /\ RowCopies(j)' = RowCopies(j) /\ Dispatches(j)' = Dispatches(j)
                         /\ FirstDue(j)' = FirstDue(j)
                         /\ Settling(j)' = Settling(j) - (IF j = x THEN 1 ELSE 0)
                         /\ Finalizes(j)' = Finalizes(j)
  <2>1. Turns(w, Free)
    BY <1>1, <1>3
  <2>2. PICK st : st = "settle"
    OBVIOUS
  <2>3. /\ st = "settle" => Settling(x) > 0
        /\ \A j \in Jobs : /\ RowCopies(j)' = RowCopies(j) /\ Dispatches(j)' = Dispatches(j)
                           /\ FirstDue(j)' = FirstDue(j)
                           /\ Settling(j)' = Settling(j) - (IF st = "settle" /\ j = x THEN 1 ELSE 0)
                           /\ Finalizes(j)' = Finalizes(j) - (IF st = "finalize" /\ j = x THEN 1 ELSE 0)
    BY <1>2, <2>1, <2>2, LetsGoCounts
  <2> QED BY <2>2, <2>3, CountsNat
<1>5. ASSUME NEW j \in Jobs PROVE JobInv(j)'
  <2>1. JobInv(j) /\ Settling(j)' \in Nat /\ Settling(j)' <= Settling(j) /\ Settling(j) \in Nat
    BY <1>4, CountsNat DEF CountInv
  <2>2. /\ RowCopies(j)' = RowCopies(j) /\ Dispatches(j)' = Dispatches(j)
        /\ FirstDue(j)' = FirstDue(j) /\ Finalizes(j)' = Finalizes(j)
    BY <1>4
  <2> QED BY <1>2, <2>1, <2>2 DEF JobInv, Begun, Outstanding
<1>6. WorkTyped'
  BY <1>2, <1>3, WorkIsTyped DEF WorkTyped
<1> QED BY <1>5, <1>6 DEF CountInv

LEMMA FinalizeRunsKeeps ==
  ASSUME TypeOK, CountInv, NEW w \in Workers, FinalizeRuns(w)
  PROVE  WorkTyped' /\ CountInv'
<1>1. PICK x, v : x = hand[w].job /\ v = Free
  OBVIOUS
<1>2. /\ x \in Jobs /\ hand[w] = Step("finalize", x) /\ hand' = [hand EXCEPT ![w] = v] /\ queue' = queue
      /\ job' = [job EXCEPT ![x].phase = "completed"]
  BY <1>1, InHand DEF FinalizeRuns, Done
<1>3. Turns(w, v) /\ hand' \in [Workers -> [step : Steps, job : Jobs] \cup {Free}]
  BY <1>1, <1>2, HandTurns, HandTyped
<1>4. /\ Finalizes(x) > 0
      /\ \A j \in Jobs : /\ RowCopies(j)' = RowCopies(j) /\ Dispatches(j)' = Dispatches(j)
                         /\ FirstDue(j)' = FirstDue(j) /\ Settling(j)' = Settling(j)
                         /\ Finalizes(j)' = Finalizes(j) - (IF j = x THEN 1 ELSE 0)
  <2>1. Turns(w, Free)
    BY <1>1, <1>3
  <2>2. PICK st : st = "finalize"
    OBVIOUS
  <2>3. /\ st = "finalize" => Finalizes(x) > 0
        /\ \A j \in Jobs : /\ RowCopies(j)' = RowCopies(j) /\ Dispatches(j)' = Dispatches(j)
                           /\ FirstDue(j)' = FirstDue(j)
                           /\ Settling(j)' = Settling(j) - (IF st = "settle" /\ j = x THEN 1 ELSE 0)
                           /\ Finalizes(j)' = Finalizes(j) - (IF st = "finalize" /\ j = x THEN 1 ELSE 0)
    BY <1>2, <2>1, <2>2, LetsGoCounts
  <2> QED BY <2>2, <2>3, CountsNat
<1>5. JobTo(x, "completed", 0, 0)
  BY <1>2, PhaseChanges DEF Phases
<1>6. ASSUME NEW j \in Jobs PROVE JobInv(j)'
  <2>1. JobInv(j)
    BY DEF CountInv
  <2>2. CASE j = x
    <3>1. /\ job'[x].phase = "completed"
          /\ job'[x].dispatched = job[x].dispatched /\ job'[x].processed = job[x].processed
      BY <1>2, <1>5, CountsNat DEF JobTo
    <3>2. job[x].phase = "claimed" /\ Finalizes(x) = 1
      <4>1. job[x].phase \in Phases
        BY <1>2, WorkIsTyped DEF WorkTyped, Records
      <4>2. job[x].phase \notin {"new", "queued", "processing", "completed"}
        BY <1>4, <2>1, <2>2 DEF JobInv, Begun
      <4>3. job[x].phase = "claimed"
        BY <4>1, <4>2 DEF Phases
      <4> QED BY <1>4, <2>1, <2>2, <4>3, CountsNat DEF JobInv
    <3>3. Finalizes(x)' = 0
      BY <1>2, <1>4, <3>2
    <3> QED BY <1>2, <1>4, <2>1, <2>2, <3>1, <3>2, <3>3 DEF JobInv, Begun, Outstanding
  <2>3. CASE j # x
    <3>1. SameCounts(j)
      BY <1>4, <2>3, CountsNat DEF SameCounts
    <3> QED BY <1>5, <2>1, <2>3, <3>1, Aside DEF JobTo
  <2> QED BY <2>2, <2>3
<1>7. WorkTyped'
  <2>1. job[x].dispatched + 0 <= Total[x] /\ job[x].processed + 0 <= job[x].dispatched + 0
    BY <1>2, CountsNat
  <2>2. \A j \in Jobs : job'[j].dispatched <= Total[j] /\ job'[j].processed <= job'[j].dispatched
    BY <1>2, <1>5, <2>1, RowsBounded
  <2>3. queue' \in Seq(Messages)
    BY <1>2, WorkIsTyped DEF WorkTyped
  <2> QED BY <1>3, <1>5, <2>2, <2>3 DEF WorkTyped, JobTo
<1> QED BY <1>6, <1>7 DEF CountInv

(* The claims and the top-up of a tick.                                    *)
LEMMA SweepClaimKeeps ==
  ASSUME TypeOK, CountInv, NEW x \in Jobs, SweepClaim(x)
  PROVE  WorkTyped' /\ CountInv'
<1>1. hand' = hand
  BY DEF SweepClaim
<1>2. CASE AllProcessed(x)
  <2>1. Finalize(x) /\ queue' = Append(queue, Msg("finalize", x))
    BY <1>2 DEF SweepClaim, Finalize
  <2>2. \A j \in Jobs : /\ RowCopies(j)' = RowCopies(j) /\ Dispatches(j)' = Dispatches(j)
                        /\ FirstDue(j)' = FirstDue(j) /\ Settling(j)' = Settling(j)
                        /\ Finalizes(j)' = Finalizes(j) + (IF j = x THEN 1 ELSE 0)
    BY <1>1, <2>1, SweepCounts
  <2>3. \A j \in Jobs : Settling(j)' \in Nat /\ Settling(j)' <= Settling(j)
    BY <2>2, CountsNat
  <2>4. /\ JobTo(x, "claimed", 0, 0) /\ queue' \in Seq(Messages)
        /\ \A j \in Jobs : job'[j].dispatched <= Total[j] /\ job'[j].processed <= job'[j].dispatched
        /\ CountInv'
    BY <1>2, <2>1, <2>2, <2>3, ClaimKeeps
  <2> QED BY <1>1, <2>4, WorkIsTyped DEF WorkTyped, JobTo
<1>3. CASE ~AllProcessed(x)
  <2>1. job' = job /\ queue' = queue
    BY <1>3 DEF SweepClaim
  <2> QED BY <1>1, <2>1, StillCounts, Aside, WorkIsTyped DEF WorkTyped, CountInv
<1> QED BY <1>2, <1>3

LEMMA TickPublishKeeps ==
  ASSUME TypeOK, CountInv, NEW x \in Jobs, NEW limit \in Nat, hand' = hand,
         Publish(x, Claimable(x, limit))
  PROVE  /\ WorkTyped' /\ CountInv' /\ JobTo(x, job[x].phase, Claimable(x, limit), 0)
         /\ \A j \in Jobs : Settling(j)' = Settling(j) /\ FirstDue(j)' = FirstDue(j)
<1>1. PICK n : n = Claimable(x, limit)
  OBVIOUS
<1>2. /\ n \in Nat /\ n <= Total[x] - job[x].dispatched /\ (n > 0 => job[x].phase = "processing")
      /\ Publish(x, n) /\ queue' = queue \o Rows(x, n)
  BY <1>1, ClaimableBounds DEF Publish
<1>3. /\ queue' \in Seq([task : Tasks, job : Jobs])
      /\ \A j \in Jobs : /\ RowCopies(j)' = RowCopies(j) + (IF j = x THEN n ELSE 0)
                         /\ Dispatches(j)' = Dispatches(j) /\ Finalizes(j)' = Finalizes(j)
                         /\ Settling(j)' = Settling(j) /\ FirstDue(j)' = FirstDue(j)
  BY <1>2, TickRowsCounts
<1>4. Begun(x) \/ n = 0
  BY <1>2 DEF Begun
<1>5. \A j \in Jobs : /\ Settling(j)' \in Nat /\ Settling(j)' <= Settling(j)
                      /\ FirstDue(j)' \in Nat /\ FirstDue(j)' <= FirstDue(j)
  BY <1>3, CountsNat
<1>6. /\ JobTo(x, job[x].phase, n, 0)
      /\ \A j \in Jobs : job'[j].dispatched <= Total[j] /\ job'[j].processed <= job'[j].dispatched
      /\ CountInv'
  BY <1>2, <1>3, <1>4, <1>5, PublishKeeps
<1>7. WorkTyped'
  BY <1>3, <1>6, WorkIsTyped DEF WorkTyped, JobTo, Messages
<1> QED BY <1>1, <1>3, <1>6, <1>7

LEMMA QuietKeeps ==
  ASSUME TypeOK, CountInv, job' = job, queue' = queue, hand' = hand
  PROVE  WorkTyped' /\ CountInv'
  BY StillCounts, Aside, WorkIsTyped DEF WorkTyped, CountInv

-----------------------------------------------------------------------------
(* What the steps do to the tick.                                          *)

Sights == [outstanding : Nat, remaining : Nat]
Ticks == [step : {"off", "gather", "sweep", "topup"}, todo : SUBSET Pipelines, stuck : SUBSET Jobs,
          seen : [Jobs -> Sights], share : Nat, deficit : [Jobs -> Nat], turn : 0 .. Len(JobOrder)]

TickTyped ==
  /\ window \in Nat \cup {NoWindow}
  /\ locked \in BOOLEAN
  /\ rotation \in 0 .. Rotations - 1
  /\ tick \in Ticks
  /\ pushed \in [Jobs -> Nat]
  /\ faults \in 0 .. MaxFaults

LEMMA Typed ==
  TypeOK <=> WorkTyped /\ TickTyped
  BY DEF TypeOK, WorkTyped, TickTyped, Records, Phases, Messages, Ticks, Sights

LEMMA TypedNext ==
  ASSUME WorkTyped', TickTyped'
  PROVE  TypeOK'
  BY DEF TypeOK, WorkTyped, TickTyped, Records, Phases, Messages, Ticks, Sights

(* The fields of the tick that a step leaves alone.                        *)
TickSame(f) ==
  /\ "step" \in f => tick'.step = tick.step
  /\ "todo" \in f => tick'.todo = tick.todo
  /\ "stuck" \in f => tick'.stuck = tick.stuck
  /\ "seen" \in f => tick'.seen = tick.seen
  /\ "share" \in f => tick'.share = tick.share
  /\ "deficit" \in f => tick'.deficit = tick.deficit
  /\ "turn" \in f => tick'.turn = tick.turn

LEMMA Places ==
  Len(JobOrder) \in Nat /\ \A k \in DOMAIN JobOrder : k \in 1 .. Len(JobOrder) /\ JobOrder[k] \in Jobs
  BY ShareAssumption

LEMMA NoTickFields ==
  /\ NoTick \in Ticks /\ NoTick.step = "off" /\ NoTick.share = 0 /\ NoTick.todo = {} /\ NoTick.stuck = {}
  /\ \A j \in Jobs : NoTick.seen[j] = Unseen /\ NoTick.deficit[j] = 0
<1>1. PICK s, d : s = [j \in Jobs |-> Unseen] /\ d = [j \in Jobs |-> 0]
  OBVIOUS
<1>2. s \in [Jobs -> Sights] /\ d \in [Jobs -> Nat]
  BY <1>1 DEF Unseen, Sights
<1>3. NoTick = [step |-> "off", todo |-> {}, seen |-> s, share |-> 0, stuck |-> {}, deficit |-> d, turn |-> 0]
  BY <1>1 DEF NoTick
<1>4. 0 \in 0 .. Len(JobOrder) /\ {} \in SUBSET Pipelines /\ {} \in SUBSET Jobs /\ 0 \in Nat
  BY Places
<1>5. NoTick \in Ticks
  BY <1>2, <1>3, <1>4 DEF Ticks
<1>6. \A j \in Jobs : s[j] = Unseen /\ d[j] = 0
  BY <1>1
<1>7. /\ NoTick.step = "off" /\ NoTick.share = 0 /\ NoTick.todo = {} /\ NoTick.stuck = {}
      /\ NoTick.seen = s /\ NoTick.deficit = d
  BY <1>3
<1> QED BY <1>5, <1>6, <1>7

LEMMA TickStartMoves ==
  ASSUME TypeOK, TickStart
  PROVE  /\ tick' \in Ticks /\ tick'.step = "gather" /\ tick'.share = 0
         /\ \A j \in Jobs : tick'.seen[j] = Unseen /\ tick'.deficit[j] = 0
<1>1. PICK t : t = NoTick
  OBVIOUS
<1>2. /\ t \in Ticks /\ t.share = 0
      /\ \A j \in Jobs : t.seen[j] = Unseen /\ t.deficit[j] = 0
  BY <1>1, NoTickFields
<1>3. tick' = [t EXCEPT !.step = "gather", !.todo = Pipelines]
  BY <1>1 DEF TickStart
<1>4. tick' \in Ticks /\ tick'.step = "gather" /\ tick'.share = t.share /\ tick'.seen = t.seen /\ tick'.deficit = t.deficit
  BY <1>2, <1>3 DEF Ticks
<1> QED BY <1>2, <1>4

LEMMA SnapshotTyped ==
  ASSUME TypeOK, NEW j \in Jobs
  PROVE  /\ Snapshot(j) \in Sights
         /\ job[j].phase = "processing" => /\ Snapshot(j).outstanding = job[j].dispatched - job[j].processed
                                           /\ Snapshot(j).remaining = Total[j] - job[j].dispatched
         /\ job[j].phase # "processing" => Snapshot(j).remaining = 0
<1>1. job[j].dispatched - job[j].processed \in Nat /\ Total[j] - job[j].dispatched \in Nat
  BY CountsNat
<1> QED BY <1>1 DEF Snapshot, Sights, Unseen, Outstanding, Remaining

LEMMA GatherMoves ==
  ASSUME TypeOK, NEW p \in Pipelines, Gather(p)
  PROVE  /\ tick' \in Ticks /\ TickSame({"step", "stuck", "share", "deficit", "turn"})
         /\ \A j \in Jobs : tick'.seen[j] = tick.seen[j] \/ tick'.seen[j] = Snapshot(j)
<1>1. PICK t, s : t = tick /\ s = [j \in Jobs |-> IF Pipeline[j] = p THEN Snapshot(j) ELSE tick.seen[j]]
  OBVIOUS
<1>2. t \in Ticks
  BY <1>1, Typed DEF TickTyped
<1>3. \A j \in Jobs : t.seen[j] \in Sights /\ Snapshot(j) \in Sights
  BY <1>2, SnapshotTyped DEF Ticks
<1>4. s \in [Jobs -> Sights] /\ \A j \in Jobs : s[j] = t.seen[j] \/ s[j] = Snapshot(j)
  BY <1>1, <1>3
<1>5. tick' = [t EXCEPT !.todo = t.todo \ {p}, !.seen = s]
  BY <1>1 DEF Gather
<1>6. /\ tick' \in Ticks /\ tick'.step = t.step /\ tick'.stuck = t.stuck /\ tick'.share = t.share
      /\ tick'.deficit = t.deficit /\ tick'.turn = t.turn /\ tick'.seen = s
  BY <1>2, <1>4, <1>5 DEF Ticks
<1>7. TickSame({"step", "stuck", "share", "deficit", "turn"})
  BY <1>1, <1>6 DEF TickSame
<1> QED BY <1>1, <1>4, <1>6, <1>7

LEMMA GatherFailsMoves ==
  ASSUME TypeOK, NEW p \in Pipelines, GatherFails(p)
  PROVE  tick' \in Ticks /\ TickSame({"step", "stuck", "seen", "share", "deficit", "turn"})
<1>1. PICK t : t = tick
  OBVIOUS
<1>2. t \in Ticks
  BY <1>1, Typed DEF TickTyped
<1>3. tick' = [t EXCEPT !.todo = t.todo \ {p}]
  BY <1>1 DEF GatherFails
<1>4. /\ tick' \in Ticks /\ tick'.step = t.step /\ tick'.stuck = t.stuck /\ tick'.share = t.share
      /\ tick'.deficit = t.deficit /\ tick'.turn = t.turn /\ tick'.seen = t.seen
  BY <1>2, <1>3 DEF Ticks
<1> QED BY <1>1, <1>4 DEF TickSame

LEMMA SweepSelectMoves ==
  ASSUME TypeOK, NEW p \in Pipelines, SweepSelect(p)
  PROVE  tick' \in Ticks /\ TickSame({"step", "seen", "share", "deficit", "turn"})
<1>1. PICK t, s : t = tick /\ s = {j \in Jobs : Pipeline[j] = p /\ AllProcessed(j)}
  OBVIOUS
<1>2. t \in Ticks /\ s \in SUBSET Jobs
  BY <1>1, Typed DEF TickTyped
<1>3. tick' = [t EXCEPT !.todo = t.todo \ {p}, !.stuck = s]
  BY <1>1 DEF SweepSelect
<1>4. /\ tick' \in Ticks /\ tick'.step = t.step /\ tick'.share = t.share
      /\ tick'.deficit = t.deficit /\ tick'.turn = t.turn /\ tick'.seen = t.seen
  BY <1>2, <1>3 DEF Ticks
<1> QED BY <1>1, <1>4 DEF TickSame

LEMMA SweepMoves ==
  ASSUME TypeOK, SweepBreaks \/ \E j \in Jobs : SweepClaim(j)
  PROVE  tick' \in Ticks /\ TickSame({"step", "seen", "share", "deficit", "turn"})
<1>1. PICK t : t = tick
  OBVIOUS
<1>2. t \in Ticks
  BY <1>1, Typed DEF TickTyped
<1>3. \E s \in SUBSET Jobs : tick' = [t EXCEPT !.stuck = s]
  <2>1. CASE SweepBreaks
    <3>1. tick' = [t EXCEPT !.stuck = {}] /\ {} \in SUBSET Jobs
      BY <1>1, <2>1 DEF SweepBreaks
    <3> QED BY <3>1
  <2>2. ASSUME NEW j \in Jobs, SweepClaim(j) PROVE \E s \in SUBSET Jobs : tick' = [t EXCEPT !.stuck = s]
    <3>1. tick' = [t EXCEPT !.stuck = t.stuck \ {j}]
      BY <1>1, <2>2 DEF SweepClaim
    <3>2. t.stuck \ {j} \in SUBSET Jobs
      BY <1>2 DEF Ticks
    <3> QED BY <3>1, <3>2
  <2> QED BY <2>1, <2>2
<1>4. PICK s \in SUBSET Jobs : tick' = [t EXCEPT !.stuck = s]
  BY <1>3
<1>5. /\ tick' \in Ticks /\ tick'.step = t.step /\ tick'.share = t.share
      /\ tick'.deficit = t.deficit /\ tick'.turn = t.turn /\ tick'.seen = t.seen
  BY <1>2, <1>4 DEF Ticks
<1> QED BY <1>1, <1>5 DEF TickSame

LEMMA Divided ==
  ASSUME NEW a \in Nat, NEW n \in Nat, n > 1
  PROVE  a \div n \in Nat /\ a \div n <= a
<1>1. PICK q : q = a \div n
  OBVIOUS
<1>2. q \in Int /\ n * q <= a /\ a < n * q + n
  BY <1>1
<1>3. q >= 0
  BY <1>2
<1>4. q <= n * q
  BY <1>2, <1>3
<1> QED BY <1>1, <1>2, <1>3, <1>4

LEMMA ShareBound ==
  ASSUME NEW n \in Nat
  PROVE  /\ ComputeJobWindow(n) \in Nat /\ ComputeJobWindow(n) <= MaxShare
         /\ MaxShare \in Nat /\ Fallback <= MaxShare /\ MaxShare > 0
<1>1. Depth \in Nat /\ MinWindow \in Nat /\ Fallback \in Nat /\ Depth > 0
  BY ShareAssumption
<1>2. MaxShare \in Nat /\ Depth <= MaxShare /\ MinWindow <= MaxShare /\ Fallback <= MaxShare
  BY <1>1 DEF MaxShare, Greater
<1>3. n > 1 => Depth \div n \in Nat /\ Depth \div n <= Depth
  BY <1>1, Divided
<1>4. CASE n <= 1
  BY <1>1, <1>2, <1>4 DEF ComputeJobWindow
<1>5. CASE n > 1
  <2>1. PICK q : q = Depth \div n
    OBVIOUS
  <2>2. q \in Nat /\ q <= Depth /\ ComputeJobWindow(n) = IF MinWindow > q THEN MinWindow ELSE q
    BY <1>3, <1>5, <2>1 DEF ComputeJobWindow, Greater
  <2> QED BY <1>1, <1>2, <2>2
<1> QED BY <1>1, <1>2, <1>4, <1>5

LEMMA WriteJobWindowMoves ==
  ASSUME TypeOK, WriteJobWindow
  PROVE  /\ tick' \in Ticks /\ TickSame({"stuck", "seen", "deficit", "turn"})
         /\ window' \in Nat /\ window' <= MaxShare /\ tick'.share = window' /\ tick'.step = "sweep"
         /\ tick.step = "gather"
<1>1. PICK t, a : t = tick /\ a = Cardinality({j \in Jobs : job[j].phase \in {"processing", "claimed"}})
  OBVIOUS
<1>2. t \in Ticks
  BY <1>1, Typed DEF TickTyped
<1>3. a \in Nat
  <2>1. IsFiniteSet(Jobs) /\ {j \in Jobs : job[j].phase \in {"processing", "claimed"}} \subseteq Jobs
    BY ShareAssumption
  <2>2. IsFiniteSet({j \in Jobs : job[j].phase \in {"processing", "claimed"}})
    BY <2>1, FS_Subset
  <2> QED BY <1>1, <2>2, FS_CardinalityType
<1>4. window' = ComputeJobWindow(a)
  BY <1>1 DEF WriteJobWindow
<1>5. PICK y : y = window'
  OBVIOUS
<1>6. y \in Nat /\ y <= MaxShare
  BY <1>3, <1>4, <1>5, ShareBound
<1>7. tick' = [t EXCEPT !.step = "sweep", !.todo = Pipelines, !.share = y]
  BY <1>1, <1>5 DEF WriteJobWindow
<1>8. /\ tick' \in Ticks /\ tick'.step = "sweep" /\ tick'.share = y /\ tick'.stuck = t.stuck
      /\ tick'.deficit = t.deficit /\ tick'.turn = t.turn /\ tick'.seen = t.seen
  BY <1>2, <1>6, <1>7 DEF Ticks
<1>9. tick.step = "gather"
  BY DEF WriteJobWindow
<1> QED BY <1>1, <1>5, <1>6, <1>8, <1>9 DEF TickSame

LEMMA DeficitBounds ==
  ASSUME NEW st \in Sights, NEW share \in Nat
  PROVE  /\ Deficit(st, share) \in Nat /\ Deficit(st, share) <= st.remaining
         /\ Deficit(st, share) > 0 => st.remaining > 0 /\ st.outstanding + Deficit(st, share) <= share
<1>1. st.outstanding \in Nat /\ st.remaining \in Nat
  BY DEF Sights
<1> QED BY <1>1 DEF Deficit, Lesser, Greater

(* The tick that is over has no deficits and published nothing.            *)
Over ==
  /\ tick'.step = "off" /\ tick'.share = 0
  /\ \A j \in Jobs : tick'.seen[j] = Unseen /\ tick'.deficit[j] = 0

LEMMA TicksOver ==
  ASSUME tick' = NoTick
  PROVE  tick' \in Ticks /\ Over
<1>1. PICK t : t = NoTick
  OBVIOUS
<1>2. /\ t \in Ticks /\ t.step = "off" /\ t.share = 0
      /\ \A j \in Jobs : t.seen[j] = Unseen /\ t.deficit[j] = 0
  BY <1>1, NoTickFields
<1>3. tick' = t
  BY <1>1
<1> QED BY <1>2, <1>3 DEF Over

LEMMA StartTopUpMoves ==
  ASSUME TypeOK, StartTopUp
  PROVE  /\ tick' \in Ticks /\ rotation' \in 0 .. Rotations - 1 /\ tick.step = "sweep"
         /\ \/ Over
            \/ /\ tick'.step = "topup" /\ tick'.share = 0 /\ tick'.turn \in Needy(tick'.deficit)
               /\ \A j \in Jobs : tick'.seen[j] = Unseen /\ tick'.deficit[j] = Deficit(tick.seen[j], tick.share)
<1>1. PICK t, d, z : t = tick /\ d = [j \in Jobs |-> Deficit(tick.seen[j], tick.share)] /\ z = NoTick
  OBVIOUS
<1>2. t \in Ticks /\ rotation \in 0 .. Rotations - 1
  BY <1>1, Typed DEF TickTyped
<1>3. d \in [Jobs -> Nat] /\ \A j \in Jobs : d[j] = Deficit(tick.seen[j], tick.share)
  <2>1. \A j \in Jobs : Deficit(t.seen[j], t.share) \in Nat
    <3> TAKE j \in Jobs
    <3>1. t.seen[j] \in Sights /\ t.share \in Nat
      BY <1>2 DEF Ticks
    <3> QED BY <3>1, DeficitBounds
  <2> QED BY <1>1, <2>1
<1>4. tick.step = "sweep"
  BY DEF StartTopUp
<1>5. CASE Needy(d) = {}
  <2>1. tick' = NoTick /\ rotation' = rotation
    BY <1>1, <1>5 DEF StartTopUp
  <2> QED BY <1>2, <1>4, <2>1, TicksOver
<1>6. CASE Needy(d) # {}
  <2>1. rotation' = (rotation + 1) % Rotations
        /\ \E k \in Needy(d) : tick' = [z EXCEPT !.step = "topup", !.deficit = d, !.turn = k]
    BY <1>1, <1>6 DEF StartTopUp
  <2>2. rotation' \in 0 .. Rotations - 1
    BY <1>2, <2>1, ShareAssumption
  <2>3. PICK k \in Needy(d) : tick' = [z EXCEPT !.step = "topup", !.deficit = d, !.turn = k]
    BY <2>1
  <2>4. z \in Ticks /\ z.share = 0 /\ \A j \in Jobs : z.seen[j] = Unseen
    BY <1>1, NoTickFields
  <2>5. k \in 0 .. Len(JobOrder)
    BY Places DEF Needy
  <2>6. tick' \in Ticks /\ tick'.step = "topup" /\ tick'.deficit = d /\ tick'.turn = k
        /\ tick'.share = z.share /\ tick'.seen = z.seen
    BY <1>3, <2>3, <2>4, <2>5 DEF Ticks
  <2> QED BY <1>3, <1>4, <2>2, <2>3, <2>4, <2>6
<1> QED BY <1>5, <1>6

LEMMA TopUpMoves ==
  ASSUME TypeOK, TopUp, tick.turn \in Needy(tick.deficit), NEW x, x = JobOrder[tick.turn],
         NEW n, n = Claimable(x, Turn(x))
  PROVE  /\ x \in Jobs /\ tick.step = "topup" /\ tick.deficit[x] > 0 /\ hand' = hand
         /\ Turn(x) \in Nat /\ Turn(x) = Lesser(Chunk, tick.deficit[x]) /\ n \in Nat
         /\ Publish(x, n) /\ tick' \in Ticks
         /\ pushed' \in [Jobs -> Nat]
         /\ \/ Over /\ \A j \in Jobs : pushed'[j] = 0
            \/ /\ tick'.step = "topup" /\ tick'.turn \in Needy(tick'.deficit)
               /\ TickSame({"share", "seen"})
               /\ \A l \in Needy(tick'.deficit) : Behind(tick.turn, tick'.turn) <= Behind(tick.turn, l)
               /\ \A j \in Jobs : /\ tick'.deficit[j] = IF j = x THEN Left(tick.deficit[x], n) ELSE tick.deficit[j]
                                  /\ pushed'[j] = IF j = x THEN pushed[x] + n ELSE pushed[j]
<1>1. PICK t, d : t = tick /\ d = [tick.deficit EXCEPT ![x] = Left(tick.deficit[x], n)]
  OBVIOUS
<1>2. t \in Ticks /\ pushed \in [Jobs -> Nat]
  BY <1>1, Typed DEF TickTyped
<1>3. x \in Jobs /\ t.deficit[x] > 0
  BY <1>1, Places DEF Needy
<1>4. /\ t.deficit[x] \in Nat /\ Turn(x) = Lesser(Chunk, t.deficit[x]) /\ Turn(x) \in Nat
      /\ Turn(x) <= t.deficit[x]
  <2>1. t.deficit[x] \in Nat
    BY <1>2, <1>3 DEF Ticks
  <2> QED BY <1>1, <2>1, ShareAssumption DEF Turn, Lesser
<1>5. n \in Nat /\ n <= t.deficit[x]
  <2>1. n \in Nat /\ n <= Turn(x)
    BY <1>3, <1>4, ClaimableBounds
  <2> QED BY <1>4, <2>1
<1>6. d \in [Jobs -> Nat] /\ \A j \in Jobs : d[j] = IF j = x THEN Left(t.deficit[x], n) ELSE t.deficit[j]
  <2>1. Left(t.deficit[x], n) \in Nat
    BY <1>4, <1>5 DEF Left
  <2>2. t.deficit \in [Jobs -> Nat] /\ d = [t.deficit EXCEPT ![x] = Left(t.deficit[x], n)]
    BY <1>1, <1>2 DEF Ticks
  <2>3. PICK y : y = Left(t.deficit[x], n)
    OBVIOUS
  <2>4. y \in Nat /\ d = [t.deficit EXCEPT ![x] = y]
    BY <2>1, <2>2, <2>3
  <2> QED BY <1>3, <2>2, <2>3, <2>4
<1>7. Publish(x, n) /\ hand' = hand /\ tick.step = "topup"
  BY DEF TopUp
<1>8. CASE Needy(d) = {}
  <2>1. tick' = NoTick /\ pushed' = [i \in Jobs |-> 0]
    BY <1>1, <1>8 DEF TopUp
  <2>2. pushed' \in [Jobs -> Nat] /\ \A j \in Jobs : pushed'[j] = 0
    BY <2>1
  <2> QED BY <1>1, <1>3, <1>4, <1>5, <1>7, <2>1, <2>2, TicksOver
<1>9. CASE Needy(d) # {}
  <2>1. pushed' = [pushed EXCEPT ![x] = @ + n]
    BY <1>1, <1>9 DEF TopUp
  <2>2. pushed' \in [Jobs -> Nat] /\ \A j \in Jobs : pushed'[j] = IF j = x THEN pushed[x] + n ELSE pushed[j]
    BY <1>2, <1>3, <1>5, <2>1
  <2>3. \E k \in Needy(d) : /\ \A l \in Needy(d) : Behind(t.turn, k) <= Behind(t.turn, l)
                            /\ tick' = [t EXCEPT !.deficit = d, !.turn = k]
    BY <1>1, <1>9 DEF TopUp
  <2>4. PICK k \in Needy(d) : /\ \A l \in Needy(d) : Behind(t.turn, k) <= Behind(t.turn, l)
                              /\ tick' = [t EXCEPT !.deficit = d, !.turn = k]
    BY <2>3
  <2>5. k \in 0 .. Len(JobOrder)
    BY Places DEF Needy
  <2>6. tick' \in Ticks /\ tick'.step = t.step /\ tick'.deficit = d /\ tick'.turn = k
        /\ tick'.share = t.share /\ tick'.seen = t.seen
    BY <1>2, <1>6, <2>4, <2>5 DEF Ticks
  <2>7. TickSame({"share", "seen"})
    BY <1>1, <2>6 DEF TickSame
  <2>8. \A j \in Jobs : /\ tick'.deficit[j] = IF j = x THEN Left(tick.deficit[x], n) ELSE tick.deficit[j]
                        /\ pushed'[j] = IF j = x THEN pushed[x] + n ELSE pushed[j]
    BY <1>1, <1>6, <2>2, <2>6
  <2>9. /\ tick'.step = "topup" /\ tick'.turn \in Needy(tick'.deficit)
        /\ \A l \in Needy(tick'.deficit) : Behind(tick.turn, tick'.turn) <= Behind(tick.turn, l)
    BY <1>1, <1>7, <2>4, <2>6
  <2> QED BY <1>1, <1>3, <1>4, <1>5, <1>7, <2>2, <2>6, <2>7, <2>8, <2>9
<1> QED BY <1>8, <1>9

-----------------------------------------------------------------------------
(* The turns are fair.  In the order in which their turns come, the needy  *)
(* jobs with rows left were given more and more: that is why the job whose *)
(* turn it is can be given a chunk.                                        *)

Rank(t, k) == IF k >= t THEN k ELSE k + Len(JobOrder)

TurnInv ==
  /\ tick.step # "topup" => \A j \in Jobs : pushed[j] = 0 /\ tick.deficit[j] = 0
  /\ tick.step = "topup" =>
       /\ tick.turn \in Needy(tick.deficit)
       /\ \A k, l \in Needy(tick.deficit) :
            Remaining(JobOrder[k]) > 0 /\ Remaining(JobOrder[l]) > 0 /\ Rank(tick.turn, k) < Rank(tick.turn, l)
              => pushed[JobOrder[k]] <= pushed[JobOrder[l]]

LEMMA RankMoves ==
  ASSUME NEW t \in DOMAIN JobOrder, NEW u \in DOMAIN JobOrder, NEW k \in DOMAIN JobOrder, NEW l \in DOMAIN JobOrder,
         Behind(t, u) <= Behind(t, k), Behind(t, u) <= Behind(t, l), Rank(u, k) < Rank(u, l)
  PROVE  k # t /\ (l # t => Rank(t, k) < Rank(t, l))
<1>1. PICK n \in Nat : n = Len(JobOrder)
  BY Places
<1>2. t \in 1 .. n /\ u \in 1 .. n /\ k \in 1 .. n /\ l \in 1 .. n
  BY <1>1, Places
<1> QED BY <1>1, <1>2 DEF Behind, Rank

LEMMA FirstInRank ==
  ASSUME NEW t \in DOMAIN JobOrder, NEW l \in DOMAIN JobOrder, l # t
  PROVE  Rank(t, t) < Rank(t, l)
<1>1. PICK n \in Nat : n = Len(JobOrder)
  BY Places
<1>2. t \in 1 .. n /\ l \in 1 .. n
  BY <1>1, Places
<1> QED BY <1>1, <1>2 DEF Rank

LEMMA RemainingNat ==
  ASSUME TypeOK, NEW j \in Jobs
  PROVE  Remaining(j) = Total[j] - job[j].dispatched /\ Remaining(j) \in Nat
  BY CountsNat DEF Remaining

(* Whatever else happens, rows left only become fewer.                     *)
LEMMA TurnsStand ==
  ASSUME TypeOK, TypeOK', TurnInv, RotationIsFair, pushed' = pushed,
         TickSame({"step", "deficit", "turn"}),
         \A j \in Jobs : job'[j].dispatched >= job[j].dispatched
  PROVE  TurnInv' /\ RotationIsFair'
<1>1. \A j \in Jobs : Remaining(j)' > 0 => Remaining(j) > 0
  <2> TAKE j \in Jobs
  <2>1. job'[j].dispatched >= job[j].dispatched
    OBVIOUS
  <2>2. job'[j].dispatched \in Nat /\ job[j].dispatched \in Nat /\ Total[j] \in Nat
    <3>1. job' \in [Jobs -> Records]
      BY DEF TypeOK, Records, Phases
    <3> QED BY <3>1, CountsNat DEF Records
  <2> QED BY <2>1, <2>2 DEF Remaining
<1>2. tick'.step = tick.step /\ tick'.deficit = tick.deficit /\ tick'.turn = tick.turn
  BY DEF TickSame
<1>3. TurnInv'
  <2>1. tick'.step # "topup" => \A j \in Jobs : pushed'[j] = 0 /\ tick'.deficit[j] = 0
    BY <1>2 DEF TurnInv
  <2>2. tick'.step = "topup" => tick'.turn \in Needy(tick'.deficit)
    BY <1>2 DEF TurnInv
  <2>3. ASSUME tick'.step = "topup", NEW k \in Needy(tick'.deficit), NEW l \in Needy(tick'.deficit),
               Remaining(JobOrder[k])' > 0, Remaining(JobOrder[l])' > 0, Rank(tick'.turn, k) < Rank(tick'.turn, l)
        PROVE  pushed'[JobOrder[k]] <= pushed'[JobOrder[l]]
    <3>1. k \in Needy(tick.deficit) /\ l \in Needy(tick.deficit) /\ Rank(tick.turn, k) < Rank(tick.turn, l)
          /\ tick.step = "topup"
      BY <1>2, <2>3
    <3>2. Remaining(JobOrder[k]) > 0 /\ Remaining(JobOrder[l]) > 0
      BY <1>1, <2>3, <3>1, Places DEF Needy
    <3> QED BY <3>1, <3>2 DEF TurnInv
  <2> QED BY <2>1, <2>2, <2>3 DEF TurnInv
<1>4. RotationIsFair'
  BY <1>1, <1>2 DEF RotationIsFair
<1> QED BY <1>3, <1>4

(* The round robin's own step.                                             *)
LEMMA TopUpTurns ==
  ASSUME TypeOK, TypeOK', CountInv, TurnInv, RotationIsFair, TopUp
  PROVE  TurnInv' /\ RotationIsFair'
<1>1. tick.step = "topup" /\ tick.turn \in Needy(tick.deficit)
  BY DEF TopUp, TurnInv
<1>2. PICK x, n, c : x = JobOrder[tick.turn] /\ n = Claimable(x, Turn(x)) /\ c = Turn(x)
  OBVIOUS
<1>3. /\ x \in Jobs /\ tick.deficit[x] > 0 /\ hand' = hand
      /\ c \in Nat /\ c = Lesser(Chunk, tick.deficit[x]) /\ n \in Nat /\ n = Claimable(x, c)
      /\ Publish(x, n)
      /\ \/ Over /\ \A j \in Jobs : pushed'[j] = 0
         \/ /\ tick'.step = "topup" /\ tick'.turn \in Needy(tick'.deficit)
            /\ \A l \in Needy(tick'.deficit) : Behind(tick.turn, tick'.turn) <= Behind(tick.turn, l)
            /\ \A j \in Jobs : /\ tick'.deficit[j] = IF j = x THEN Left(tick.deficit[x], n) ELSE tick.deficit[j]
                               /\ pushed'[j] = IF j = x THEN pushed[x] + n ELSE pushed[j]
  BY <1>1, <1>2, TopUpMoves
<1>4. CASE Over /\ \A j \in Jobs : pushed'[j] = 0
  BY <1>4 DEF Over, TurnInv, RotationIsFair
<1>5. CASE /\ tick'.step = "topup" /\ tick'.turn \in Needy(tick'.deficit)
           /\ \A l \in Needy(tick'.deficit) : Behind(tick.turn, tick'.turn) <= Behind(tick.turn, l)
           /\ \A j \in Jobs : /\ tick'.deficit[j] = IF j = x THEN Left(tick.deficit[x], n) ELSE tick.deficit[j]
                              /\ pushed'[j] = IF j = x THEN pushed[x] + n ELSE pushed[j]
  <2>1. /\ \A j \in Jobs : tick.deficit[j] \in Nat /\ pushed[j] \in Nat
        /\ Chunk \in Nat /\ Chunk > 0
    BY Typed, ShareAssumption DEF TickTyped, Ticks
  <2>2. /\ n <= c /\ n <= Remaining(x) /\ (n > 0 => job[x].phase = "processing")
        /\ (n > 0 /\ n < c => n = Remaining(x))
    BY <1>3, ClaimableBounds, RemainingNat
  <2>3. \A j \in Jobs : Remaining(j)' = (IF j = x THEN Remaining(x) - n ELSE Remaining(j)) /\ Remaining(j) \in Nat
    <3>1. hand' = hand /\ Publish(x, Claimable(x, c))
      BY <1>3
    <3>2. JobTo(x, job[x].phase, n, 0)
      BY <1>3, <3>1, TickPublishKeeps
    <3>3. \A j \in Jobs : job[j].dispatched \in Nat /\ Total[j] \in Nat
      BY CountsNat
    <3>4. \A j \in Jobs : job'[j].dispatched = job[j].dispatched + (IF j = x THEN n ELSE 0)
      BY <1>3, <3>2, <3>3 DEF JobTo
    <3>5. \A j \in Jobs : Remaining(j)' = Total[j] - job'[j].dispatched
      BY DEF Remaining
    <3> QED BY <1>3, <3>3, <3>4, <3>5, RemainingNat
  <2>4. c <= Chunk /\ c <= tick.deficit[x] /\ (c < Chunk => c = tick.deficit[x])
    BY <1>3, <2>1 DEF Lesser
  <2>5. (* A job that is still needy and has rows left got a whole chunk. *)
        tick'.deficit[x] > 0 /\ Remaining(x)' > 0 => n = Chunk
    <3>1. tick'.deficit[x] = Left(tick.deficit[x], n) /\ Remaining(x)' = Remaining(x) - n /\ Remaining(x) \in Nat
      BY <1>3, <1>5, <2>3
    <3>2. tick.deficit[x] \in Nat
      BY <1>3, <2>1
    <3> QED BY <1>3, <2>1, <2>2, <2>4, <3>1, <3>2 DEF Left
  <2>6. \A k \in Needy(tick'.deficit) : k \in Needy(tick.deficit) /\ k \in DOMAIN JobOrder
    <3> TAKE k \in Needy(tick'.deficit)
    <3>1. k \in DOMAIN JobOrder /\ JobOrder[k] \in Jobs /\ tick'.deficit[JobOrder[k]] > 0
      BY Places DEF Needy
    <3>2. JobOrder[k] # x => tick.deficit[JobOrder[k]] > 0
      BY <1>5, <3>1
    <3>3. JobOrder[k] = x => tick.deficit[JobOrder[k]] > 0
      BY <1>3
    <3> QED BY <3>1, <3>2, <3>3 DEF Needy
  <2>7. tick.turn \in DOMAIN JobOrder /\ tick'.turn \in DOMAIN JobOrder
        /\ \A k \in DOMAIN JobOrder : JobOrder[k] \in Jobs /\ (JobOrder[k] = x <=> k = tick.turn)
    BY <1>1, <1>2, <1>5, Places, ShareAssumption DEF Needy
  <2>8. ASSUME NEW k \in Needy(tick'.deficit), NEW l \in Needy(tick'.deficit),
               Remaining(JobOrder[k])' > 0, Remaining(JobOrder[l])' > 0, Rank(tick'.turn, k) < Rank(tick'.turn, l)
        PROVE  pushed'[JobOrder[k]] <= pushed'[JobOrder[l]]
    <3>1. k \in DOMAIN JobOrder /\ l \in DOMAIN JobOrder /\ k \in Needy(tick.deficit) /\ l \in Needy(tick.deficit)
      BY <2>6
    <3>2. k # tick.turn /\ (l # tick.turn => Rank(tick.turn, k) < Rank(tick.turn, l))
      <4>1. Behind(tick.turn, tick'.turn) <= Behind(tick.turn, k) /\ Behind(tick.turn, tick'.turn) <= Behind(tick.turn, l)
        BY <1>5
      <4> QED BY <2>7, <2>8, <3>1, <4>1, RankMoves
    <3>3. pushed'[JobOrder[k]] = pushed[JobOrder[k]] /\ Remaining(JobOrder[k]) > 0 /\ JobOrder[k] \in Jobs /\ JobOrder[l] \in Jobs
      BY <1>5, <2>3, <2>7, <2>8, <3>1, <3>2
    <3>4. CASE l = tick.turn
      <4>1. JobOrder[l] = x /\ tick'.deficit[x] > 0 /\ Remaining(x)' > 0
        BY <1>2, <2>8, <3>4 DEF Needy
      <4>2. n = Chunk /\ Remaining(x) > 0
        BY <1>3, <2>3, <2>5, <4>1
      <4>3. pushed[JobOrder[k]] <= pushed[x] + Chunk
        BY <1>1, <1>3, <3>3, <4>2 DEF RotationIsFair
      <4> QED BY <1>3, <1>5, <3>3, <4>1, <4>2, <4>3
    <3>5. CASE l # tick.turn
      <4>1. pushed'[JobOrder[l]] = pushed[JobOrder[l]] /\ Remaining(JobOrder[l]) > 0
        BY <1>5, <2>3, <2>7, <2>8, <3>1, <3>5
      <4> QED BY <1>1, <3>1, <3>2, <3>3, <3>5, <4>1 DEF TurnInv
    <3> QED BY <3>4, <3>5
  <2>9. TurnInv'
    BY <1>5, <2>8 DEF TurnInv
  <2>10. ASSUME NEW i \in Jobs, NEW j \in Jobs, tick'.deficit[j] > 0, Remaining(j)' > 0
         PROVE  pushed'[i] <= pushed'[j] + Chunk
    <3>1. pushed[i] \in Nat /\ pushed[j] \in Nat /\ pushed[x] \in Nat
      BY <1>3, <2>1
    <3>2. CASE j = x
      <4>1. n = Chunk /\ Remaining(x) > 0
        BY <1>3, <2>3, <2>5, <2>10, <3>2
      <4>2. pushed[i] <= pushed[x] + Chunk
        BY <1>1, <1>3, <4>1 DEF RotationIsFair
      <4> QED BY <1>5, <2>1, <3>1, <3>2, <4>1, <4>2
    <3>3. CASE j # x
      <4>1. tick.deficit[j] > 0 /\ Remaining(j) > 0 /\ pushed'[j] = pushed[j]
        BY <1>5, <2>3, <2>10, <3>3
      <4>2. pushed[i] <= pushed[j] + Chunk
        BY <1>1, <4>1 DEF RotationIsFair
      <4>3. CASE i # x \/ n = 0
        BY <1>5, <3>1, <4>1, <4>2, <4>3
      <4>4. CASE i = x /\ n > 0
        <5>1. PICK l \in DOMAIN JobOrder : JobOrder[l] = j
          BY ShareAssumption
        <5>2. l \in Needy(tick.deficit) /\ l # tick.turn
          BY <1>2, <3>3, <4>1, <5>1 DEF Needy
        <5>3. Remaining(x) > 0
          BY <1>3, <2>2, <2>3, <4>4
        <5>4. pushed[x] <= pushed[j]
          <6>1. Rank(tick.turn, tick.turn) < Rank(tick.turn, l)
            BY <2>7, <5>2, FirstInRank
          <6> QED BY <1>1, <1>2, <4>1, <5>1, <5>2, <5>3, <6>1 DEF TurnInv
        <5> QED BY <1>3, <1>5, <2>1, <2>2, <2>4, <3>1, <4>1, <4>4, <5>4
      <4> QED BY <1>3, <4>3, <4>4
    <3> QED BY <3>2, <3>3
  <2>11. RotationIsFair'
    BY <2>10 DEF RotationIsFair
  <2> QED BY <2>9, <2>11
<1> QED BY <1>3, <1>4, <1>5

-----------------------------------------------------------------------------
(* Nobody floods the queue, when every ended row publishes one other.  The *)
(* load of a job is what may stand in the queue for it without a tick: its *)
(* outstanding rows, the ended rows that are not settled, and the first    *)
(* window of its dispatch.  A tick sees a load less than a share and a     *)
(* worker each above the outstanding rows it reads, and adds at most a     *)
(* share less these.                                                       *)

W == Cardinality(Workers)
Load(j) == Outstanding(j) + Settling(j) + (IF FirstDue(j) > 0 THEN MaxShare ELSE 0)

FloodInv ==
  /\ tick.share <= MaxShare /\ window <= MaxShare
  /\ \A j \in Jobs :
       /\ Load(j) <= 2 * MaxShare + W - 1
       /\ tick.seen[j].remaining > 0 => /\ tick.step # "topup" /\ Begun(j)
                                        /\ Load(j) <= tick.seen[j].outstanding + MaxShare + W - 1
       /\ tick.deficit[j] > 0 => Begun(j) /\ Load(j) + tick.deficit[j] <= 2 * MaxShare + W - 1

LEMMA Sizes ==
  MaxShare \in Nat /\ MaxShare > 0 /\ W \in Nat
<1>1. W \in Nat
  BY ShareAssumption, FS_CardinalityType DEF W
<1>2. 0 \in Nat
  OBVIOUS
<1> QED BY <1>1, <1>2, ShareBound

LEMMA LoadNat ==
  ASSUME TypeOK, NEW j \in Jobs
  PROVE  /\ Load(j) \in Nat /\ Outstanding(j) \in Nat /\ Outstanding(j) <= Load(j)
         /\ Load(j) < Outstanding(j) + MaxShare + W
<1>1. /\ Settling(j) \in Nat /\ FirstDue(j) \in Nat /\ Settling(j) + FirstDue(j) <= W
  BY CountsNat DEF W
<1>2. Outstanding(j) \in Nat
  BY CountsNat DEF Outstanding
<1> QED BY <1>1, <1>2, Sizes DEF Load

LEMMA FloodStands ==
  ASSUME TypeOK, TypeOK', FloodInv, window' = window \/ window' = NoWindow,
         TickSame({"step", "seen", "share", "deficit"}),
         \A j \in Jobs : Load(j)' <= Load(j) /\ (Begun(j) => Begun(j)')
  PROVE  FloodInv'
<1>1. /\ tick'.step = tick.step /\ tick'.seen = tick.seen /\ tick'.share = tick.share
      /\ tick'.deficit = tick.deficit
  BY DEF TickSame
<1>2. MaxShare' = MaxShare /\ W' = W
  BY DEF MaxShare, W, Greater
<1>3. window' <= MaxShare
  BY Sizes DEF FloodInv, NoWindow
<1>4. ASSUME NEW j \in Jobs
      PROVE  /\ Load(j)' <= 2 * MaxShare + W - 1
             /\ tick.seen[j].remaining > 0 => /\ tick.step # "topup" /\ Begun(j)'
                                              /\ Load(j)' <= tick.seen[j].outstanding + MaxShare + W - 1
             /\ tick.deficit[j] > 0 => Begun(j)' /\ Load(j)' + tick.deficit[j] <= 2 * MaxShare + W - 1
  <2>1. PICK a, b : a = Load(j) /\ b = Load(j)'
    OBVIOUS
  <2>2. a \in Nat /\ b \in Nat /\ b <= a
    <3>1. Load(j)' \in Nat
      <4>1. /\ Settling(j)' \in Nat /\ FirstDue(j)' \in Nat /\ Outstanding(j)' \in Nat
        <5>1. Settling(j)' \in Nat /\ FirstDue(j)' \in Nat
          BY HoldersFinite DEF Settling, FirstDue, At
        <5>2. job'[j].dispatched \in Nat /\ job'[j].processed \in Nat /\ job'[j].processed <= job'[j].dispatched
          BY DEF TypeOK
        <5> QED BY <5>1, <5>2 DEF Outstanding
      <4> QED BY <4>1, <1>2, Sizes DEF Load
    <3> QED BY <2>1, <3>1, LoadNat
  <2>3. tick \in Ticks
    BY Typed DEF TickTyped
  <2>4. tick.seen[j].outstanding \in Nat /\ tick.deficit[j] \in Nat
    BY <2>3 DEF Ticks, Sights
  <2>5. /\ a <= 2 * MaxShare + W - 1
        /\ tick.seen[j].remaining > 0 => /\ tick.step # "topup" /\ Begun(j)
                                         /\ a <= tick.seen[j].outstanding + MaxShare + W - 1
        /\ tick.deficit[j] > 0 => Begun(j) /\ a + tick.deficit[j] <= 2 * MaxShare + W - 1
    BY <2>1 DEF FloodInv
  <2> QED BY <2>1, <2>2, <2>4, <2>5, Sizes
<1> QED BY <1>1, <1>2, <1>3, <1>4 DEF FloodInv

(* The loads that the workers' steps leave.                                *)
LEMMA LoadSame ==
  ASSUME TypeOK, NEW j \in Jobs, job'[j].dispatched = job[j].dispatched, job'[j].processed = job[j].processed,
         Settling(j)' \in Nat, Settling(j)' <= Settling(j), FirstDue(j)' = FirstDue(j)
  PROVE  Load(j)' <= Load(j)
<1>1. Outstanding(j)' = Outstanding(j) /\ Outstanding(j) \in Nat
  BY LoadNat DEF Outstanding
<1>2. Settling(j) \in Nat /\ FirstDue(j) \in Nat
  BY CountsNat
<1>3. MaxShare' = MaxShare
  BY DEF MaxShare, Greater
<1> QED BY <1>1, <1>2, <1>3, Sizes DEF Load

LEMMA RefillLoad ==
  ASSUME TypeOK, CountInv, Chunk = 1, FloodInv, NEW w \in Workers,
         FirstWindow(w) \/ (Settle(w) /\ ~AllProcessed(hand[w].job))
  PROVE  \A j \in Jobs : Load(j)' <= Load(j) /\ (Begun(j) => Begun(j)')
<1>1. PICK x, st, limit : x = hand[w].job /\ st = hand[w].step
                          /\ limit = IF st = "settle" THEN Chunk ELSE ReadJobWindow
  OBVIOUS
<1>2. st \in {"settle", "first_window"} /\ x \in Jobs /\ hand[w] = Step(st, x)
  <2>1. st \in {"settle", "first_window"}
    BY <1>1 DEF FirstWindow, Settle
  <2> QED BY <1>1, <2>1, InHand
<1>3. /\ limit \in Nat /\ limit <= MaxShare /\ (st = "settle" => limit = 1)
      /\ hand' = [hand EXCEPT ![w] = Free] /\ Publish(x, Claimable(x, limit))
  <2>1. CASE FirstWindow(w)
    <3>1. st = "first_window" /\ limit = ReadJobWindow
      BY <1>1, <2>1 DEF FirstWindow
    <3>2. ReadJobWindow \in Nat /\ ReadJobWindow <= MaxShare
      <4>1. 0 \in Nat
        OBVIOUS
      <4> QED BY <4>1, ReadJobWindowNat, ShareBound DEF FloodInv, ReadJobWindow
    <3> QED BY <1>1, <2>1, <3>1, <3>2 DEF FirstWindow, Done
  <2>2. CASE Settle(w) /\ ~AllProcessed(hand[w].job)
    <3>1. st = "settle" /\ limit = 1
      BY <1>1, <2>2 DEF Settle
    <3> QED BY <1>1, <2>2, <3>1, Sizes DEF Settle, Done
  <2> QED BY <2>1, <2>2
<1>4. PICK n : n = Claimable(x, limit)
  OBVIOUS
<1>5. /\ JobTo(x, job[x].phase, n, 0) /\ At(st, x) > 0
      /\ \A j \in Jobs : /\ Settling(j)' = Settling(j) - (IF st = "settle" /\ j = x THEN 1 ELSE 0)
                         /\ FirstDue(j)' = FirstDue(j) - (IF st = "first_window" /\ j = x THEN 1 ELSE 0)
  BY <1>2, <1>3, <1>4, RefillKeeps
<1>6. n \in Nat /\ n <= limit
  BY <1>2, <1>3, <1>4, ClaimableBounds
<1>7. MaxShare' = MaxShare
  BY DEF MaxShare, Greater
<1> TAKE j \in Jobs
<1>8. Settling(j) \in Nat /\ FirstDue(j) \in Nat /\ Outstanding(j) \in Nat
  BY CountsNat, LoadNat
<1>9. CASE j = x
  <2>1. job'[x].dispatched = job[x].dispatched + n /\ job'[x].processed = job[x].processed /\ job'[x].phase = job[x].phase
    BY <1>2, <1>5, CountsNat DEF JobTo
  <2>2. Outstanding(x)' = Outstanding(x) + n /\ (Begun(x) => Begun(x)')
    BY <1>2, <1>6, <2>1, CountsNat DEF Outstanding, Begun
  <2>3. CASE st = "settle"
    <3>1. Settling(x)' = Settling(x) - 1 /\ FirstDue(x)' = FirstDue(x) - 0 /\ n <= 1
      BY <1>2, <1>3, <1>5, <1>6, <2>3
    <3> QED BY <1>6, <1>7, <1>8, <1>9, <2>2, <3>1, Sizes DEF Load
  <2>4. CASE st = "first_window"
    <3>1. Settling(x)' = Settling(x) - 0 /\ FirstDue(x)' = FirstDue(x) - 1
      BY <1>2, <1>5, <2>4
    <3>2. FirstDue(x) = 1
      <4>1. FirstDue(x) > 0
        BY <1>5, <2>4 DEF FirstDue
      <4>2. FirstDue(x) <= 1
        BY <1>2, <4>1, CountsNat DEF CountInv, JobInv
      <4> QED BY <1>8, <1>9, <4>1, <4>2
    <3>3. n <= MaxShare
      BY <1>3, <1>6, Sizes
    <3> QED BY <1>6, <1>7, <1>8, <1>9, <2>2, <3>1, <3>2, <3>3, Sizes DEF Load
  <2> QED BY <1>2, <2>3, <2>4
<1>10. CASE j # x
  <2>1. job'[j] = job[j] /\ Settling(j)' = Settling(j) /\ FirstDue(j)' = FirstDue(j)
    BY <1>5, <1>8, <1>10 DEF JobTo
  <2> QED BY <1>8, <2>1, LoadSame DEF Begun
<1> QED BY <1>9, <1>10

LEMMA SettleLoad ==
  ASSUME TypeOK, CountInv, NEW w \in Workers,
         SettleLost(w) \/ (Settle(w) /\ AllProcessed(hand[w].job))
  PROVE  \A j \in Jobs : Load(j)' <= Load(j) /\ (Begun(j) => Begun(j)')
<1>1. PICK x : x = hand[w].job
  OBVIOUS
<1>2. x \in Jobs /\ hand[w] = Step("settle", x) /\ hand' = [hand EXCEPT ![w] = Free]
  BY <1>1, InHand DEF Settle, SettleLost, Done
<1>3. CASE SettleLost(w)
  <2>1. PICK st, v : st = "settle" /\ v = Free
    OBVIOUS
  <2>2. Turns(w, v)
    BY <1>2, <2>1, HandTurns
  <2>3. Turns(w, Free) /\ queue' = queue /\ job' = job
    BY <1>3, <2>1, <2>2 DEF SettleLost
  <2>4. /\ st = "settle" => Settling(x) > 0
        /\ \A j \in Jobs : /\ RowCopies(j)' = RowCopies(j) /\ Dispatches(j)' = Dispatches(j)
                           /\ FirstDue(j)' = FirstDue(j)
                           /\ Settling(j)' = Settling(j) - (IF st = "settle" /\ j = x THEN 1 ELSE 0)
                           /\ Finalizes(j)' = Finalizes(j) - (IF st = "finalize" /\ j = x THEN 1 ELSE 0)
    BY <1>2, <2>1, <2>3, LetsGoCounts
  <2> TAKE j \in Jobs
  <2>5. Settling(j)' \in Nat /\ Settling(j)' <= Settling(j)
    BY <2>1, <2>4, CountsNat
  <2>6. FirstDue(j)' = FirstDue(j)
    BY <2>4
  <2> QED BY <2>3, <2>5, <2>6, LoadSame DEF Begun
<1>4. CASE Settle(w) /\ AllProcessed(hand[w].job)
  <2>1. Finalize(x) /\ AllProcessed(x)
    BY <1>1, <1>4 DEF Settle
  <2>2. /\ JobTo(x, "claimed", 0, 0) /\ Settling(x) > 0
        /\ \A j \in Jobs : /\ Settling(j)' = Settling(j) - (IF j = x THEN 1 ELSE 0)
                           /\ FirstDue(j)' = FirstDue(j)
    BY <1>2, <2>1, SettleFinalizes
  <2> TAKE j \in Jobs
  <2>3. Settling(j)' \in Nat /\ Settling(j)' <= Settling(j) /\ FirstDue(j)' = FirstDue(j)
    BY <2>2, CountsNat
  <2>4. job'[j].dispatched = job[j].dispatched /\ job'[j].processed = job[j].processed /\ (Begun(j) => Begun(j)')
    BY <2>2, CountsNat DEF JobTo, Begun
  <2> QED BY <2>3, <2>4, LoadSame
<1> QED BY <1>3, <1>4

LEMMA RowEndsLoad ==
  ASSUME TypeOK, NEW w \in Workers, RowEnds(w)
  PROVE  \A j \in Jobs : Load(j)' <= Load(j) /\ (Begun(j) => Begun(j)')
<1>1. PICK x : x = hand[w].job
  OBVIOUS
<1>2. /\ x \in Jobs
      /\ \A j \in Jobs : /\ RowCopies(j)' = RowCopies(j) - (IF j = x THEN 1 ELSE 0)
                         /\ Settling(j)' = Settling(j) + (IF j = x THEN 1 ELSE 0)
                         /\ Dispatches(j)' = Dispatches(j) /\ Finalizes(j)' = Finalizes(j)
                         /\ FirstDue(j)' = FirstDue(j)
  BY <1>1, RowEndsCounts
<1>3. JobTo(x, job[x].phase, 0, 1)
  <2>1. job' = [job EXCEPT ![x].processed = @ + 1]
    BY <1>1 DEF RowEnds
  <2> QED BY <1>2, <2>1, RowCounted
<1>4. MaxShare' = MaxShare
  BY DEF MaxShare, Greater
<1> TAKE j \in Jobs
<1>5. CASE j = x
  <2>1. Outstanding(x)' = Outstanding(x) - 1 /\ Settling(x)' = Settling(x) + 1 /\ FirstDue(x)' = FirstDue(x)
        /\ (Begun(x) => Begun(x)')
    BY <1>2, <1>3, CountsNat DEF JobTo, Outstanding, Begun
  <2>2. Settling(x) \in Nat /\ Outstanding(x) \in Nat /\ FirstDue(x) \in Nat
    BY <1>2, CountsNat, LoadNat
  <2> QED BY <1>4, <1>5, <2>1, <2>2, Sizes DEF Load
<1>6. CASE j # x
  <2>1. job'[j] = job[j] /\ Settling(j)' = Settling(j) /\ FirstDue(j)' = FirstDue(j) /\ Settling(j) \in Nat
    BY <1>2, <1>3, <1>6, CountsNat DEF JobTo
  <2> QED BY <2>1, LoadSame DEF Begun
<1> QED BY <1>5, <1>6

LEMMA FinalizeRunsLoad ==
  ASSUME TypeOK, NEW w \in Workers, FinalizeRuns(w)
  PROVE  \A j \in Jobs : Load(j)' <= Load(j) /\ (Begun(j) => Begun(j)')
<1>1. PICK x, st, v : x = hand[w].job /\ st = "finalize" /\ v = Free
  OBVIOUS
<1>2. /\ x \in Jobs /\ hand[w] = Step(st, x) /\ hand' = [hand EXCEPT ![w] = v] /\ queue' = queue
      /\ job' = [job EXCEPT ![x].phase = "completed"]
  BY <1>1, InHand DEF FinalizeRuns, Done
<1>3. Turns(w, v)
  BY <1>2, HandTurns
<1>4. Turns(w, Free)
  BY <1>1, <1>3
<1>5. /\ st = "settle" => Settling(x) > 0
      /\ \A j \in Jobs : /\ RowCopies(j)' = RowCopies(j) /\ Dispatches(j)' = Dispatches(j)
                         /\ FirstDue(j)' = FirstDue(j)
                         /\ Settling(j)' = Settling(j) - (IF st = "settle" /\ j = x THEN 1 ELSE 0)
                         /\ Finalizes(j)' = Finalizes(j) - (IF st = "finalize" /\ j = x THEN 1 ELSE 0)
  BY <1>1, <1>2, <1>4, LetsGoCounts
<1>6. JobTo(x, "completed", 0, 0)
  BY <1>2, PhaseChanges DEF Phases
<1> TAKE j \in Jobs
<1>7. Settling(j)' \in Nat /\ Settling(j)' <= Settling(j) /\ FirstDue(j)' = FirstDue(j)
  BY <1>1, <1>5, CountsNat
<1>8. job'[j].dispatched = job[j].dispatched /\ job'[j].processed = job[j].processed /\ (Begun(j) => Begun(j)')
  BY <1>6, CountsNat DEF JobTo, Begun
<1> QED BY <1>7, <1>8, LoadSame

LEMMA QuietLoad ==
  ASSUME TypeOK, job' = job, \A j \in Jobs : Settling(j)' = Settling(j) /\ FirstDue(j)' = FirstDue(j)
  PROVE  \A j \in Jobs : Load(j)' <= Load(j) /\ (Begun(j) => Begun(j)')
<1> TAKE j \in Jobs
<1>1. Settling(j)' \in Nat /\ Settling(j)' <= Settling(j) /\ FirstDue(j)' = FirstDue(j)
  BY CountsNat
<1> QED BY <1>1, LoadSame DEF Begun

-----------------------------------------------------------------------------
(* The whole next-state relation.                                          *)

(* A step of an upload or a worker leaves the tick alone ...               *)
LEMMA WorkLeaves ==
  ASSUME TypeOK, (\E j \in Jobs : Submit(j)) \/ \E w \in Workers : Work(w)
  PROVE  /\ UNCHANGED <<window, locked, rotation, tick, pushed>> /\ faults' \in 0 .. MaxFaults
         /\ TickTyped' /\ TickSame({"step", "todo", "stuck", "seen", "share", "deficit", "turn"})
<1>1. UNCHANGED <<window, locked, rotation, tick, pushed>>
  BY DEF Submit, Work, Take, DispatchMark, FirstWindow, RowEnds, Settle, SettleLost, FinalizeRuns
<1>2. faults' = faults \/ (faults < MaxFaults /\ faults' = faults + 1)
  BY DEF Submit, Work, Take, DispatchMark, FirstWindow, RowEnds, Settle, SettleLost, FinalizeRuns
<1>3. faults' \in 0 .. MaxFaults
  <2>1. faults \in 0 .. MaxFaults /\ MaxFaults \in Nat
    BY Typed, ShareAssumption DEF TickTyped
  <2> QED BY <1>2, <2>1
<1>4. TickTyped'
  BY <1>1, <1>3, Typed DEF TickTyped
<1> QED BY <1>1, <1>3, <1>4 DEF TickSame

(* ... and most steps of the tick leave the jobs and the workers alone.    *)
Looks ==
  \/ TickStart \/ WriteJobWindow \/ SweepBreaks \/ StartTopUp \/ TopUpBreaks \/ LockExpires \/ WindowExpires
  \/ \E p \in Pipelines : Gather(p) \/ GatherFails(p) \/ SweepSelect(p)

LEMMA LooksOnly ==
  ASSUME Looks
  PROVE  job' = job /\ queue' = queue /\ hand' = hand
  BY DEF Looks, TickStart, WriteJobWindow, SweepBreaks, StartTopUp, TopUpBreaks, LockExpires, WindowExpires,
         Gather, GatherFails, SweepSelect

LEMMA LooksTyped ==
  ASSUME TypeOK, Looks
  PROVE  TickTyped'
<1>1. TickTyped
  BY Typed
<1>2. \/ faults' = faults
      \/ faults < MaxFaults /\ faults' = faults + 1
  BY DEF Looks, TickStart, WriteJobWindow, SweepBreaks, StartTopUp, TopUpBreaks, LockExpires, WindowExpires,
         Gather, GatherFails, SweepSelect
<1>3. faults' \in 0 .. MaxFaults
  BY <1>1, <1>2, ShareAssumption DEF TickTyped
<1>4. CASE TickStart
  BY <1>1, <1>3, <1>4, TickStartMoves DEF TickTyped, TickStart
<1>5. CASE WriteJobWindow
  BY <1>1, <1>3, <1>5, WriteJobWindowMoves DEF TickTyped, WriteJobWindow
<1>6. CASE SweepBreaks
  BY <1>1, <1>3, <1>6, SweepMoves DEF TickTyped, SweepBreaks
<1>7. CASE StartTopUp
  BY <1>1, <1>3, <1>7, StartTopUpMoves DEF TickTyped, StartTopUp
<1>8. CASE TopUpBreaks
  <2>1. tick' \in Ticks
    BY <1>8, TicksOver DEF TopUpBreaks
  <2>2. pushed' \in [Jobs -> Nat]
    BY <1>8 DEF TopUpBreaks
  <2> QED BY <1>1, <1>3, <1>8, <2>1, <2>2 DEF TickTyped, TopUpBreaks
<1>9. CASE LockExpires
  BY <1>1, <1>3, <1>9 DEF TickTyped, LockExpires
<1>10. CASE WindowExpires
  BY <1>1, <1>3, <1>10 DEF TickTyped, WindowExpires
<1>11. ASSUME NEW p \in Pipelines, Gather(p) PROVE TickTyped'
  BY <1>1, <1>3, <1>11, GatherMoves DEF TickTyped, Gather
<1>12. ASSUME NEW p \in Pipelines, GatherFails(p) PROVE TickTyped'
  BY <1>1, <1>3, <1>12, GatherFailsMoves DEF TickTyped, GatherFails
<1>13. ASSUME NEW p \in Pipelines, SweepSelect(p) PROVE TickTyped'
  BY <1>1, <1>3, <1>13, SweepSelectMoves DEF TickTyped, SweepSelect
<1> QED BY <1>4, <1>5, <1>6, <1>7, <1>8, <1>9, <1>10, <1>11, <1>12, <1>13 DEF Looks

LEMMA NextParts ==
  ASSUME Next
  PROVE  \/ \E j \in Jobs : Submit(j)
         \/ \E w \in Workers : Work(w)
         \/ \E j \in Jobs : SweepClaim(j)
         \/ TopUp
         \/ Looks
  BY DEF Next, Tick, Looks

LEMMA TopUpKeeps ==
  ASSUME TypeOK, CountInv, TurnInv, TopUp
  PROVE  /\ WorkTyped' /\ CountInv' /\ TickTyped'
         /\ LET x == JobOrder[tick.turn]  n == Claimable(x, Turn(x))
            IN  JobTo(x, job[x].phase, n, 0)
         /\ \A j \in Jobs : Settling(j)' = Settling(j) /\ FirstDue(j)' = FirstDue(j)
<1>1. tick.turn \in Needy(tick.deficit)
  BY DEF TopUp, TurnInv
<1>2. PICK x, n, c : x = JobOrder[tick.turn] /\ n = Claimable(x, Turn(x)) /\ c = Turn(x)
  OBVIOUS
<1>3. /\ x \in Jobs /\ hand' = hand /\ c \in Nat /\ Publish(x, n) /\ tick' \in Ticks /\ pushed' \in [Jobs -> Nat]
  BY <1>1, <1>2, TopUpMoves
<1>4. Publish(x, Claimable(x, c))
  BY <1>2, <1>3
<1>5. /\ WorkTyped' /\ CountInv' /\ JobTo(x, job[x].phase, Claimable(x, c), 0)
      /\ \A j \in Jobs : Settling(j)' = Settling(j) /\ FirstDue(j)' = FirstDue(j)
  BY <1>3, <1>4, TickPublishKeeps
<1>6. TickTyped'
  BY <1>3, Typed DEF TickTyped, TopUp
<1> QED BY <1>2, <1>5, <1>6

LEMMA SweepClaimTyped ==
  ASSUME TypeOK, NEW x \in Jobs, SweepClaim(x)
  PROVE  TickTyped'
  BY SweepMoves, Typed DEF TickTyped, SweepClaim

LEMMA WorkKeeps ==
  ASSUME TypeOK, CountInv, NEW w \in Workers, Work(w)
  PROVE  WorkTyped' /\ CountInv'
<1>1. CASE Take(w)
  BY <1>1, TakeKeeps
<1>2. CASE DispatchMark(w)
  BY <1>2, DispatchMarkKeeps
<1>3. CASE FirstWindow(w)
  BY <1>3, FirstWindowKeeps
<1>4. CASE RowEnds(w)
  BY <1>4, RowEndsKeeps
<1>5. CASE Settle(w)
  BY <1>5, SettleKeeps
<1>6. CASE SettleLost(w)
  BY <1>6, SettleLostKeeps
<1>7. CASE FinalizeRuns(w)
  BY <1>7, FinalizeRunsKeeps
<1> QED BY <1>1, <1>2, <1>3, <1>4, <1>5, <1>6, <1>7 DEF Work

LEMMA CountsKept ==
  ASSUME TypeOK, CountInv, TurnInv, Next
  PROVE  TypeOK' /\ CountInv'
<1>1. ASSUME NEW j \in Jobs, Submit(j) PROVE TypeOK' /\ CountInv'
  BY <1>1, SubmitKeeps, WorkLeaves, TypedNext
<1>2. ASSUME NEW w \in Workers, Work(w) PROVE TypeOK' /\ CountInv'
  BY <1>2, WorkKeeps, WorkLeaves, TypedNext
<1>3. ASSUME NEW j \in Jobs, SweepClaim(j) PROVE TypeOK' /\ CountInv'
  BY <1>3, SweepClaimKeeps, SweepClaimTyped, TypedNext
<1>4. CASE TopUp
  BY <1>4, TopUpKeeps, TypedNext
<1>5. CASE Looks
  BY <1>5, LooksOnly, QuietKeeps, LooksTyped, TypedNext
<1> QED BY <1>1, <1>2, <1>3, <1>4, <1>5, NextParts

(* Rows once dispatched stay dispatched.                                   *)
LEMMA RowsOnlyGrow ==
  ASSUME TypeOK, CountInv, (\E j \in Jobs : Submit(j)) \/ \E w \in Workers : Work(w)
  PROVE  \A j \in Jobs : job'[j].dispatched >= job[j].dispatched
<1>1. ASSUME NEW x \in Jobs, NEW p, NEW d \in Nat, NEW e, JobTo(x, p, d, e)
      PROVE  \A j \in Jobs : job'[j].dispatched >= job[j].dispatched
  BY <1>1, CountsNat DEF JobTo
<1>2. ASSUME NEW x \in Jobs, NEW p \in Phases, job' = [job EXCEPT ![x].phase = p]
      PROVE  \A j \in Jobs : job'[j].dispatched >= job[j].dispatched
  <2>1. JobTo(x, p, 0, 0)
    BY <1>2, PhaseChanges
  <2> QED BY <1>1, <2>1
<1>3. ASSUME NEW x \in Jobs, NEW limit \in Nat, Publish(x, Claimable(x, limit))
      PROVE  \A j \in Jobs : job'[j].dispatched >= job[j].dispatched
  <2>1. PICK n : n = Claimable(x, limit)
    OBVIOUS
  <2>2. n \in Nat /\ job' = [job EXCEPT ![x].dispatched = @ + n]
    BY <1>3, <2>1, ClaimableBounds DEF Publish
  <2>3. JobTo(x, job[x].phase, n, 0)
    BY <2>2, RowsClaimed
  <2> QED BY <1>1, <2>2, <2>3
<1>4. job' = job => \A j \in Jobs : job'[j].dispatched >= job[j].dispatched
  BY CountsNat
<1>5. ASSUME NEW x \in Jobs, Submit(x) PROVE \A j \in Jobs : job'[j].dispatched >= job[j].dispatched
  BY <1>2, <1>5 DEF Submit, Phases
<1>6. ASSUME NEW w \in Workers, Work(w) PROVE \A j \in Jobs : job'[j].dispatched >= job[j].dispatched
  <2>1. PICK x : x = hand[w].job
    OBVIOUS
  <2>2. hand[w].step \in Steps => x \in Jobs
    <3>1. PICK st : st = hand[w].step
      OBVIOUS
    <3>2. st \in Steps => st # "free"
      BY DEF Steps
    <3> QED BY <2>1, <3>1, <3>2, InHand
  <2>3. CASE Take(w) \/ SettleLost(w)
    BY <1>4, <2>3 DEF Take, SettleLost
  <2>4. CASE DispatchMark(w)
    BY <1>2, <2>1, <2>2, <2>4 DEF DispatchMark, Steps, Phases
  <2>5. CASE FirstWindow(w)
    <3>1. ReadJobWindow \in Nat /\ Publish(x, Claimable(x, ReadJobWindow)) /\ x \in Jobs
      BY <2>1, <2>2, <2>5, ReadJobWindowNat DEF FirstWindow, Steps
    <3> QED BY <1>3, <3>1
  <2>6. CASE RowEnds(w)
    <3>1. x \in Jobs /\ job' = [job EXCEPT ![x].processed = @ + 1]
      BY <2>1, <2>2, <2>6 DEF RowEnds, Steps
    <3>2. JobTo(x, job[x].phase, 0, 1)
      BY <3>1, RowCounted
    <3> QED BY <1>1, <3>1, <3>2
  <2>7. CASE Settle(w)
    <3>1. x \in Jobs /\ Chunk \in Nat
      BY <2>1, <2>2, <2>7, ShareAssumption DEF Settle, Steps
    <3>2. CASE AllProcessed(x)
      <4>1. job' = [job EXCEPT ![x].phase = "claimed"] /\ "claimed" \in Phases
        BY <2>1, <2>7, <3>2 DEF Settle, Finalize, Phases
      <4> QED BY <1>2, <3>1, <4>1
    <3>3. CASE ~AllProcessed(x)
      <4>1. Publish(x, Claimable(x, Chunk))
        BY <2>1, <2>7, <3>3 DEF Settle
      <4> QED BY <1>3, <3>1, <4>1
    <3> QED BY <3>2, <3>3
  <2>8. CASE FinalizeRuns(w)
    <3>1. x \in Jobs /\ job' = [job EXCEPT ![x].phase = "completed"] /\ "completed" \in Phases
      BY <2>1, <2>2, <2>8 DEF FinalizeRuns, Steps, Phases
    <3> QED BY <1>2, <3>1
  <2> QED BY <1>6, <2>3, <2>4, <2>5, <2>6, <2>7, <2>8 DEF Work
<1> QED BY <1>5, <1>6

LEMMA SweepClaimGrows ==
  ASSUME TypeOK, NEW x \in Jobs, SweepClaim(x)
  PROVE  \A j \in Jobs : job'[j].dispatched = job[j].dispatched /\ job'[j].processed = job[j].processed
                         /\ (Begun(j) => Begun(j)')
<1>1. CASE AllProcessed(x)
  <2>1. job' = [job EXCEPT ![x].phase = "claimed"] /\ "claimed" \in Phases
    BY <1>1 DEF SweepClaim, Finalize, Phases
  <2>2. JobTo(x, "claimed", 0, 0)
    BY <2>1, PhaseChanges
  <2> QED BY <2>2, CountsNat DEF JobTo, Begun
<1>2. CASE ~AllProcessed(x)
  BY <1>2 DEF SweepClaim, Begun
<1> QED BY <1>1, <1>2

(* A step of the tick that leaves the turns alone, or ends them.           *)
LEMMA LooksTurns ==
  ASSUME TypeOK, TypeOK', TurnInv, RotationIsFair, Looks
  PROVE  TurnInv' /\ RotationIsFair'
<1>1. job' = job /\ \A j \in Jobs : job'[j].dispatched >= job[j].dispatched
  BY LooksOnly, CountsNat
<1>2. CASE TickStart
  <2>1. pushed' = pushed /\ tick.step # "topup" /\ tick'.step # "topup" /\ \A j \in Jobs : tick'.deficit[j] = 0
    BY <1>2, TickStartMoves DEF TickStart
  <2> QED BY <2>1 DEF TurnInv, RotationIsFair
<1>3. CASE WriteJobWindow
  <2>1. /\ pushed' = pushed /\ tick.step # "topup" /\ tick'.step # "topup"
        /\ tick'.deficit = tick.deficit
    BY <1>3, WriteJobWindowMoves DEF WriteJobWindow, TickSame
  <2> QED BY <2>1 DEF TurnInv, RotationIsFair
<1>4. CASE SweepBreaks
  <2>1. pushed' = pushed /\ TickSame({"step", "deficit", "turn"})
    BY <1>4, SweepMoves DEF SweepBreaks, TickSame
  <2> QED BY <1>1, <2>1, TurnsStand
<1>5. CASE StartTopUp
  <2>1. pushed' = pushed /\ tick.step = "sweep"
    BY <1>5 DEF StartTopUp
  <2>2. \A j \in Jobs : pushed'[j] = 0
    BY <2>1 DEF TurnInv
  <2>3. CASE Over
    BY <2>2, <2>3 DEF Over, TurnInv, RotationIsFair
  <2>4. CASE tick'.step = "topup" /\ tick'.turn \in Needy(tick'.deficit)
    <3>1. \A k \in Needy(tick'.deficit) : pushed'[JobOrder[k]] = 0
      BY <2>2, Places DEF Needy
    <3>2. TurnInv'
      BY <2>4, <3>1 DEF TurnInv
    <3>3. RotationIsFair'
      BY <2>2, ShareAssumption DEF RotationIsFair
    <3> QED BY <3>2, <3>3
  <2> QED BY <1>5, <2>3, <2>4, StartTopUpMoves
<1>6. CASE TopUpBreaks
  <2>1. Over /\ \A j \in Jobs : pushed'[j] = 0
    BY <1>6, TicksOver DEF TopUpBreaks
  <2> QED BY <2>1 DEF Over, TurnInv, RotationIsFair
<1>7. CASE LockExpires \/ WindowExpires
  <2>1. pushed' = pushed /\ TickSame({"step", "deficit", "turn"})
    BY <1>7 DEF LockExpires, WindowExpires, TickSame
  <2> QED BY <1>1, <2>1, TurnsStand
<1>8. ASSUME NEW p \in Pipelines, Gather(p) \/ GatherFails(p) \/ SweepSelect(p) PROVE TurnInv' /\ RotationIsFair'
  <2>1. pushed' = pushed /\ TickSame({"step", "deficit", "turn"})
    BY <1>8, GatherMoves, GatherFailsMoves, SweepSelectMoves DEF Gather, GatherFails, SweepSelect, TickSame
  <2> QED BY <1>1, <2>1, TurnsStand
<1> QED BY <1>2, <1>3, <1>4, <1>5, <1>6, <1>7, <1>8 DEF Looks

LEMMA TurnsKept ==
  ASSUME TypeOK, TypeOK', CountInv, TurnInv, RotationIsFair, Next
  PROVE  TurnInv' /\ RotationIsFair'
<1>1. CASE (\E j \in Jobs : Submit(j)) \/ \E w \in Workers : Work(w)
  <2>1. pushed' = pushed /\ TickSame({"step", "deficit", "turn"})
    BY <1>1, WorkLeaves DEF TickSame
  <2> QED BY <1>1, <2>1, RowsOnlyGrow, TurnsStand
<1>2. ASSUME NEW x \in Jobs, SweepClaim(x) PROVE TurnInv' /\ RotationIsFair'
  <2>1. pushed' = pushed /\ TickSame({"step", "deficit", "turn"})
    BY <1>2, SweepMoves DEF SweepClaim, TickSame
  <2>2. \A j \in Jobs : job'[j].dispatched >= job[j].dispatched
    BY <1>2, SweepClaimGrows, CountsNat
  <2> QED BY <2>1, <2>2, TurnsStand
<1>3. CASE TopUp
  BY <1>3, TopUpTurns
<1>4. CASE Looks
  BY <1>4, LooksTurns
<1> QED BY <1>1, <1>2, <1>3, <1>4, NextParts

TurnsInv == TypeOK /\ CountInv /\ TurnInv /\ RotationIsFair

LEMMA Beginning ==
  Init => TurnsInv
<1> SUFFICES ASSUME Init PROVE TurnsInv
  OBVIOUS
<1>1. PICK t, f : t = NoTick /\ f = Free
  OBVIOUS
<1>2. /\ t \in Ticks /\ t.step = "off"
      /\ \A j \in Jobs : t.deficit[j] = 0
  BY <1>1, NoTickFields
<1>3. /\ job \in [Jobs -> Records] /\ \A j \in Jobs : job[j] = [phase |-> "new", dispatched |-> 0, processed |-> 0]
  BY DEF Init, Records, Phases
<1>4. \A j \in Jobs : Total[j] \in Nat
  BY ShareAssumption
<1>5. WorkTyped
  <2>1. hand \in [Workers -> [step : Steps, job : Jobs] \cup {Free}]
    BY DEF Init
  <2>2. queue \in Seq(Messages)
    BY DEF Init
  <2> QED BY <1>3, <1>4, <2>1, <2>2 DEF WorkTyped
<1>6. TickTyped
  <2>1. tick = t /\ pushed = [j \in Jobs |-> 0] /\ window = NoWindow /\ locked = FALSE /\ rotation = 0 /\ faults = 0
    BY <1>1 DEF Init
  <2>2. pushed \in [Jobs -> Nat]
    BY <2>1
  <2>3. rotation \in 0 .. Rotations - 1 /\ faults \in 0 .. MaxFaults
    BY <2>1, ShareAssumption
  <2> QED BY <1>2, <2>1, <2>2, <2>3 DEF TickTyped
<1>7. TypeOK
  BY <1>5, <1>6, Typed
<1>8. \A m : Queued(m) = 0
  <2>1. \A m : Copies(queue, m) = {}
    BY DEF Init, Copies
  <2> QED BY <2>1, FS_EmptySet DEF Queued, Count
<1>9. \A st, j : st # "free" => At(st, j) = 0
  <2> SUFFICES ASSUME NEW st, NEW j, st # "free" PROVE At(st, j) = 0
    OBVIOUS
  <2>1. \A w \in Workers : hand[w] = f
    BY <1>1 DEF Init
  <2>2. f # [step |-> st, job |-> j]
    BY <1>1 DEF Free
  <2>3. Holders(hand, [step |-> st, job |-> j]) = {}
    BY <2>1, <2>2 DEF Holders
  <2> QED BY <2>3, FS_EmptySet DEF At, Held
<1>10. CountInv
  BY <1>3, <1>8, <1>9 DEF CountInv, JobInv, Begun, Outstanding, Dispatches, RowCopies, Finalizes, Settling, FirstDue
<1>11. tick = t /\ \A j \in Jobs : pushed[j] = 0
  BY <1>1 DEF Init
<1>12. TurnInv /\ RotationIsFair
  BY <1>2, <1>11 DEF TurnInv, RotationIsFair
<1> QED BY <1>7, <1>10, <1>12 DEF TurnsInv

LEMMA TurnsStep ==
  ASSUME TurnsInv, [Next]_vars
  PROVE  TurnsInv'
<1>1. CASE Next
  BY <1>1, CountsKept, TurnsKept DEF TurnsInv
<1>2. CASE UNCHANGED vars
  <2>1. /\ job' = job /\ queue' = queue /\ hand' = hand /\ window' = window /\ locked' = locked
        /\ rotation' = rotation /\ tick' = tick /\ pushed' = pushed /\ faults' = faults
    BY <1>2 DEF vars
  <2>2. TickTyped' /\ WorkTyped' /\ CountInv'
    BY <2>1, Typed, QuietKeeps DEF TickTyped, TurnsInv
  <2>3. TypeOK'
    BY <2>2, TypedNext
  <2>4. TurnInv' /\ RotationIsFair'
    BY <2>1 DEF TurnsInv, TurnInv, RotationIsFair, Remaining
  <2> QED BY <2>2, <2>3, <2>4 DEF TurnsInv
<1> QED BY <1>1, <1>2

LEMMA TurnsAlways ==
  Spec => []TurnsInv
<1>1. TurnsInv /\ [Next]_vars => TurnsInv'
  BY TurnsStep
<1> QED BY Beginning, <1>1, PTL DEF Spec

(* Every variable keeps its type; above all, no job ever dispatches more   *)
(* rows than it has, nor counts a row that was not dispatched, however the *)
(* refills, the first window and the ticks interleave.                     *)
THEOREM TypeCorrect == Spec => []TypeOK
<1>1. TurnsInv => TypeOK
  BY DEF TurnsInv
<1> QED BY TurnsAlways, <1>1, PTL

(* While a tick tops the jobs up, no needy job with rows left is more than *)
(* a chunk behind any other, for every number of jobs, deficits and        *)
(* chunk, whatever the workers refill and end in between.                  *)
THEOREM RotationIsFairHolds == Spec => []RotationIsFair
<1>1. TurnsInv => RotationIsFair
  BY DEF TurnsInv
<1> QED BY TurnsAlways, <1>1, PTL

-----------------------------------------------------------------------------
(* The flood invariant is kept, step by step.                              *)

(* A job that starts has its first window before it, and nothing else.     *)
LEMMA DispatchMarkFloods ==
  ASSUME TypeOK, TypeOK', CountInv, FloodInv, NEW w \in Workers, DispatchMark(w)
  PROVE  FloodInv'
<1>1. PICK x : x = hand[w].job
  OBVIOUS
<1>2. /\ x \in Jobs /\ Dispatches(x) > 0
      /\ \A j \in Jobs : /\ Dispatches(j)' = Dispatches(j) - (IF j = x THEN 1 ELSE 0)
                         /\ FirstDue(j)' = FirstDue(j) + (IF j = x THEN 1 ELSE 0)
                         /\ RowCopies(j)' = RowCopies(j) /\ Finalizes(j)' = Finalizes(j)
                         /\ Settling(j)' = Settling(j)
  BY <1>1, DispatchMarkCounts
<1>3. JobTo(x, "processing", 0, 0)
  <2>1. job' = [job EXCEPT ![x].phase = "processing"] /\ "processing" \in Phases
    BY <1>1 DEF DispatchMark, Phases
  <2> QED BY <1>2, <2>1, PhaseChanges
<1>4. ~Begun(x)
  BY <1>2, CountsNat DEF CountInv, JobInv
<1>5. tick' = tick /\ window' = window /\ MaxShare' = MaxShare /\ W' = W
  BY DEF DispatchMark, MaxShare, W, Greater
<1>6. ASSUME NEW j \in Jobs
      PROVE  /\ Load(j)' <= 2 * MaxShare + W - 1
             /\ tick.seen[j].remaining > 0 => /\ tick.step # "topup" /\ Begun(j)'
                                              /\ Load(j)' <= tick.seen[j].outstanding + MaxShare + W - 1
             /\ tick.deficit[j] > 0 => Begun(j)' /\ Load(j)' + tick.deficit[j] <= 2 * MaxShare + W - 1
  <2>1. /\ Load(j) <= 2 * MaxShare + W - 1
        /\ tick.seen[j].remaining > 0 => /\ tick.step # "topup" /\ Begun(j)
                                         /\ Load(j) <= tick.seen[j].outstanding + MaxShare + W - 1
        /\ tick.deficit[j] > 0 => Begun(j) /\ Load(j) + tick.deficit[j] <= 2 * MaxShare + W - 1
    BY DEF FloodInv
  <2>2. CASE j = x
    <3>1. Settling(x) = 0 /\ RowCopies(x) = Outstanding(x) /\ RowCopies(x) = 0
      BY <1>2, <1>4 DEF CountInv, JobInv
    <3>2. Outstanding(x)' = Outstanding(x)
      BY <1>2, <1>3, CountsNat DEF JobTo, Outstanding
    <3>3. Settling(x)' = 0 /\ Outstanding(x)' = 0 /\ FirstDue(x)' > 0
      <4>1. Settling(x)' = Settling(x) /\ FirstDue(x)' = FirstDue(x) + 1
        BY <1>2
      <4>2. FirstDue(x) \in Nat /\ Outstanding(x) = 0
        BY <1>2, <3>1, CountsNat
      <4> QED BY <3>1, <3>2, <4>1, <4>2
    <3>4. Load(x)' = MaxShare
      BY <1>5, <3>3, Sizes DEF Load
    <3> QED BY <1>4, <2>1, <2>2, <3>4, Sizes
  <2>3. CASE j # x
    <3>1. /\ job'[j] = job[j] /\ Settling(j)' = Settling(j) /\ FirstDue(j)' = FirstDue(j)
      BY <1>2, <1>3, <2>3, CountsNat DEF JobTo
    <3>2. Load(j)' = Load(j) /\ (Begun(j) => Begun(j)')
      BY <1>5, <3>1 DEF Load, Outstanding, Begun
    <3> QED BY <2>1, <3>2
  <2> QED BY <2>2, <2>3
<1>7. tick.share <= MaxShare /\ window <= MaxShare
  BY DEF FloodInv
<1> QED BY <1>5, <1>6, <1>7 DEF FloodInv

LEMMA WorkFloods ==
  ASSUME TypeOK, TypeOK', CountInv, Chunk = 1, FloodInv, (\E j \in Jobs : Submit(j)) \/ \E w \in Workers : Work(w)
  PROVE  FloodInv'
<1>1. window' = window /\ TickSame({"step", "seen", "share", "deficit"})
  BY WorkLeaves DEF TickSame
<1>2. ASSUME NEW x \in Jobs, Submit(x) PROVE FloodInv'
  <2>1. JobTo(x, "queued", 0, 0) /\ job[x].phase = "new"
    BY <1>2, PhaseChanges DEF Submit, Phases
  <2>2. \A j \in Jobs : Settling(j)' = Settling(j) /\ FirstDue(j)' = FirstDue(j)
    BY <1>2, SubmitCounts
  <2>3. \A j \in Jobs : Load(j)' <= Load(j) /\ (Begun(j) => Begun(j)')
    <3> TAKE j \in Jobs
    <3>1. job'[j].dispatched = job[j].dispatched /\ job'[j].processed = job[j].processed
      BY <2>1, CountsNat DEF JobTo
    <3>2. Settling(j)' \in Nat /\ Settling(j)' <= Settling(j) /\ FirstDue(j)' = FirstDue(j)
      BY <2>2, CountsNat
    <3>3. Begun(j) => Begun(j)'
      BY <2>1 DEF JobTo, Begun
    <3> QED BY <3>1, <3>2, <3>3, LoadSame
  <2> QED BY <1>1, <2>3, FloodStands
<1>3. ASSUME NEW w \in Workers, Work(w) PROVE FloodInv'
  <2>1. CASE DispatchMark(w)
    BY <2>1, DispatchMarkFloods
  <2>2. CASE ~DispatchMark(w)
    <3>1. CASE Take(w)
      <4>1. job' = job /\ \A j \in Jobs : Settling(j)' = Settling(j) /\ FirstDue(j)' = FirstDue(j)
        BY <3>1, TakeCounts DEF Take, SameCounts
      <4> QED BY <1>1, <4>1, QuietLoad, FloodStands
    <3>2. CASE FirstWindow(w) \/ (Settle(w) /\ ~AllProcessed(hand[w].job))
      BY <1>1, <3>2, RefillLoad, FloodStands
    <3>3. CASE SettleLost(w) \/ (Settle(w) /\ AllProcessed(hand[w].job))
      BY <1>1, <3>3, SettleLoad, FloodStands
    <3>4. CASE RowEnds(w)
      BY <1>1, <3>4, RowEndsLoad, FloodStands
    <3>5. CASE FinalizeRuns(w)
      BY <1>1, <3>5, FinalizeRunsLoad, FloodStands
    <3> QED BY <1>3, <2>2, <3>1, <3>2, <3>3, <3>4, <3>5 DEF Work
  <2> QED BY <2>1, <2>2
<1> QED BY <1>2, <1>3

LEMMA SweepClaimFloods ==
  ASSUME TypeOK, TypeOK', CountInv, FloodInv, NEW x \in Jobs, SweepClaim(x)
  PROVE  FloodInv'
<1>1. window' = window /\ TickSame({"step", "seen", "share", "deficit"}) /\ hand' = hand
  BY SweepMoves DEF TickSame, SweepClaim
<1>2. \A j \in Jobs : Settling(j)' = Settling(j) /\ FirstDue(j)' = FirstDue(j)
  BY <1>1 DEF Settling, FirstDue, At
<1>3. \A j \in Jobs : Load(j)' <= Load(j) /\ (Begun(j) => Begun(j)')
  <2> TAKE j \in Jobs
  <2>1. Settling(j)' \in Nat /\ Settling(j)' <= Settling(j) /\ FirstDue(j)' = FirstDue(j)
    BY <1>2, CountsNat
  <2> QED BY <2>1, SweepClaimGrows, LoadSame
<1> QED BY <1>1, <1>3, FloodStands

(* The tick takes what it publishes off the deficit.                       *)
LEMMA TopUpFloods ==
  ASSUME TypeOK, TypeOK', CountInv, TurnInv, FloodInv, TopUp
  PROVE  FloodInv'
<1>1. tick.step = "topup" /\ tick.turn \in Needy(tick.deficit)
  BY DEF TopUp, TurnInv
<1>2. PICK x, n, c : x = JobOrder[tick.turn] /\ n = Claimable(x, Turn(x)) /\ c = Turn(x)
  OBVIOUS
<1>3. /\ x \in Jobs /\ tick.deficit[x] > 0
      /\ c \in Nat /\ c = Lesser(Chunk, tick.deficit[x]) /\ n \in Nat /\ n = Claimable(x, c)
      /\ \/ Over /\ \A j \in Jobs : pushed'[j] = 0
         \/ /\ TickSame({"share", "seen"}) /\ tick'.step = "topup"
            /\ \A j \in Jobs : /\ tick'.deficit[j] = IF j = x THEN Left(tick.deficit[x], n) ELSE tick.deficit[j]
                               /\ pushed'[j] = IF j = x THEN pushed[x] + n ELSE pushed[j]
  BY <1>1, <1>2, TopUpMoves
<1>4. /\ JobTo(x, job[x].phase, n, 0)
      /\ \A j \in Jobs : Settling(j)' = Settling(j) /\ FirstDue(j)' = FirstDue(j)
  BY <1>2, TopUpKeeps
<1>5. window' = window /\ MaxShare' = MaxShare /\ W' = W
  BY DEF TopUp, MaxShare, W, Greater
<1>6. \A j \in Jobs : tick.deficit[j] \in Nat
  BY Typed DEF TickTyped, Ticks
<1>7. n <= tick.deficit[x]
  <2>1. tick.deficit[x] \in Nat /\ Chunk \in Nat
    BY <1>3, <1>6, ShareAssumption
  <2>2. c <= tick.deficit[x]
    BY <1>3, <2>1 DEF Lesser
  <2>3. n <= c
    BY <1>3, ClaimableBounds
  <2> QED BY <1>3, <2>1, <2>2, <2>3
<1>8. ASSUME NEW j \in Jobs
      PROVE  /\ Load(j)' = Load(j) + (IF j = x THEN n ELSE 0) /\ Load(j) \in Nat
             /\ Begun(j) => Begun(j)'
             /\ Load(j) <= 2 * MaxShare + W - 1
             /\ tick.seen[j].remaining <= 0
             /\ tick.deficit[j] > 0 => Begun(j) /\ Load(j) + tick.deficit[j] <= 2 * MaxShare + W - 1
  <2>1. /\ Load(j) <= 2 * MaxShare + W - 1
        /\ ~(tick.seen[j].remaining > 0)
        /\ tick.deficit[j] > 0 => Begun(j) /\ Load(j) + tick.deficit[j] <= 2 * MaxShare + W - 1
    BY <1>1 DEF FloodInv
  <2>2. tick.seen[j].remaining <= 0
    <3>1. tick.seen[j].remaining \in Nat
      BY Typed DEF TickTyped, Ticks, Sights
    <3> QED BY <2>1, <3>1
  <2>3. Outstanding(j)' = Outstanding(j) + (IF j = x THEN n ELSE 0) /\ (Begun(j) => Begun(j)')
    <3>1. CASE j = x
      <4>1. job'[x].dispatched = job[x].dispatched + n /\ job'[x].processed = job[x].processed /\ job'[x].phase = job[x].phase
        BY <1>3, <1>4, CountsNat DEF JobTo
      <4> QED BY <1>3, <3>1, <4>1, CountsNat DEF Outstanding, Begun
    <3>2. CASE j # x
      <4>1. job'[j] = job[j]
        BY <1>4, <3>2 DEF JobTo
      <4> QED BY <3>2, <4>1, CountsNat DEF Outstanding, Begun
    <3> QED BY <3>1, <3>2
  <2>4. Settling(j) \in Nat /\ FirstDue(j) \in Nat /\ Outstanding(j) \in Nat /\ Load(j) \in Nat
    BY CountsNat, LoadNat
  <2>5. Load(j)' = Load(j) + (IF j = x THEN n ELSE 0)
    BY <1>3, <1>4, <1>5, <2>3, <2>4, Sizes DEF Load
  <2> QED BY <2>1, <2>2, <2>3, <2>4, <2>5
<1>9. \A j \in Jobs : Load(j)' <= 2 * MaxShare + W - 1
  BY <1>3, <1>6, <1>7, <1>8, Sizes
<1>10. CASE Over
  <2>1. tick'.share = 0 /\ \A j \in Jobs : tick'.seen[j].remaining = 0 /\ tick'.deficit[j] = 0
    BY <1>10 DEF Over, Unseen
  <2>2. window <= MaxShare
    BY DEF FloodInv
  <2> QED BY <1>5, <1>9, <2>1, <2>2, Sizes DEF FloodInv
<1>11. CASE /\ TickSame({"share", "seen"})
            /\ \A j \in Jobs : tick'.deficit[j] = IF j = x THEN Left(tick.deficit[x], n) ELSE tick.deficit[j]
  <2>1. tick'.share = tick.share /\ tick'.seen = tick.seen
    BY <1>11 DEF TickSame
  <2>2. window <= MaxShare /\ tick.share <= MaxShare
    BY DEF FloodInv
  <2>3. ASSUME NEW j \in Jobs, tick'.deficit[j] > 0
        PROVE  Begun(j)' /\ Load(j)' + tick'.deficit[j] <= 2 * MaxShare + W - 1
    <3>1. CASE j = x
      <4>1. tick'.deficit[x] = tick.deficit[x] - n
        BY <1>3, <1>11, <2>3, <3>1 DEF Left
      <4> QED BY <1>3, <1>6, <1>7, <1>8, <3>1, <4>1, Sizes
    <3>2. CASE j # x
      <4>1. tick'.deficit[j] = tick.deficit[j]
        BY <1>11, <3>2
      <4>2. Load(j)' = Load(j) /\ Load(j) \in Nat
        BY <1>8, <3>2
      <4> QED BY <1>8, <2>3, <4>1, <4>2
    <3> QED BY <3>1, <3>2
  <2>4. \A j \in Jobs : ~(tick'.seen[j].remaining > 0)
    <3> TAKE j \in Jobs
    <3>1. tick.seen[j].remaining \in Nat
      BY Typed DEF TickTyped, Ticks, Sights
    <3> QED BY <1>8, <2>1, <3>1
  <2> QED BY <1>5, <1>9, <2>1, <2>2, <2>3, <2>4 DEF FloodInv
<1> QED BY <1>3, <1>10, <1>11

LEMMA LooksFloods ==
  ASSUME TypeOK, TypeOK', CountInv, TurnInv, FloodInv, Looks
  PROVE  FloodInv'
<1>1. job' = job /\ hand' = hand /\ MaxShare' = MaxShare /\ W' = W
  BY LooksOnly DEF MaxShare, W, Greater
<1>2. \A j \in Jobs : Load(j)' = Load(j) /\ Begun(j)' = Begun(j)
  BY <1>1 DEF Load, Outstanding, Settling, FirstDue, At, Begun
<1>3. \A j \in Jobs : Load(j) <= 2 * MaxShare + W - 1 /\ Load(j) \in Nat
  BY LoadNat DEF FloodInv
<1>4. tick.share <= MaxShare /\ window <= MaxShare
  BY DEF FloodInv
<1>5. ASSUME TickSame({"step", "seen", "share", "deficit"}), window' = window \/ window' = NoWindow
      PROVE  FloodInv'
  <2>1. \A j \in Jobs : Load(j)' <= Load(j) /\ (Begun(j) => Begun(j)')
    BY <1>2, <1>3
  <2> QED BY <1>5, <2>1, FloodStands
<1>6. ASSUME tick'.share = 0, window' = window, \A j \in Jobs : tick'.seen[j] = Unseen /\ tick'.deficit[j] = 0
      PROVE  FloodInv'
  <2>1. \A j \in Jobs : tick'.seen[j].remaining = 0 /\ tick'.deficit[j] = 0
    BY <1>6 DEF Unseen
  <2> QED BY <1>1, <1>2, <1>3, <1>4, <1>6, <2>1, Sizes DEF FloodInv
<1>7. CASE TickStart
  BY <1>6, <1>7, TickStartMoves DEF TickStart
<1>8. CASE TopUpBreaks
  BY <1>6, <1>8, TicksOver DEF TopUpBreaks, Over
<1>9. CASE SweepBreaks
  BY <1>5, <1>9, SweepMoves DEF SweepBreaks, TickSame
<1>10. CASE LockExpires \/ WindowExpires
  BY <1>5, <1>10 DEF LockExpires, WindowExpires, TickSame
<1>11. CASE WriteJobWindow
  <2>1. /\ window' <= MaxShare /\ tick'.share = window' /\ tick'.step = "sweep" /\ tick.step = "gather"
        /\ tick'.seen = tick.seen /\ tick'.deficit = tick.deficit
    BY <1>11, WriteJobWindowMoves DEF TickSame
  <2> QED BY <1>1, <1>2, <2>1 DEF FloodInv
<1>12. CASE StartTopUp
  <2>1. window' = window
    BY <1>12 DEF StartTopUp
  <2>2. CASE Over
    BY <1>6, <2>1, <2>2 DEF Over
  <2>3. CASE /\ tick'.step = "topup" /\ tick'.share = 0
             /\ \A j \in Jobs : tick'.seen[j] = Unseen /\ tick'.deficit[j] = Deficit(tick.seen[j], tick.share)
    <3>1. \A j \in Jobs : tick'.seen[j].remaining = 0
      BY <2>3 DEF Unseen
    <3>2. ASSUME NEW j \in Jobs, tick'.deficit[j] > 0
          PROVE  Begun(j)' /\ Load(j)' + tick'.deficit[j] <= 2 * MaxShare + W - 1
      <4>1. PICK st, share : st = tick.seen[j] /\ share = tick.share
        OBVIOUS
      <4>2. st \in Sights /\ share \in Nat
        BY <4>1, Typed DEF TickTyped, Ticks
      <4>3. tick'.deficit[j] = Deficit(st, share)
        BY <2>3, <4>1
      <4>4. st.remaining > 0 /\ st.outstanding + tick'.deficit[j] <= share /\ tick'.deficit[j] \in Nat
        BY <3>2, <4>2, <4>3, DeficitBounds
      <4>5. Begun(j) /\ Load(j) <= st.outstanding + MaxShare + W - 1 /\ st.outstanding \in Nat
        BY <4>1, <4>2, <4>4 DEF FloodInv, Sights
      <4> QED BY <1>2, <1>3, <1>4, <4>1, <4>2, <4>4, <4>5, Sizes
    <3> QED BY <1>1, <1>2, <1>3, <1>4, <2>1, <2>3, <3>1, <3>2, Sizes DEF FloodInv
  <2> QED BY <1>12, <2>2, <2>3, StartTopUpMoves
<1>13. ASSUME NEW p \in Pipelines, GatherFails(p) \/ SweepSelect(p) PROVE FloodInv'
  BY <1>5, <1>13, GatherFailsMoves, SweepSelectMoves DEF GatherFails, SweepSelect, TickSame
<1>14. ASSUME NEW p \in Pipelines, Gather(p) PROVE FloodInv'
  <2>1. window' = window /\ tick.step = "gather"
    BY <1>14 DEF Gather
  <2>2. /\ tick'.step = tick.step /\ tick'.share = tick.share /\ tick'.deficit = tick.deficit
        /\ \A j \in Jobs : tick'.seen[j] = tick.seen[j] \/ tick'.seen[j] = Snapshot(j)
    BY <1>14, GatherMoves DEF TickSame
  <2>3. ASSUME NEW j \in Jobs, tick'.seen[j].remaining > 0
        PROVE  /\ tick'.step # "topup" /\ Begun(j)'
               /\ Load(j)' <= tick'.seen[j].outstanding + MaxShare + W - 1
    <3>1. CASE tick'.seen[j] = tick.seen[j]
      BY <1>2, <2>1, <2>2, <2>3, <3>1 DEF FloodInv
    <3>2. CASE tick'.seen[j] = Snapshot(j)
      <4>1. job[j].phase = "processing" /\ tick'.seen[j].outstanding = Outstanding(j)
        BY <2>3, <3>2, SnapshotTyped DEF Outstanding
      <4>2. Load(j) < Outstanding(j) + MaxShare + W /\ Outstanding(j) \in Nat /\ Load(j) \in Nat
        BY LoadNat
      <4>3. Begun(j)
        BY <4>1 DEF Begun
      <4> QED BY <1>2, <2>1, <2>2, <4>1, <4>2, <4>3, Sizes
    <3> QED BY <2>2, <3>1, <3>2
  <2>4. \A j \in Jobs : tick.deficit[j] > 0 => Begun(j) /\ Load(j) + tick.deficit[j] <= 2 * MaxShare + W - 1
    BY DEF FloodInv
  <2> QED BY <1>1, <1>2, <1>3, <1>4, <2>1, <2>2, <2>3, <2>4 DEF FloodInv
<1> QED BY <1>7, <1>8, <1>9, <1>10, <1>11, <1>12, <1>13, <1>14 DEF Looks

LEMMA FloodKept ==
  ASSUME TurnsInv, TurnsInv', Chunk = 1, FloodInv, [Next]_vars
  PROVE  FloodInv'
<1>1. TypeOK /\ TypeOK' /\ CountInv /\ TurnInv
  BY DEF TurnsInv
<1>2. CASE (\E j \in Jobs : Submit(j)) \/ \E w \in Workers : Work(w)
  BY <1>1, <1>2, WorkFloods
<1>3. ASSUME NEW x \in Jobs, SweepClaim(x) PROVE FloodInv'
  BY <1>1, <1>3, SweepClaimFloods
<1>4. CASE TopUp
  BY <1>1, <1>4, TopUpFloods
<1>5. CASE Looks
  BY <1>1, <1>5, LooksFloods
<1>6. CASE UNCHANGED vars
  <2>1. job' = job /\ hand' = hand /\ tick' = tick /\ window' = window
    BY <1>6 DEF vars
  <2>2. \A j \in Jobs : Settling(j)' = Settling(j) /\ FirstDue(j)' = FirstDue(j)
    BY <2>1 DEF Settling, FirstDue, At
  <2>3. TickSame({"step", "seen", "share", "deficit"})
    BY <2>1 DEF TickSame
  <2> QED BY <1>1, <2>1, <2>2, <2>3, QuietLoad, FloodStands
<1> QED BY <1>2, <1>3, <1>4, <1>5, <1>6, NextParts

LEMMA FloodStarts ==
  ASSUME Init
  PROVE  FloodInv
<1>1. TypeOK /\ CountInv
  BY Beginning DEF TurnsInv
<1>2. PICK t : t = NoTick
  OBVIOUS
<1>3. tick = t /\ t.share = 0 /\ \A j \in Jobs : t.seen[j].remaining = 0 /\ t.deficit[j] = 0
  <2>1. t.share = 0 /\ \A j \in Jobs : t.seen[j] = Unseen /\ t.deficit[j] = 0
    BY <1>2, NoTickFields
  <2> QED BY <1>2, <2>1 DEF Init, Unseen
<1>4. \A j \in Jobs : Load(j) = 0
  <2> TAKE j \in Jobs
  <2>1. job[j].phase = "new" /\ job[j].dispatched = 0 /\ job[j].processed = 0
    BY DEF Init
  <2>2. Settling(j) = 0 /\ FirstDue(j) = 0
    BY <1>1, <2>1 DEF CountInv, JobInv, Begun
  <2> QED BY <2>1, <2>2, Sizes DEF Load, Outstanding
<1>5. window <= MaxShare
  BY Sizes DEF Init, NoWindow
<1> QED BY <1>3, <1>4, <1>5, Sizes DEF FloodInv

(* What stands in the queue for a job are its messages of the three kinds. *)
LEMMA StandingBound ==
  ASSUME TypeOK, NEW i \in Jobs
  PROVE  Standing(i) \in Nat /\ Standing(i) <= Dispatches(i) + RowCopies(i) + Finalizes(i)
<1>1. queue \in Seq(Messages)
  BY Typed DEF WorkTyped
<1>2. PICK a, b, c : a = Copies(queue, Msg("dispatch", i)) /\ b = Copies(queue, Msg("row", i))
                     /\ c = Copies(queue, Msg("finalize", i))
  OBVIOUS
<1>3. IsFiniteSet(a) /\ IsFiniteSet(b) /\ IsFiniteSet(c)
  BY <1>1, <1>2, CopiesFinite
<1>4. {k \in DOMAIN queue : queue[k].job = i} \subseteq a \cup (b \cup c)
  <2> SUFFICES ASSUME NEW k \in DOMAIN queue, queue[k].job = i
               PROVE  k \in a \cup (b \cup c)
    OBVIOUS
  <2>1. k \in 1 .. Len(queue) /\ queue[k] \in Messages
    BY <1>1
  <2>2. PICK m : m = queue[k]
    OBVIOUS
  <2>3. m \in Messages /\ m.job = i
    BY <2>1, <2>2
  <2>4. m = Msg("dispatch", i) \/ m = Msg("row", i) \/ m = Msg("finalize", i)
    BY <2>3 DEF Messages, Msg, Tasks
  <2> QED BY <1>2, <2>1, <2>2, <2>4 DEF Copies
<1>5. /\ IsFiniteSet(b \cup c) /\ Cardinality(b \cup c) <= Cardinality(b) + Cardinality(c)
      /\ Cardinality(b \cup c) \in Nat
  <2>1. IsFiniteSet(b \cup c) /\ Cardinality(b \cup c) = Cardinality(b) + Cardinality(c) - Cardinality(b \cap c)
        /\ IsFiniteSet(b \cap c)
    BY <1>3, FS_Union, FS_Subset
  <2>2. Cardinality(b) \in Nat /\ Cardinality(c) \in Nat /\ Cardinality(b \cap c) \in Nat /\ Cardinality(b \cup c) \in Nat
    BY <1>3, <2>1, FS_CardinalityType
  <2> QED BY <2>1, <2>2
<1>6. /\ IsFiniteSet(a \cup (b \cup c)) /\ Cardinality(a \cup (b \cup c)) \in Nat
      /\ Cardinality(a \cup (b \cup c)) <= Cardinality(a) + Cardinality(b \cup c)
  <2>1. IsFiniteSet(a \cup (b \cup c))
        /\ Cardinality(a \cup (b \cup c)) = Cardinality(a) + Cardinality(b \cup c) - Cardinality(a \cap (b \cup c))
        /\ IsFiniteSet(a \cap (b \cup c))
    BY <1>3, <1>5, FS_Union, FS_Subset
  <2>2. Cardinality(a) \in Nat /\ Cardinality(b \cup c) \in Nat /\ Cardinality(a \cap (b \cup c)) \in Nat
        /\ Cardinality(a \cup (b \cup c)) \in Nat
    BY <1>3, <1>5, <2>1, FS_CardinalityType
  <2> QED BY <2>1, <2>2
<1>7. /\ IsFiniteSet({k \in DOMAIN queue : queue[k].job = i})
      /\ Standing(i) <= Cardinality(a \cup (b \cup c)) /\ Standing(i) \in Nat
  <2>1. IsFiniteSet({k \in DOMAIN queue : queue[k].job = i})
        /\ Cardinality({k \in DOMAIN queue : queue[k].job = i}) <= Cardinality(a \cup (b \cup c))
    BY <1>4, <1>6, FS_Subset
  <2> QED BY <2>1, FS_CardinalityType DEF Standing
<1>8. /\ Cardinality(a) <= Dispatches(i) /\ Cardinality(b) <= RowCopies(i) /\ Cardinality(c) <= Finalizes(i)
      /\ Cardinality(a) \in Nat /\ Cardinality(b) \in Nat /\ Cardinality(c) \in Nat
  <2>1. Queued(Msg("dispatch", i)) = Cardinality(a) /\ Queued(Msg("row", i)) = Cardinality(b)
        /\ Queued(Msg("finalize", i)) = Cardinality(c)
    BY <1>2 DEF Queued, Count
  <2> QED BY <2>1, Numbers DEF Dispatches, RowCopies, Finalizes
<1> QED BY <1>5, <1>6, <1>7, <1>8, CountsNat

LEMMA NoFlood ==
  ASSUME TypeOK, CountInv, FloodInv
  PROVE  NobodyFloodsTheQueue
<1> SUFFICES ASSUME NEW i \in Jobs PROVE Standing(i) < 2 * MaxShare + W
  BY DEF NobodyFloodsTheQueue, W
<1>1. /\ Dispatches(i) \in Nat /\ RowCopies(i) \in Nat /\ Finalizes(i) \in Nat
      /\ Standing(i) \in Nat /\ Standing(i) <= Dispatches(i) + RowCopies(i) + Finalizes(i)
  BY CountsNat, StandingBound
<1>2. JobInv(i) /\ Load(i) <= 2 * MaxShare + W - 1
  BY DEF CountInv, FloodInv
<1>3. Outstanding(i) <= Load(i) /\ Load(i) \in Nat /\ Outstanding(i) \in Nat /\ RowCopies(i) = Outstanding(i)
  BY <1>2, LoadNat DEF JobInv
<1>4. job[i].phase \in Phases
  BY Typed DEF WorkTyped, Records
<1>5. CASE ~Begun(i)
  <2>1. RowCopies(i) = 0 /\ Finalizes(i) = 0 /\ Dispatches(i) <= 1
    BY <1>1, <1>2, <1>5 DEF JobInv, Begun
  <2> QED BY <1>1, <2>1, Sizes
<1>6. CASE job[i].phase = "processing"
  <2>1. Dispatches(i) = 0 /\ Finalizes(i) = 0
    BY <1>2, <1>6 DEF JobInv, Begun
  <2> QED BY <1>1, <1>2, <1>3, <2>1, Sizes
<1>7. CASE job[i].phase \in {"claimed", "completed"}
  <2>1. Dispatches(i) = 0 /\ Finalizes(i) <= 1 /\ job[i].processed = Total[i]
    BY <1>2, <1>7 DEF JobInv, Begun
  <2>2. Outstanding(i) = 0
    BY <2>1, CountsNat DEF Outstanding
  <2> QED BY <1>1, <1>3, <2>1, <2>2, Sizes
<1> QED BY <1>4, <1>5, <1>6, <1>7 DEF Phases, Begun

(* When every ended row publishes one other (a chunk of 1, the default),   *)
(* less than two shares and a message per worker stand in the queue for a  *)
(* job, whatever its size: nobody waits behind more than that.             *)
THEOREM NobodyFloodsTheQueueHolds ==
  ASSUME Chunk = 1
  PROVE  Spec => []NobodyFloodsTheQueue
<1>1. Init => FloodInv
  BY FloodStarts
<1>2. TurnsInv /\ TurnsInv' /\ FloodInv /\ [Next]_vars => FloodInv'
  BY FloodKept
<1>3. TurnsInv /\ FloodInv => NobodyFloodsTheQueue
  BY NoFlood DEF TurnsInv
<1> QED BY TurnsAlways, <1>1, <1>2, <1>3, PTL DEF Spec
=============================================================================
