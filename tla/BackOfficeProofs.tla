--------------------------- MODULE BackOfficeProofs ---------------------------
(***************************************************************************)
(* Proofs about the services of BackOffice.  They share no state, so the   *)
(* inductive invariant of each has the form service = "name" => ..., and a *)
(* step of another service leaves it (the lemmas ...Step).                 *)
(***************************************************************************)
EXTENDS BackOffice, TLAPS, FiniteSetTheorems

-----------------------------------------------------------------------------
(* The usage ledger.                                                       *)

Shown == {"stored", "pruned"}

\* The row m is visible, and every row up to m that became visible in the
\* order of its id is summed or among those held.
Covers(m, held, r, f, l) ==
  /\ m # 0 => r[m] \in Shown
  /\ \A c \in 1 .. MaxCalls : c <= m /\ r[c] \in Shown /\ c \notin l => c \in held \/ f[c] >= 1

\* The watermark, and every copy of it that a rollup or a prune works from,
\* covers what is below it, however old the copy is.
MarksCover ==
  /\ Covers(watermark, {}, row, folded, late)
  /\ Covers(horizon, {}, row, folded, late)
  /\ \A t \in Rollups :
       /\ Covers(rollup[t].from, {}, row, folded, late)
       /\ \A b \in rollup[t].rows : b > rollup[t].from /\ Covers(b, rollup[t].rows, row, folded, late)
  /\ \A c \in 1 .. MaxCalls : row[c] = "pruned" /\ c \notin late => folded[c] >= 1

\* Until two rollups overlap, the one that is open starts at the watermark,
\* and what is past it has never been summed.
InTurn ==
  ~overlapped =>
    /\ \A t \in Rollups : rollup[t].step # "idle" => rollup[t].from = watermark
    /\ \A t, u \in Rollups : rollup[t].step # "idle" /\ rollup[u].step # "idle" => t = u
    /\ horizon <= watermark
    /\ \A c \in 1 .. MaxCalls :
         /\ folded[c] <= 1
         /\ c > watermark => folded[c] = 0 /\ row[c] # "pruned"

LedgerInv ==
  service = "ledger" => Ledger!LedgerTypeOK /\ MarksCover /\ InTurn

\* LedgerTypeOK in a form the backends read at once.
RollupTypes == [step : {"idle", "read", "fold"}, from : 0 .. MaxCalls, rows : SUBSET (1 .. MaxCalls)]

LEMMA LedgerTypes ==
  ASSUME Ledger!LedgerTypeOK, MaxCalls \in Nat, MaxFailures \in Nat
  PROVE  /\ row \in [1 .. MaxCalls -> {"none", "open", "stored", "lost", "pruned"}]
         /\ watermark \in 0 .. MaxCalls /\ horizon \in 0 .. MaxCalls
         /\ folded \in [1 .. MaxCalls -> Nat]
         /\ rollup \in [Rollups -> RollupTypes]
         /\ \A t \in Rollups : rollup[t] \in RollupTypes
         /\ \A t \in Rollups : rollup[t].step = "idle" <=> ~Ledger!Open(t)
         /\ late \subseteq 1 .. MaxCalls /\ overlapped \in BOOLEAN
<1>1. /\ row \in [1 .. MaxCalls -> {"none", "open", "stored", "lost", "pruned"}]
      /\ watermark \in 0 .. MaxCalls /\ horizon \in 0 .. MaxCalls
      /\ folded \in [1 .. MaxCalls -> Nat]
      /\ rollup \in [Rollups -> RollupTypes]
      /\ late \subseteq 1 .. MaxCalls /\ overlapped \in BOOLEAN
  BY DEF Ledger!LedgerTypeOK, Ledger!Calls, RollupTypes
<1>2. \A t \in Rollups : rollup[t].step = "idle" <=> ~Ledger!Open(t)
  BY DEF Ledger!LedgerTypeOK, Ledger!Open, Ledger!Idle
<1> QED BY <1>1, <1>2

LEMMA LedgerStart == Init => LedgerInv
<1> SUFFICES ASSUME Init, service = "ledger"
             PROVE  Ledger!LedgerTypeOK /\ MarksCover /\ InTurn
  BY DEF LedgerInv
<1>1. Ledger!LedgerInit
  BY DEF Init
<1>2. MaxCalls \in Nat /\ MaxFailures \in Nat
  BY OfficeAssumption DEF OfficeAssumption, Ledger!LedgerAssumption
<1>3. Ledger!LedgerTypeOK
  <2> DEFINE idle == [step |-> "idle", from |-> 0, rows |-> {}]
  <2>1. rollup = [t \in Rollups |-> idle] /\ Ledger!Idle = idle
    BY <1>1 DEF Ledger!LedgerInit, Ledger!Idle
  <2>2. idle \in [step : {"idle", "read", "fold"}, from : 0 .. MaxCalls, rows : SUBSET (1 .. MaxCalls)]
    BY <1>2
  <2> HIDE DEF idle
  <2>3. /\ rollup \in [Rollups -> [step : {"idle", "read", "fold"}, from : 0 .. MaxCalls, rows : SUBSET (1 .. MaxCalls)]]
        /\ \A t \in Rollups : rollup[t] = Ledger!Idle
    BY <2>1, <2>2
  <2>4. /\ row \in [1 .. MaxCalls -> {"none", "open", "stored", "lost", "pruned"}]
        /\ folded \in [1 .. MaxCalls -> Nat]
        /\ watermark \in 0 .. MaxCalls /\ horizon \in 0 .. MaxCalls
        /\ late = {} /\ overlapped \in BOOLEAN /\ failures \in 0 .. MaxFailures
    <3>1. row = [c \in 1 .. MaxCalls |-> "none"] /\ folded = [c \in 1 .. MaxCalls |-> 0]
      BY <1>1 DEF Ledger!LedgerInit, Ledger!Calls
    <3>2. watermark = 0 /\ horizon = 0 /\ late = {} /\ overlapped = FALSE /\ failures = 0
      BY <1>1 DEF Ledger!LedgerInit
    <3>3. 0 \in 0 .. MaxCalls /\ 0 \in 0 .. MaxFailures
      BY <1>2
    <3> QED BY <3>1, <3>2, <3>3
  <2> QED BY <2>3, <2>4 DEF Ledger!LedgerTypeOK, Ledger!Calls, Ledger!Open
<1>4. \A t \in Rollups : rollup[t].step = "idle" /\ rollup[t].from = 0 /\ rollup[t].rows = {}
  BY <1>1 DEF Ledger!LedgerInit, Ledger!Idle
<1>5. MarksCover
  BY <1>1, <1>2, <1>4 DEF Ledger!LedgerInit, Ledger!Calls, MarksCover, Covers
<1>6. InTurn
  BY <1>1, <1>2, <1>4 DEF Ledger!LedgerInit, Ledger!Calls, InTurn
<1> QED BY <1>3, <1>5, <1>6

\* A step of another service, or none.
LEMMA LedgerRests ==
  ASSUME LedgerInv, [Next]_vars, ~OnlyLedger
  PROVE  LedgerInv'
<1> SUFFICES ASSUME service' = "ledger"
             PROVE  /\ service = "ledger"
                    /\ UNCHANGED ledgerVars
  BY DEF LedgerInv, ledgerVars, Ledger!LedgerTypeOK, Ledger!Open, Ledger!Idle, MarksCover, InTurn, Ledger!Calls
<1>1. CASE UNCHANGED vars
  BY <1>1 DEF vars
<1>2. CASE Next
  BY <1>2 DEF Next, OnlyDesk, OnlyRotation, OnlyLedger, OnlySingle
<1> QED BY <1>1, <1>2

\* The instance has a Cardinality of its own.
LEMMA LedgerCounts == \A S : Ledger!Cardinality(S) = Cardinality(S)
BY DEF Ledger!Cardinality, Cardinality

\* What is covered stays so while sums grow, visible rows stay visible, and a
\* row that becomes visible below another is late.
LEMMA CoversStays ==
  ASSUME NEW m \in 0 .. MaxCalls, NEW S, NEW r, NEW f, NEW l, NEW s, NEW g, NEW k, MaxCalls \in Nat,
         Covers(m, S, r, f, l), l \subseteq k,
         f \in [1 .. MaxCalls -> Nat], g \in [1 .. MaxCalls -> Nat],
         \A c \in 1 .. MaxCalls :
           /\ g[c] >= f[c]
           /\ r[c] \in Shown => s[c] \in Shown
           /\ s[c] \in Shown /\ r[c] \notin Shown =>
                \A d \in 1 .. MaxCalls : d >= c /\ r[d] \in Shown => c \in k
  PROVE  Covers(m, S, s, g, k)
<1>1. m # 0 => s[m] \in Shown
  BY DEF Covers
<1>2. ASSUME NEW c \in 1 .. MaxCalls, c <= m, s[c] \in Shown, c \notin k
      PROVE  c \in S \/ g[c] >= 1
  <2>1. r[c] \in Shown
    BY <1>2 DEF Covers
  <2>2. c \in S \/ f[c] >= 1
    BY <1>2, <2>1 DEF Covers
  <2>3. g[c] >= f[c] /\ g[c] \in Nat /\ f[c] \in Nat
    OBVIOUS
  <2> QED BY <2>2, <2>3
<1> QED BY <1>1, <1>2 DEF Covers

\* The marks after a step that moves none of the rollups.
LEMMA MarksStay ==
  ASSUME Ledger!LedgerTypeOK, MarksCover, MaxCalls \in Nat, MaxFailures \in Nat,
         UNCHANGED rollup, watermark' \in {watermark}, horizon' \in {0, horizon, watermark}, late \subseteq late',
         folded' \in [1 .. MaxCalls -> Nat],
         \A c \in 1 .. MaxCalls :
           /\ folded'[c] >= folded[c]
           /\ row[c] \in Shown => row'[c] \in Shown
           /\ row'[c] \in Shown /\ row[c] \notin Shown =>
                \A d \in 1 .. MaxCalls : d >= c /\ row[d] \in Shown => c \in late'
           /\ row'[c] = "pruned" /\ c \notin late' => folded'[c] >= 1
  PROVE  MarksCover'
<1>1. /\ watermark \in 0 .. MaxCalls /\ horizon \in 0 .. MaxCalls /\ folded \in [1 .. MaxCalls -> Nat]
      /\ \A t \in Rollups : rollup[t] \in RollupTypes
  BY LedgerTypes
<1>2. \A m \in 0 .. MaxCalls : \A S :
        Covers(m, S, row, folded, late) => Covers(m, S, row', folded', late')
  BY <1>1, CoversStays
<1>3. Covers(0, {}, row', folded', late')
  BY DEF Covers
<1>4. Covers(watermark', {}, row', folded', late') /\ Covers(horizon', {}, row', folded', late')
  BY <1>1, <1>2, <1>3 DEF MarksCover
<1>5. ASSUME NEW t \in Rollups
      PROVE  /\ Covers(rollup[t].from, {}, row', folded', late')
             /\ \A b \in rollup[t].rows : b > rollup[t].from /\ Covers(b, rollup[t].rows, row', folded', late')
  <2>1. rollup[t].from \in 0 .. MaxCalls /\ \A b \in rollup[t].rows : b \in 0 .. MaxCalls
    BY <1>1 DEF RollupTypes
  <2> QED BY <1>2, <2>1 DEF MarksCover
<1> QED BY <1>4, <1>5 DEF MarksCover

\* Rows a rollup would read: the lowest past where it starts.
LEMMA NextRowsRun ==
  ASSUME NEW from \in Nat, NEW b \in Ledger!NextRows(from), MaxCalls \in Nat
  PROVE  /\ b \in 1 .. MaxCalls /\ row[b] = "stored" /\ b > from
         /\ \A x \in 1 .. MaxCalls : x <= b /\ x > from /\ row[x] = "stored" => x \in Ledger!NextRows(from)
<1> USE DEF Ledger!Calls
<1> DEFINE Upto(y) == {z \in Ledger!New(from) : z <= y}
<1>1. Ledger!NextRows(from) = {y \in Ledger!New(from) : Cardinality(Upto(y)) <= RollupSize}
  BY LedgerCounts DEF Ledger!NextRows
<1>2. b \in Ledger!New(from) /\ Cardinality(Upto(b)) <= RollupSize
  <2> HIDE DEF Upto
  <2> QED BY <1>1
<1>3. b \in 1 .. MaxCalls /\ row[b] = "stored" /\ b > from
  BY <1>2 DEF Ledger!New
<1>4. ASSUME NEW x \in 1 .. MaxCalls, x <= b, x > from, row[x] = "stored"
      PROVE  x \in Ledger!NextRows(from)
  <2>1. x \in Ledger!New(from)
    BY <1>4 DEF Ledger!New
  <2>2. Upto(x) \subseteq Upto(b)
    BY <1>3, <1>4 DEF Ledger!New
  <2>3. IsFiniteSet(Upto(b))
    <3>1. IsFiniteSet(1 .. MaxCalls) /\ Upto(b) \subseteq 1 .. MaxCalls
      BY FS_Interval DEF Ledger!New
    <3> QED BY <3>1, FS_Subset
  <2>4. /\ Cardinality(Upto(x)) <= Cardinality(Upto(b))
        /\ Cardinality(Upto(x)) \in Nat /\ Cardinality(Upto(b)) \in Nat
    BY <2>2, <2>3, FS_Subset, FS_CardinalityType
  <2>5. Cardinality(Upto(x)) <= RollupSize
    BY <1>2, <2>4, OfficeAssumption DEF OfficeAssumption, Ledger!LedgerAssumption
  <2> HIDE DEF Upto
  <2> QED BY <1>1, <2>1, <2>5
<1> QED BY <1>3, <1>4

LEMMA LedgerTypedMoves ==
  ASSUME Ledger!LedgerTypeOK, Ledger!LedgerNext
  PROVE  Ledger!LedgerTypeOK'
<1> USE DEF Ledger!Calls
<1>1. MaxCalls \in Nat /\ MaxFailures \in Nat
  BY OfficeAssumption DEF OfficeAssumption, Ledger!LedgerAssumption
<1>2. /\ \A t \in Rollups : rollup[t].step = "idle" <=> ~Ledger!Open(t)
      /\ \A t \in Rollups : rollup[t].from \in 0 .. MaxCalls /\ rollup[t].rows \subseteq 1 .. MaxCalls
      /\ rollup \in [Rollups -> RollupTypes]
  BY <1>1, LedgerTypes DEF RollupTypes
<1>3. Ledger!Idle \in RollupTypes /\ Ledger!Idle.step = "idle"
  BY <1>1 DEF Ledger!Idle, RollupTypes
<1>4. ASSUME NEW c \in 1 .. MaxCalls, Ledger!Insert(c) PROVE Ledger!LedgerTypeOK'
  BY <1>4 DEF Ledger!LedgerTypeOK, Ledger!Insert, Ledger!Open
<1>5. ASSUME NEW c \in 1 .. MaxCalls, Ledger!Commit(c) PROVE Ledger!LedgerTypeOK'
  BY <1>5 DEF Ledger!LedgerTypeOK, Ledger!Commit, Ledger!Open
<1>6. ASSUME NEW c \in 1 .. MaxCalls, Ledger!WriteFails(c) PROVE Ledger!LedgerTypeOK'
  BY <1>1, <1>6 DEF Ledger!LedgerTypeOK, Ledger!WriteFails, Ledger!Failure, Ledger!Open
\* One rollup moves to a record that is Idle or not idle.
<1>7. ASSUME NEW t \in Rollups, NEW next \in RollupTypes, next = Ledger!Idle \/ next.step # "idle",
             rollup' = [rollup EXCEPT ![t] = next]
      PROVE  /\ rollup' \in [Rollups -> RollupTypes]
             /\ \A u \in Rollups : (rollup'[u] # Ledger!Idle) => rollup'[u].step # "idle"
  <2>1. \A u \in Rollups : rollup'[u] = IF u = t THEN next ELSE rollup[u]
    BY <1>2, <1>7
  <2> QED BY <1>2, <1>7, <2>1 DEF Ledger!Open
<1>8. ASSUME NEW t \in Rollups, Ledger!RollupStarts(t) PROVE Ledger!LedgerTypeOK'
  <2> DEFINE next == [step |-> "read", from |-> watermark, rows |-> {}]
  <2>1. next \in RollupTypes /\ next.step # "idle"
    BY DEF Ledger!LedgerTypeOK, RollupTypes
  <2>2. rollup' = [rollup EXCEPT ![t] = next]
    BY <1>8 DEF Ledger!RollupStarts
  <2> HIDE DEF next
  <2>3. rollup' \in [Rollups -> RollupTypes] /\ \A u \in Rollups : (rollup'[u] # Ledger!Idle) => rollup'[u].step # "idle"
    BY <1>7, <2>1, <2>2
  <2> QED BY <1>8, <2>3 DEF Ledger!LedgerTypeOK, Ledger!RollupStarts, Ledger!Open, RollupTypes
<1>9. ASSUME NEW t \in Rollups, Ledger!RollupReads(t) PROVE Ledger!LedgerTypeOK'
  <2> DEFINE rows == Ledger!NextRows(rollup[t].from)
             next == IF rows = {} THEN Ledger!Idle ELSE [step |-> "fold", from |-> rollup[t].from, rows |-> rows]
  <2>1. rows \subseteq 1 .. MaxCalls
    BY DEF Ledger!NextRows, Ledger!New
  <2>2. rollup' = [rollup EXCEPT ![t] = next]
    BY <1>9 DEF Ledger!RollupReads
  <2> HIDE DEF rows
  <2>3. next \in RollupTypes /\ (next = Ledger!Idle \/ next.step # "idle")
    BY <1>2, <1>3, <2>1 DEF RollupTypes
  <2> HIDE DEF next
  <2>4. rollup' \in [Rollups -> RollupTypes] /\ \A u \in Rollups : (rollup'[u] # Ledger!Idle) => rollup'[u].step # "idle"
    BY <1>7, <2>2, <2>3
  <2> QED BY <1>9, <2>4 DEF Ledger!LedgerTypeOK, Ledger!RollupReads, Ledger!Open, RollupTypes
<1>10. ASSUME NEW t \in Rollups, rollup' = [rollup EXCEPT ![t] = Ledger!Idle]
       PROVE  rollup' \in [Rollups -> RollupTypes] /\ \A u \in Rollups : (rollup'[u] # Ledger!Idle) => rollup'[u].step # "idle"
  BY <1>3, <1>7, <1>10
<1>11. ASSUME NEW t \in Rollups, Ledger!RollupCommits(t) PROVE Ledger!LedgerTypeOK'
  <2>1. PICK top \in rollup[t].rows : watermark' = top
    BY <1>11 DEF Ledger!RollupCommits
  <2>2. watermark' \in 0 .. MaxCalls
    BY <1>2, <2>1
  <2>3. folded' \in [1 .. MaxCalls -> Nat]
    <3>1. folded' = [c \in 1 .. MaxCalls |-> IF c \in rollup[t].rows THEN folded[c] + 1 ELSE folded[c]]
      BY <1>11 DEF Ledger!RollupCommits
    <3> QED BY <3>1 DEF Ledger!LedgerTypeOK
  <2>4. rollup' = [rollup EXCEPT ![t] = Ledger!Idle]
    BY <1>11 DEF Ledger!RollupCommits
  <2> QED BY <1>10, <1>11, <2>2, <2>3, <2>4
          DEF Ledger!LedgerTypeOK, Ledger!RollupCommits, Ledger!Open, RollupTypes
<1>12. ASSUME NEW t \in Rollups, Ledger!RollupFails(t) PROVE Ledger!LedgerTypeOK'
  <2>1. rollup' = [rollup EXCEPT ![t] = Ledger!Idle]
    BY <1>12 DEF Ledger!RollupFails
  <2>2. failures' \in 0 .. MaxFailures
    BY <1>1, <1>12 DEF Ledger!LedgerTypeOK, Ledger!RollupFails, Ledger!Failure
  <2>3. rollup' \in [Rollups -> RollupTypes] /\ \A u \in Rollups : (rollup'[u] # Ledger!Idle) => rollup'[u].step # "idle"
    BY <1>10, <2>1
  <2> QED BY <1>12, <2>2, <2>3 DEF Ledger!LedgerTypeOK, Ledger!RollupFails, Ledger!Open, RollupTypes
<1>13. ASSUME Ledger!PruneStarts PROVE Ledger!LedgerTypeOK'
  BY <1>13 DEF Ledger!LedgerTypeOK, Ledger!PruneStarts, Ledger!Open
<1>14. ASSUME Ledger!Prune PROVE Ledger!LedgerTypeOK'
  <2>1. PICK old \in SUBSET Ledger!Prunable :
          row' = [c \in 1 .. MaxCalls |-> IF c \in old THEN "pruned" ELSE row[c]]
    BY <1>14 DEF Ledger!Prune
  <2>2. row' \in [1 .. MaxCalls -> {"none", "open", "stored", "lost", "pruned"}]
    BY <2>1 DEF Ledger!LedgerTypeOK
  <2> QED BY <1>1, <1>14, <2>2 DEF Ledger!Prune, Ledger!LedgerTypeOK, Ledger!Open
<1> QED BY <1>4, <1>5, <1>6, <1>8, <1>9, <1>11, <1>12, <1>13, <1>14 DEF Ledger!LedgerNext

LEMMA LedgerMoves ==
  ASSUME LedgerInv, OnlyLedger, Ledger!LedgerNext
  PROVE  LedgerInv'
<1> USE DEF Ledger!Calls
<1>1. service = "ledger" /\ service' = "ledger"
  BY DEF OnlyLedger
<1>2. /\ Ledger!LedgerTypeOK /\ MarksCover /\ InTurn
      /\ MaxCalls \in Nat /\ MaxFailures \in Nat
  BY <1>1, OfficeAssumption DEF LedgerInv, OfficeAssumption, Ledger!LedgerAssumption
<1>3. /\ row \in [1 .. MaxCalls -> {"none", "open", "stored", "lost", "pruned"}]
      /\ watermark \in 0 .. MaxCalls /\ horizon \in 0 .. MaxCalls
      /\ folded \in [1 .. MaxCalls -> Nat]
      /\ rollup \in [Rollups -> RollupTypes]
      /\ \A t \in Rollups : rollup[t] \in RollupTypes
      /\ \A t \in Rollups : rollup[t].step = "idle" <=> ~Ledger!Open(t)
      /\ overlapped \in BOOLEAN
  BY <1>2, LedgerTypes
<1>4. Ledger!LedgerTypeOK'
  BY <1>2, LedgerTypedMoves
<1>5. SUFFICES MarksCover' /\ InTurn'
  BY <1>4 DEF LedgerInv
<1>6. \A m \in 0 .. MaxCalls : \A S : UNCHANGED <<row, folded, late>> =>
        (Covers(m, S, row', folded', late') <=> Covers(m, S, row, folded, late))
  OBVIOUS
<1>7. ASSUME NEW c \in 1 .. MaxCalls, Ledger!Insert(c) \/ Ledger!WriteFails(c) PROVE MarksCover' /\ InTurn'
  <2>1. /\ UNCHANGED <<watermark, folded, rollup, horizon, late, overlapped>>
        /\ \A d \in 1 .. MaxCalls : row'[d] # row[d] => row'[d] \in {"open", "lost"} /\ row[d] \notin Shown
    BY <1>3, <1>7 DEF Ledger!Insert, Ledger!WriteFails, Shown
  <2>2. \A d \in 1 .. MaxCalls : (row'[d] \in Shown <=> row[d] \in Shown) /\ (row'[d] = "pruned" <=> row[d] = "pruned")
    BY <2>1 DEF Shown
  <2>3. MarksCover'
    BY <1>2, <1>3, <2>1, <2>2, MarksStay DEF MarksCover
  <2>4. InTurn'
    BY <1>2, <2>1, <2>2 DEF InTurn
  <2> QED BY <2>3, <2>4
<1>8. ASSUME NEW c \in 1 .. MaxCalls, Ledger!Commit(c) PROVE MarksCover' /\ InTurn'
  <2>1. /\ row' = [row EXCEPT ![c] = "stored"] /\ row[c] = "open"
        /\ UNCHANGED <<watermark, folded, rollup, horizon, overlapped>>
        /\ late \subseteq late'
        /\ \A d \in 1 .. MaxCalls : d > c /\ row[d] \in Shown => c \in late'
    BY <1>8 DEF Ledger!Commit, Shown
  <2>2. \A d \in 1 .. MaxCalls : /\ d # c => row'[d] = row[d]
                                 /\ row'[c] = "stored"
    BY <1>3, <2>1
  <2>3. \A d \in 1 .. MaxCalls :
          /\ row[d] \in Shown => row'[d] \in Shown
          /\ row'[d] \in Shown /\ row[d] \notin Shown =>
               \A e \in 1 .. MaxCalls : e >= d /\ row[e] \in Shown => d \in late'
          /\ row'[d] = "pruned" /\ d \notin late' => row[d] = "pruned" /\ d \notin late
    BY <2>1, <2>2 DEF Shown
  <2>4. MarksCover'
    <3>1. \A d \in 1 .. MaxCalls : folded[d] \in Nat /\ folded'[d] = folded[d]
      BY <1>3, <2>1
    <3>2. \A d \in 1 .. MaxCalls : row'[d] = "pruned" /\ d \notin late' => folded'[d] >= 1
      BY <1>2, <2>1, <2>3 DEF MarksCover
    <3> QED BY <1>2, <1>3, <2>1, <2>3, <3>1, <3>2, MarksStay
  <2>5. InTurn'
    BY <1>2, <2>1, <2>2 DEF InTurn
  <2> QED BY <2>4, <2>5
<1>9. ASSUME NEW t \in Rollups, Ledger!RollupStarts(t) PROVE MarksCover' /\ InTurn'
  <2>1. /\ UNCHANGED <<row, watermark, folded, horizon, late>>
        /\ rollup[t].step = "idle"
        /\ \A u \in Rollups : rollup'[u] = IF u = t THEN [step |-> "read", from |-> watermark, rows |-> {}] ELSE rollup[u]
        /\ ~overlapped' => ~overlapped /\ \A u \in Rollups : rollup[u].step = "idle"
    BY <1>3, <1>9 DEF Ledger!RollupStarts
  <2>2. MarksCover'
    BY <1>2, <2>1 DEF MarksCover
  <2>3. InTurn'
    BY <1>2, <2>1 DEF InTurn
  <2> QED BY <2>2, <2>3
\* A rollup that ends, without or with an error.
<1>10. ASSUME NEW t \in Rollups, UNCHANGED <<row, watermark, folded, horizon, late, overlapped>>,
              rollup' = [rollup EXCEPT ![t] = Ledger!Idle]
       PROVE  MarksCover' /\ InTurn'
  <2>1. \A u \in Rollups : IF u = t THEN rollup'[u].step = "idle" /\ rollup'[u].from = 0 /\ rollup'[u].rows = {}
                                    ELSE rollup'[u] = rollup[u]
    BY <1>3, <1>10 DEF Ledger!Idle
  <2>2. Covers(0, {}, row, folded, late)
    BY DEF Covers
  <2>3. MarksCover'
    BY <1>2, <1>10, <2>1, <2>2 DEF MarksCover
  <2>4. InTurn'
    BY <1>2, <1>10, <2>1 DEF InTurn
  <2> QED BY <2>3, <2>4
<1>11. ASSUME NEW t \in Rollups, Ledger!RollupReads(t) PROVE MarksCover' /\ InTurn'
  <2>1. PICK from \in 0 .. MaxCalls : from = rollup[t].from
    BY <1>3 DEF RollupTypes
  <2>2. PICK rows : rows = Ledger!NextRows(from)
    OBVIOUS
  <2>3. CASE rows = {}
    BY <1>10, <1>11, <2>1, <2>2, <2>3 DEF Ledger!RollupReads
  <2>4. CASE rows # {}
    <3>1. /\ UNCHANGED <<row, watermark, folded, horizon, late, overlapped>>
          /\ rollup[t].step = "read"
          /\ rollup' = [rollup EXCEPT ![t] = [step |-> "fold", from |-> from, rows |-> rows]]
      BY <1>11, <2>1, <2>2, <2>4 DEF Ledger!RollupReads
    <3>2. \A u \in Rollups : rollup'[u] = IF u = t THEN [step |-> "fold", from |-> from, rows |-> rows] ELSE rollup[u]
      BY <1>3, <3>1
    <3>3. ASSUME NEW b \in rows PROVE b > from /\ Covers(b, rows, row, folded, late)
      <4>1. /\ b \in 1 .. MaxCalls /\ row[b] = "stored" /\ b > from
            /\ \A x \in 1 .. MaxCalls : x <= b /\ x > from /\ row[x] = "stored" => x \in rows
        BY <1>2, <2>2, NextRowsRun
      <4>2. Covers(from, {}, row, folded, late) /\ \A x \in 1 .. MaxCalls : row[x] = "pruned" /\ x \notin late => folded[x] >= 1
        BY <1>2, <2>1 DEF MarksCover
      <4> QED BY <4>1, <4>2 DEF Covers, Shown
    <3>4. MarksCover'
      BY <1>2, <2>1, <3>1, <3>2, <3>3 DEF MarksCover
    <3>5. InTurn'
      BY <1>2, <2>1, <3>1, <3>2 DEF InTurn
    <3> QED BY <3>4, <3>5
  <2> QED BY <2>3, <2>4
<1>12. ASSUME NEW t \in Rollups, Ledger!RollupFails(t) PROVE MarksCover' /\ InTurn'
  BY <1>10, <1>12 DEF Ledger!RollupFails
<1>13. ASSUME NEW t \in Rollups, Ledger!RollupCommits(t) PROVE MarksCover' /\ InTurn'
  <2>1. PICK top \in rollup[t].rows : (\A c \in rollup[t].rows : c <= top) /\ watermark' = top
    BY <1>13 DEF Ledger!RollupCommits
  <2>2. PICK rows : rows = rollup[t].rows
    OBVIOUS
  <2>3. rows \subseteq 1 .. MaxCalls /\ top \in rows /\ rollup[t].from \in 0 .. MaxCalls
    BY <1>3, <2>1, <2>2 DEF RollupTypes
  <2>4. /\ UNCHANGED <<row, horizon, late, overlapped>>
        /\ folded' \in [1 .. MaxCalls -> Nat]
        /\ \A c \in 1 .. MaxCalls : folded'[c] = IF c \in rows THEN folded[c] + 1 ELSE folded[c]
        /\ rollup[t].step = "fold"
        /\ \A u \in Rollups : IF u = t THEN rollup'[u].step = "idle" /\ rollup'[u].from = 0 /\ rollup'[u].rows = {}
                                       ELSE rollup'[u] = rollup[u]
    <3>1. folded' = [c \in 1 .. MaxCalls |-> IF c \in rows THEN folded[c] + 1 ELSE folded[c]]
      BY <1>13, <2>2 DEF Ledger!RollupCommits
    <3>2. folded' \in [1 .. MaxCalls -> Nat] /\ \A c \in 1 .. MaxCalls : folded'[c] = IF c \in rows THEN folded[c] + 1 ELSE folded[c]
      BY <1>3, <3>1
    <3>3. UNCHANGED <<row, horizon, late, overlapped>> /\ rollup[t].step = "fold" /\ rollup' = [rollup EXCEPT ![t] = Ledger!Idle]
      BY <1>13 DEF Ledger!RollupCommits
    <3>4. \A u \in Rollups : IF u = t THEN rollup'[u].step = "idle" /\ rollup'[u].from = 0 /\ rollup'[u].rows = {}
                                      ELSE rollup'[u] = rollup[u]
      BY <1>3, <3>3 DEF Ledger!Idle
    <3> QED BY <3>2, <3>3, <3>4
  <2>5. \A m \in 0 .. MaxCalls : \A S : Covers(m, S, row, folded, late) => Covers(m, S, row', folded', late')
    <3>1. \A c \in 1 .. MaxCalls : folded'[c] >= folded[c] /\ folded[c] \in Nat
      BY <1>3, <2>4
    <3>2. \A c \in 1 .. MaxCalls :
            /\ row[c] \in Shown => row'[c] \in Shown
            /\ row'[c] \in Shown /\ row[c] \notin Shown => \A d \in 1 .. MaxCalls : d >= c /\ row[d] \in Shown => c \in late'
      BY <2>4
    <3> QED BY <1>2, <1>3, <2>4, <3>1, <3>2, CoversStays
  <2>6. Covers(top, {}, row', folded', late')
    <3>1. Covers(top, rows, row, folded, late)
      BY <1>2, <2>1, <2>2 DEF MarksCover
    <3>2. \A c \in rows : folded'[c] >= 1
      BY <1>3, <2>3, <2>4
    <3>3. \A c \in 1 .. MaxCalls : folded[c] >= 1 => folded'[c] >= 1
      BY <1>3, <2>4
    <3> QED BY <2>3, <2>4, <3>1, <3>2, <3>3 DEF Covers
  <2>7. Covers(0, {}, row', folded', late')
    BY DEF Covers
  <2>8. Covers(horizon', {}, row', folded', late')
    BY <1>2, <1>3, <2>4, <2>5 DEF MarksCover
  <2>9. ASSUME NEW u \in Rollups
        PROVE  /\ Covers(rollup'[u].from, {}, row', folded', late')
               /\ \A b \in rollup'[u].rows : b > rollup'[u].from /\ Covers(b, rollup'[u].rows, row', folded', late')
    <3>1. CASE u = t
      BY <2>4, <2>7, <3>1
    <3>2. CASE u # t
      <4>1. rollup'[u] = rollup[u] /\ rollup[u].from \in 0 .. MaxCalls /\ \A b \in rollup[u].rows : b \in 0 .. MaxCalls
        BY <1>3, <2>4, <3>2 DEF RollupTypes
      <4>2. /\ Covers(rollup[u].from, {}, row, folded, late)
            /\ \A b \in rollup[u].rows : b > rollup[u].from /\ Covers(b, rollup[u].rows, row, folded, late)
        BY <1>2 DEF MarksCover
      <4> QED BY <2>5, <4>1, <4>2
    <3> QED BY <3>1, <3>2
  <2>10. \A c \in 1 .. MaxCalls : row'[c] = "pruned" /\ c \notin late' => folded'[c] >= 1
    <3>1. \A c \in 1 .. MaxCalls : folded[c] \in Nat /\ folded'[c] >= folded[c]
      BY <1>3, <2>4
    <3>2. \A c \in 1 .. MaxCalls : row[c] = "pruned" /\ c \notin late => folded[c] >= 1
      BY <1>2 DEF MarksCover
    <3> QED BY <2>4, <3>1, <3>2
  <2>11. MarksCover'
    BY <2>1, <2>6, <2>8, <2>9, <2>10 DEF MarksCover
  <2>12. InTurn'
    <3> SUFFICES ASSUME ~overlapped
                 PROVE  /\ \A u \in Rollups : rollup'[u].step = "idle"
                        /\ horizon <= top
                        /\ \A c \in 1 .. MaxCalls :
                             /\ folded'[c] <= 1
                             /\ c > top => folded'[c] = 0 /\ row[c] # "pruned"
      BY <2>1, <2>4 DEF InTurn
    <3>1. \A b \in rows : b > watermark
      BY <1>2, <2>2, <2>4 DEF InTurn, MarksCover
    <3>2. \A u \in Rollups : rollup'[u].step = "idle"
      BY <1>2, <2>4 DEF InTurn
    <3>3. horizon <= top /\ top > watermark /\ top \in Nat
      BY <1>2, <1>3, <2>3, <3>1 DEF InTurn
    <3>4. ASSUME NEW c \in 1 .. MaxCalls
          PROVE  /\ folded'[c] <= 1
                 /\ c > top => folded'[c] = 0 /\ row[c] # "pruned"
      <4>1. c > top => c > watermark /\ c \notin rows
        BY <1>3, <2>1, <2>2, <2>3, <3>3
      <4>2. folded[c] <= 1 /\ (c > watermark => folded[c] = 0 /\ row[c] # "pruned")
        BY <1>2 DEF InTurn
      <4> QED BY <1>3, <2>4, <3>1, <4>1, <4>2
    <3> QED BY <3>2, <3>3, <3>4
  <2> QED BY <2>11, <2>12
<1>14. ASSUME Ledger!PruneStarts PROVE MarksCover' /\ InTurn'
  BY <1>2, <1>3, <1>14 DEF Ledger!PruneStarts, MarksCover, InTurn
<1>15. ASSUME Ledger!Prune PROVE MarksCover' /\ InTurn'
  <2>1. PICK old \in SUBSET Ledger!Prunable :
          row' = [c \in 1 .. MaxCalls |-> IF c \in old THEN "pruned" ELSE row[c]]
    BY <1>15 DEF Ledger!Prune
  <2>2. \A c \in old : row[c] = "stored" /\ c <= horizon
    BY <2>1 DEF Ledger!Prunable
  <2>3. /\ UNCHANGED <<watermark, folded, rollup, late, overlapped>> /\ horizon' = 0
        /\ \A c \in 1 .. MaxCalls : row'[c] = IF c \in old THEN "pruned" ELSE row[c]
    BY <1>15, <2>1 DEF Ledger!Prune
  <2>4. \A c \in 1 .. MaxCalls :
          /\ row'[c] \in Shown <=> row[c] \in Shown
          /\ row'[c] = "pruned" /\ c \notin late' => folded[c] >= 1
    BY <1>2, <2>2, <2>3 DEF MarksCover, Covers, Shown
  <2>5. MarksCover'
    BY <1>2, <1>3, <2>3, <2>4, MarksStay
  <2>6. InTurn'
    BY <1>2, <1>3, <2>2, <2>3 DEF InTurn
  <2> QED BY <2>5, <2>6
<1> QED BY <1>7, <1>8, <1>9, <1>11, <1>12, <1>13, <1>14, <1>15 DEF Ledger!LedgerNext

LEMMA LedgerStep ==
  ASSUME LedgerInv, [Next]_vars
  PROVE  LedgerInv'
<1>1. CASE OnlyLedger /\ ~UNCHANGED vars
  <2>1. Ledger!LedgerNext
    BY <1>1 DEF Next, OnlyDesk, OnlyRotation, OnlyLedger, OnlySingle
  <2> QED BY <1>1, <2>1, LedgerMoves
<1>2. CASE UNCHANGED vars
  BY <1>2 DEF vars, ledgerVars, LedgerInv, Ledger!LedgerTypeOK, Ledger!Open, Ledger!Idle, MarksCover, InTurn, Ledger!Calls
<1> QED BY <1>1, <1>2, LedgerRests

\* The invariant says more than is promised.
LEMMA LedgerSays == LedgerInv => LedgerIsExact
<1> SUFFICES ASSUME LedgerInv, service = "ledger" PROVE Ledger!LedgerIsExact
  BY DEF LedgerIsExact
<1>1. Ledger!LedgerTypeOK /\ MarksCover /\ InTurn /\ MaxCalls \in Nat /\ MaxFailures \in Nat
  BY OfficeAssumption DEF LedgerInv, OfficeAssumption, Ledger!LedgerAssumption
<1>2. folded \in [1 .. MaxCalls -> Nat] /\ watermark \in 0 .. MaxCalls
  BY <1>1, LedgerTypes
<1>3. ASSUME NEW c \in 1 .. MaxCalls, c \notin late
      PROVE  /\ (row[c] = "stored" /\ c <= watermark) \/ row[c] = "pruned" => folded[c] >= 1
             /\ ~overlapped =>
                  /\ row[c] = "stored" => folded[c] = IF c <= watermark THEN 1 ELSE 0
                  /\ row[c] = "pruned" => folded[c] = 1
  <2>1. (row[c] = "stored" /\ c <= watermark) \/ row[c] = "pruned" => folded[c] >= 1
    BY <1>1, <1>3 DEF MarksCover, Covers, Shown
  <2>2. ~overlapped => folded[c] <= 1 /\ (c > watermark => folded[c] = 0)
    BY <1>1 DEF InTurn
  <2>3. folded[c] \in Nat
    BY <1>2
  <2> QED BY <1>2, <2>1, <2>2, <2>3
<1> QED BY <1>3 DEF Ledger!LedgerIsExact, Ledger!Calls

(* No usage row is pruned before it was summed, and none up to the         *)
(* watermark is left out but one whose commit a call with a higher id      *)
(* overtook, in whatever order the calls commit, any number of rollups     *)
(* read, fold, fail and overlap (usage_rollup_task takes no lock), and     *)
(* rows are pruned by an old reading of the watermark.  Until two rollups  *)
(* have been open at once, each is summed exactly once.                    *)
THEOREM LedgerIsExactHolds == Spec => []LedgerIsExact
BY LedgerStart, LedgerStep, LedgerSays, PTL DEF Spec

-----------------------------------------------------------------------------
(* The rotation of provider keys.                                          *)

\* The age of a row tells how long its key has been held back, and is no less
\* than the time since that key was last refused.
AgesAgree ==
  \A s \in 1 .. Slots :
    /\ dark[s] <= IF Rotation!Cooling(s) THEN slot[s].age ELSE 0
    /\ slot[s].key # 0 => refused[s][slot[s].key] <= slot[s].age

RotationInv ==
  service = "rotation" => Rotation!RotationTypeOK /\ AgesAgree

\* RotationTypeOK in parts.
Offers == [slot : 1 .. Slots, key : 1 .. ProviderKeys]
CallSteps == {"idle", "trying", "marking", "answer", "error", "exhausted"}
CallTypeOK ==
  /\ call \in [Callers -> [step : CallSteps, todo : SUBSET Offers]]
  /\ \A c \in Callers : call[c].step \in {"trying", "marking"} => call[c].todo # {}
SlotTypeOK == slot \in [1 .. Slots -> [key : 1 .. ProviderKeys \cup {0}, age : 0 .. Cooldown]]
PoolTypeOK ==
  /\ config \in [1 .. Slots -> 1 .. ProviderKeys]
  /\ table \in BOOLEAN
  /\ refused \in [1 .. Slots -> [1 .. ProviderKeys -> 0 .. Cooldown]]
  /\ dark \in [1 .. Slots -> Nat]

LEMMA RotationParts == Rotation!RotationTypeOK <=> CallTypeOK /\ SlotTypeOK /\ PoolTypeOK
BY DEF Rotation!RotationTypeOK, CallTypeOK, SlotTypeOK, PoolTypeOK, CallSteps, Offers,
       Rotation!Slot, Rotation!Key

LEMMA RotationPartsNext == Rotation!RotationTypeOK' <=> CallTypeOK' /\ SlotTypeOK' /\ PoolTypeOK'
BY DEF Rotation!RotationTypeOK, CallTypeOK, SlotTypeOK, PoolTypeOK, CallSteps, Offers,
       Rotation!Slot, Rotation!Key

LEMMA CallChanges ==
  ASSUME CallTypeOK, NEW c \in Callers, NEW step \in CallSteps, NEW todo \in SUBSET Offers,
         step \in {"trying", "marking"} => todo # {},
         call' = [call EXCEPT ![c] = [step |-> step, todo |-> todo]]
  PROVE  CallTypeOK'
<1>1. PICK new : new = [step |-> step, todo |-> todo]
  OBVIOUS
<1>2. new \in [step : CallSteps, todo : SUBSET Offers] /\ new.step = step /\ new.todo = todo
  BY <1>1
<1>3. call' = [call EXCEPT ![c] = new]
  BY <1>1
<1> QED BY <1>2, <1>3 DEF CallTypeOK

RotationAgain == CallTypeOK' /\ SlotTypeOK' /\ PoolTypeOK' /\ AgesAgree'

LEMMA RotationStart == Init => RotationInv
<1> SUFFICES ASSUME Init, service = "rotation"
             PROVE  Rotation!RotationTypeOK /\ AgesAgree
  BY DEF RotationInv
<1>1. Rotation!RotationInit
  BY DEF Init
<1>2. Slots \in Nat \ {0} /\ Cooldown \in Nat \ {0} /\ ProviderKeys \in Nat \ {0}
      /\ TableAtStart \in SUBSET BOOLEAN
  BY OfficeAssumption DEF OfficeAssumption, Rotation!RotationAssumption
<1> USE DEF Rotation!Slot, Rotation!Key
<1>3. Rotation!RotationTypeOK
  BY <1>1, <1>2 DEF Rotation!RotationInit, Rotation!RotationTypeOK, Rotation!NoRow, Rotation!NoCall
<1>4. AgesAgree
  BY <1>1, <1>2 DEF Rotation!RotationInit, AgesAgree, Rotation!NoRow, Rotation!Cooling
<1> QED BY <1>3, <1>4

LEMMA RotationMoves ==
  ASSUME RotationInv, OnlyRotation, Rotation!RotationNext
  PROVE  RotationInv'
<1> USE DEF Rotation!Slot, Rotation!Key
<1>1. /\ CallTypeOK /\ SlotTypeOK /\ PoolTypeOK /\ AgesAgree
      /\ Slots \in Nat \ {0} /\ Cooldown \in Nat \ {0} /\ ProviderKeys \in Nat \ {0}
  BY OfficeAssumption, RotationParts
     DEF OfficeAssumption, Rotation!RotationAssumption, OnlyRotation, RotationInv
<1>2. SUFFICES RotationAgain
  BY RotationPartsNext DEF RotationInv, RotationAgain
<1>3. ASSUME NEW c \in Callers, Rotation!Select(c)
      PROVE  RotationAgain
  <2>1. Rotation!Candidates \subseteq Offers
    <3> SUFFICES ASSUME NEW s \in 1 .. Slots
                 PROVE  [slot |-> s, key |-> config[s]] \in Offers
      BY <1>1 DEF Rotation!Candidates
    <3> QED BY <1>1 DEF PoolTypeOK, Offers
  <2>2. PICK step : step = IF Rotation!Candidates = {} THEN "exhausted" ELSE "trying"
    OBVIOUS
  <2>3. call' = [call EXCEPT ![c] = [step |-> step, todo |-> Rotation!Candidates]]
    BY <1>3, <2>2 DEF Rotation!Select, Rotation!CallOf
  <2>4. step \in CallSteps /\ (step \in {"trying", "marking"} => Rotation!Candidates # {})
    BY <2>2 DEF CallSteps
  <2>5. CallTypeOK'
    BY <1>1, <2>1, <2>3, <2>4, CallChanges
  <2>6. SlotTypeOK' /\ PoolTypeOK' /\ AgesAgree'
    BY <1>1, <1>3 DEF Rotation!Select, SlotTypeOK, PoolTypeOK, AgesAgree, Rotation!Cooling
  <2> QED BY <2>5, <2>6 DEF RotationAgain
<1>4. ASSUME NEW c \in Callers, Rotation!Try(c)
      PROVE  RotationAgain
  <2>1. PICK outcome \in {"answer", "error", "marking"} : call' = [call EXCEPT ![c].step = outcome]
    BY <1>4 DEF Rotation!Try
  <2>2. PICK t : t = call[c]
    OBVIOUS
  <2>3. t \in [step : CallSteps, todo : SUBSET Offers] /\ t.todo # {}
    BY <1>1, <1>4, <2>2 DEF CallTypeOK, Rotation!Try
  <2>4. [t EXCEPT !.step = outcome] = [step |-> outcome, todo |-> t.todo]
    BY <2>3
  <2>5. call' = [call EXCEPT ![c] = [step |-> outcome, todo |-> t.todo]]
    BY <2>1, <2>2, <2>4
  <2>6. CallTypeOK'
    <3>1. outcome \in CallSteps /\ t.todo \in SUBSET Offers
      BY <2>1, <2>3 DEF CallSteps
    <3> QED BY <1>1, <2>3, <2>5, <3>1, CallChanges
  <2>7. SlotTypeOK' /\ PoolTypeOK' /\ AgesAgree'
    BY <1>1, <1>4 DEF Rotation!Try, SlotTypeOK, PoolTypeOK, AgesAgree, Rotation!Cooling
  <2> QED BY <2>6, <2>7 DEF RotationAgain
<1>5. ASSUME NEW c \in Callers, Rotation!Return(c)
      PROVE  RotationAgain
  <2>1. call' = [call EXCEPT ![c] = [step |-> "idle", todo |-> {}]]
    BY <1>5 DEF Rotation!Return, Rotation!NoCall
  <2>2. "idle" \in CallSteps /\ {} \in SUBSET Offers
    BY DEF CallSteps
  <2>3. CallTypeOK'
    BY <1>1, <2>1, <2>2, CallChanges
  <2>4. SlotTypeOK' /\ PoolTypeOK' /\ AgesAgree'
    BY <1>1, <1>5 DEF Rotation!Return, SlotTypeOK, PoolTypeOK, AgesAgree, Rotation!Cooling
  <2> QED BY <2>3, <2>4 DEF RotationAgain
<1>6. ASSUME NEW c \in Callers, Rotation!Mark(c)
      PROVE  RotationAgain
  <2>1. PICK k \in call[c].todo :
          /\ slot' = IF table THEN [slot EXCEPT ![k.slot] = Rotation!MarkedRow(k.slot, k.key)] ELSE slot
          /\ call' = [call EXCEPT ![c] = Rotation!CallOf(call[c].todo \ {k})]
          /\ refused' = [refused EXCEPT ![k.slot][k.key] = 0]
    BY <1>6 DEF Rotation!Mark
  <2>2. /\ UNCHANGED <<config, table>>
        /\ dark' = [s \in 1 .. Slots |-> IF Rotation!Cooling(s)' THEN dark[s] + 0 ELSE 0]
    BY <1>6 DEF Rotation!Mark, Rotation!KeepDark
  <2>3. call[c].todo \subseteq Offers
    BY <1>1 DEF CallTypeOK
  <2>4. PICK m, n : m = k.slot /\ n = k.key
    OBVIOUS
  <2>5. m \in 1 .. Slots /\ n \in 1 .. ProviderKeys
    BY <2>1, <2>3, <2>4 DEF Offers
  <2>6. PICK r : r = Rotation!MarkedRow(m, n)
    OBVIOUS
  <2>7. /\ r \in [key : 1 .. ProviderKeys \cup {0}, age : 0 .. Cooldown]
        /\ r.key = n
        /\ r.age = IF slot[m].key # n \/ slot[m].age >= Cooldown THEN 0 ELSE slot[m].age
    <3>1. slot[m].age \in 0 .. Cooldown
      BY <1>1, <2>5 DEF SlotTypeOK
    <3> QED BY <1>1, <2>5, <2>6, <3>1 DEF Rotation!MarkedRow
  <2>8. slot' = IF table THEN [slot EXCEPT ![m] = r] ELSE slot
    BY <2>1, <2>4, <2>6
  <2>9. /\ refused' \in [1 .. Slots -> [1 .. ProviderKeys -> 0 .. Cooldown]]
        /\ refused'[m][n] = 0
        /\ \A s \in 1 .. Slots : \A j \in 1 .. ProviderKeys : refused'[s][j] \in {0, refused[s][j]}
    <3>1. PICK f : f = [refused[m] EXCEPT ![n] = 0]
      OBVIOUS
    <3>2. f \in [1 .. ProviderKeys -> 0 .. Cooldown] /\ f[n] = 0 /\ \A j \in 1 .. ProviderKeys : f[j] \in {0, refused[m][j]}
      <4>1. refused[m] \in [1 .. ProviderKeys -> 0 .. Cooldown] /\ 0 \in 0 .. Cooldown
        BY <1>1, <2>5, SMTT(30) DEF PoolTypeOK
      <4> QED BY <2>5, <3>1, <4>1
    <3>3. refused' = [refused EXCEPT ![m] = f]
      BY <2>1, <2>4, <3>1
    <3> QED BY <1>1, <2>5, <3>2, <3>3 DEF PoolTypeOK
  <2>10. SlotTypeOK'
    BY <1>1, <2>5, <2>7, <2>8 DEF SlotTypeOK
  <2>11. PoolTypeOK'
    <3>1. \A s \in 1 .. Slots : dark[s] \in Nat
      BY <1>1 DEF PoolTypeOK
    <3>2. \A s \in 1 .. Slots : dark[s] + 0 \in Nat
      BY <3>1
    <3>3. dark' \in [1 .. Slots -> Nat]
      BY <2>2, <3>2
    <3> QED BY <1>1, <2>2, <2>9, <3>3 DEF PoolTypeOK
  <2>12. CallTypeOK'
    <3>1. PICK rest : rest = call[c].todo \ {k}
      OBVIOUS
    <3>2. PICK step : step = IF rest = {} THEN "exhausted" ELSE "trying"
      OBVIOUS
    <3>3. call' = [call EXCEPT ![c] = [step |-> step, todo |-> rest]]
      BY <2>1, <3>1, <3>2 DEF Rotation!CallOf
    <3>4. step \in CallSteps /\ rest \in SUBSET Offers /\ (step \in {"trying", "marking"} => rest # {})
      BY <2>3, <3>1, <3>2 DEF CallSteps
    <3> QED BY <1>1, <3>3, <3>4, CallChanges
  <2>13. AgesAgree'
    <3> SUFFICES ASSUME NEW s \in 1 .. Slots
                 PROVE  /\ dark'[s] <= IF Rotation!Cooling(s)' THEN slot'[s].age ELSE 0
                        /\ slot'[s].key # 0 => refused'[s][slot'[s].key] <= slot'[s].age
      BY DEF AgesAgree
    <3>1. /\ dark[s] <= IF slot[s].key = config[s] /\ slot[s].age < Cooldown THEN slot[s].age ELSE 0
          /\ slot[s].key # 0 => refused[s][slot[s].key] <= slot[s].age
          /\ slot[s].key \in 1 .. ProviderKeys \cup {0} /\ slot[s].age \in 0 .. Cooldown /\ dark[s] \in Nat
      BY <1>1 DEF AgesAgree, Rotation!Cooling, SlotTypeOK, PoolTypeOK
    <3>2. dark'[s] = IF slot'[s].key = config[s] /\ slot'[s].age < Cooldown THEN dark[s] ELSE 0
      BY <2>2, <3>1 DEF Rotation!Cooling
    <3>3. CASE s = m /\ table
      <4>1. /\ slot'[s].key = n
            /\ slot'[s].age = IF slot[s].key # n \/ slot[s].age >= Cooldown THEN 0 ELSE slot[s].age
        BY <1>1, <2>7, <2>8, <3>3 DEF SlotTypeOK
      <4>2. dark'[s] <= IF Rotation!Cooling(s)' THEN slot'[s].age ELSE 0
        BY <1>1, <2>2, <3>1, <3>2, <4>1 DEF Rotation!Cooling
      <4>3. refused'[s][slot'[s].key] <= slot'[s].age
        BY <1>1, <2>9, <3>1, <3>3, <4>1, SMTT(30)
      <4> QED BY <4>2, <4>3
    <3>4. CASE ~(s = m /\ table)
      <4>1. slot'[s] = slot[s]
        BY <1>1, <2>8, <3>4 DEF SlotTypeOK
      <4>2. dark'[s] <= IF Rotation!Cooling(s)' THEN slot'[s].age ELSE 0
        BY <1>1, <2>2, <3>1, <3>2, <4>1 DEF Rotation!Cooling
      <4>3. ASSUME slot[s].key # 0
            PROVE  refused'[s][slot[s].key] <= slot[s].age
        <5>1. PICK j \in 1 .. ProviderKeys : j = slot[s].key
          BY <3>1, <4>3
        <5>2. refused'[s][j] \in {0, refused[s][j]} /\ refused[s][j] <= slot[s].age
          BY <2>9, <3>1, <5>1
        <5> QED BY <3>1, <5>1, <5>2
      <4> QED BY <4>1, <4>2, <4>3
    <3> QED BY <3>3, <3>4
  <2> QED BY <2>10, <2>11, <2>12, <2>13 DEF RotationAgain
<1>7. ASSUME Rotation!Tick
      PROVE  RotationAgain
  <2>1. \A age \in 0 .. Cooldown : Rotation!Older(age) \in 0 .. Cooldown
    BY <1>1 DEF Rotation!Older
  <2>2. \A s \in 1 .. Slots : slot'[s] = [slot[s] EXCEPT !.age = Rotation!Older(slot[s].age)]
    BY <1>7 DEF Rotation!Tick
  <2>3. \A s \in 1 .. Slots :
          slot'[s] \in [key : 1 .. ProviderKeys \cup {0}, age : 0 .. Cooldown]
          /\ slot'[s].key = slot[s].key /\ slot'[s].age = Rotation!Older(slot[s].age)
    <3> SUFFICES ASSUME NEW s \in 1 .. Slots
                 PROVE  /\ slot'[s] \in [key : 1 .. ProviderKeys \cup {0}, age : 0 .. Cooldown]
                        /\ slot'[s].key = slot[s].key /\ slot'[s].age = Rotation!Older(slot[s].age)
      OBVIOUS
    <3>1. PICK r \in [key : 1 .. ProviderKeys \cup {0}, age : 0 .. Cooldown] : r = slot[s]
      BY <1>1 DEF SlotTypeOK
    <3>2. PICK a \in 0 .. Cooldown : a = Rotation!Older(slot[s].age)
      BY <2>1, <3>1
    <3>3. slot'[s] = [r EXCEPT !.age = a]
      BY <2>2, <3>1, <3>2
    <3> QED BY <3>1, <3>2, <3>3
  <2>4. \A s \in 1 .. Slots : \A k \in 1 .. ProviderKeys :
          refused'[s][k] = Rotation!Older(refused[s][k]) /\ refused[s][k] \in 0 .. Cooldown
    BY <1>1, <1>7 DEF Rotation!Tick, PoolTypeOK
  <2>5. /\ UNCHANGED <<config, table, call>>
        /\ dark' = [s \in 1 .. Slots |-> IF Rotation!Cooling(s)' THEN dark[s] + 1 ELSE 0]
    BY <1>7 DEF Rotation!Tick, Rotation!KeepDark
  <2>6. SlotTypeOK' /\ CallTypeOK' /\ PoolTypeOK'
    <3>1. SlotTypeOK'
      BY <1>7, <2>3 DEF Rotation!Tick, SlotTypeOK
    <3>2. refused' \in [1 .. Slots -> [1 .. ProviderKeys -> 0 .. Cooldown]]
      BY <1>1, <1>7, <2>1 DEF PoolTypeOK, Rotation!Tick
    <3>3. dark' \in [1 .. Slots -> Nat]
      <4>1. \A s \in 1 .. Slots : dark[s] \in Nat
        BY <1>1 DEF PoolTypeOK
      <4>2. \A s \in 1 .. Slots : dark[s] + 1 \in Nat
        BY <4>1
      <4> QED BY <2>5, <4>2
    <3> QED BY <1>1, <2>5, <3>1, <3>2, <3>3 DEF PoolTypeOK, CallTypeOK
  <2>7. AgesAgree'
    <3> SUFFICES ASSUME NEW s \in 1 .. Slots
                 PROVE  /\ dark'[s] <= IF Rotation!Cooling(s)' THEN slot'[s].age ELSE 0
                        /\ slot'[s].key # 0 => refused'[s][slot'[s].key] <= slot'[s].age
      BY DEF AgesAgree
    <3>1. /\ dark[s] <= IF slot[s].key = config[s] /\ slot[s].age < Cooldown THEN slot[s].age ELSE 0
          /\ slot[s].key # 0 => refused[s][slot[s].key] <= slot[s].age
          /\ slot[s].key \in 1 .. ProviderKeys \cup {0} /\ slot[s].age \in 0 .. Cooldown /\ dark[s] \in Nat
      BY <1>1 DEF AgesAgree, Rotation!Cooling, SlotTypeOK, PoolTypeOK
    <3>2. dark'[s] = IF slot'[s].key = config[s] /\ slot'[s].age < Cooldown THEN dark[s] + 1 ELSE 0
      BY <2>5, <3>1 DEF Rotation!Cooling
    <3>3. slot'[s].age = IF slot[s].age < Cooldown THEN slot[s].age + 1 ELSE slot[s].age
      BY <2>3 DEF Rotation!Older
    <3>4. dark'[s] <= IF Rotation!Cooling(s)' THEN slot'[s].age ELSE 0
      BY <1>1, <2>3, <2>5, <3>1, <3>2, <3>3 DEF Rotation!Cooling
    <3>5. \A x, y \in 0 .. Cooldown : x <= y => Rotation!Older(x) <= Rotation!Older(y)
      BY <1>1 DEF Rotation!Older
    <3>6. slot'[s].key # 0 => refused'[s][slot'[s].key] <= slot'[s].age
      BY <2>3, <2>4, <3>1, <3>5
    <3> QED BY <3>4, <3>6
  <2> QED BY <2>6, <2>7 DEF RotationAgain
<1>8. ASSUME NEW s \in 1 .. Slots, Rotation!SwapKey(s)
      PROVE  RotationAgain
  <2>1. PICK k \in (1 .. ProviderKeys) \ {config[s]} : config' = [config EXCEPT ![s] = k]
    BY <1>8 DEF Rotation!SwapKey
  <2>2. /\ UNCHANGED <<slot, table, call, refused>>
        /\ dark' = [u \in 1 .. Slots |-> IF Rotation!Cooling(u)' THEN dark[u] + 0 ELSE 0]
    BY <1>8 DEF Rotation!SwapKey, Rotation!KeepDark
  <2>3. SlotTypeOK' /\ CallTypeOK' /\ PoolTypeOK'
    <3>1. config' \in [1 .. Slots -> 1 .. ProviderKeys]
      BY <1>1, <2>1 DEF PoolTypeOK
    <3>2. dark' \in [1 .. Slots -> Nat]
      BY <1>1, <2>2 DEF PoolTypeOK
    <3> QED BY <1>1, <2>2, <3>1, <3>2 DEF PoolTypeOK, CallTypeOK, SlotTypeOK
  <2>4. AgesAgree'
    <3> SUFFICES ASSUME NEW u \in 1 .. Slots
                 PROVE  /\ dark'[u] <= IF Rotation!Cooling(u)' THEN slot'[u].age ELSE 0
                        /\ slot'[u].key # 0 => refused'[u][slot'[u].key] <= slot'[u].age
      BY DEF AgesAgree
    <3>1. /\ dark[u] <= IF Rotation!Cooling(u) THEN slot[u].age ELSE 0
          /\ slot[u].key # 0 => refused[u][slot[u].key] <= slot[u].age
          /\ slot[u].age \in 0 .. Cooldown /\ dark[u] \in Nat
      BY <1>1 DEF AgesAgree, SlotTypeOK, PoolTypeOK
    <3>2. dark[u] <= slot[u].age
      BY <1>1, <3>1
    <3>3. dark'[u] <= IF Rotation!Cooling(u)' THEN slot'[u].age ELSE 0
      BY <2>2, <3>1, <3>2
    <3> QED BY <2>2, <3>1, <3>3
  <2> QED BY <2>3, <2>4 DEF RotationAgain
<1>9. ASSUME Rotation!Migrate
      PROVE  RotationAgain
  <2>1. SlotTypeOK' /\ CallTypeOK' /\ PoolTypeOK'
    BY <1>1, <1>9 DEF Rotation!Migrate, SlotTypeOK, CallTypeOK, PoolTypeOK
  <2>2. AgesAgree'
    BY <1>1, <1>9 DEF Rotation!Migrate, AgesAgree, Rotation!Cooling
  <2> QED BY <2>1, <2>2 DEF RotationAgain
<1> QED BY <1>3, <1>4, <1>5, <1>6, <1>7, <1>8, <1>9 DEF Rotation!RotationNext, Rotation!Surroundings

LEMMA RotationStep ==
  ASSUME RotationInv, [Next]_vars
  PROVE  RotationInv'
<1>1. CASE OnlyRotation /\ ~UNCHANGED vars
  <2>1. Rotation!RotationNext
    BY <1>1 DEF Next, OnlyDesk, OnlyRotation, OnlyLedger, OnlySingle
  <2> QED BY <1>1, <2>1, RotationMoves
<1>2. CASE UNCHANGED vars \/ ~OnlyRotation
  <2> SUFFICES ASSUME service' = "rotation" PROVE service = "rotation" /\ UNCHANGED rotationVars
    BY DEF rotationVars, RotationInv, Rotation!RotationTypeOK, AgesAgree, Rotation!Cooling
  <2>1. CASE UNCHANGED vars
    BY <2>1 DEF vars
  <2>2. CASE Next
    BY <1>2, <2>2 DEF Next, vars, OnlyDesk, OnlyRotation, OnlyLedger, OnlySingle
  <2> QED BY <2>1, <2>2
<1> QED BY <1>1, <1>2

(* No key is held back for longer than the cooldown after it was refused,  *)
(* and a new key in a slot does not inherit the cooldown of the one before *)
(* it, for any number of overlapping searches that mark each other's slots *)
(* late, of slots, and of keys that come, go and come back.                *)
THEOREM KeysAreHeldFairlyHolds == Spec => []KeysAreHeldFairly
<1>1. RotationInv => KeysAreHeldFairly
  <2> SUFFICES ASSUME RotationInv, service = "rotation", NEW s \in Rotation!Slot
               PROVE  /\ dark[s] < Cooldown
                      /\ Rotation!Cooling(s) => refused[s][config[s]] < Cooldown
    BY DEF KeysAreHeldFairly, Rotation!RefusedKeysHeal, Rotation!NoInheritedCooldown
  <2>1. /\ Rotation!RotationTypeOK /\ AgesAgree
        /\ Slots \in Nat \ {0} /\ Cooldown \in Nat \ {0} /\ ProviderKeys \in Nat \ {0} /\ s \in 1 .. Slots
    BY OfficeAssumption DEF OfficeAssumption, Rotation!RotationAssumption, RotationInv, Rotation!Slot
  <2>2. /\ config[s] \in 1 .. ProviderKeys /\ slot[s].age \in 0 .. Cooldown /\ dark[s] \in Nat
        /\ refused[s][config[s]] \in 0 .. Cooldown
    BY <2>1 DEF Rotation!RotationTypeOK, Rotation!Slot, Rotation!Key
  <2> QED BY <2>1, <2>2 DEF AgesAgree, Rotation!Cooling
<1> QED BY RotationStart, RotationStep, <1>1, PTL DEF Spec

-----------------------------------------------------------------------------
(* The reader of the lobby check.                                          *)

LEMMA LeastOfTwo ==
  ASSUME NEW a \in Int, NEW b \in Int, NEW S \in SUBSET {a, b}, S # {}
  PROVE  Reader!Min(S) \in S /\ \A x \in S : Reader!Min(S) <= x
<1>1. S = {a} \/ S = {b} \/ S = {a, b}
  OBVIOUS
<1>2. \E m \in S : \A x \in S : m <= x
  <2>1. CASE a <= b
    BY <1>1, <2>1
  <2>2. CASE ~(a <= b)
    <3>1. b <= a
      BY <2>2
    <3> QED BY <1>1, <3>1
  <2> QED BY <2>1, <2>2
<1> QED BY <1>2 DEF Reader!Min

\* The records, with every confidence; -1 is none, -2 a text.
Stored ==
  [condition : {"none", "good", "damaged"}, defects : {"none", "empty", "some"},
   own : 0 .. 100 \cup {-1, -2}, rest : 0 .. 100 \cup {-1, -2}, valid : BOOLEAN]

Readings ==
  [step : {"fetch", "call", "parse", "store", "end"}, attempt : {0, 1}, temperature : BOOLEAN,
   record : Stored, conflict : BOOLEAN, parsed : Stored,
   status : {"dispatched", "failed", "completed"}, review : BOOLEAN]

\* A record on its way to the row does not contradict itself, and has a
\* confidence below the threshold if it was salvaged.
Settled(rec, conflict) ==
  /\ ~Reader!Contradicts(rec)
  /\ conflict => rec.own \in 0 .. 50

ReadingOK(r) ==
  /\ r.step \in {"fetch", "call", "parse"} => ~r.conflict /\ r.status = "dispatched"
  /\ r.step = "store" => Settled(r.record, r.conflict) /\ r.status = "dispatched"
  /\ r.status = "completed" =>
       /\ Settled(r.record, r.conflict)
       /\ -2 \notin Reader!Given(r.record)
       /\ r.review = Reader!RowNeedsReview(r.record)

ReaderInv == service = "reader" => reading \in Readings /\ ReadingOK(reading)

LEMMA ReaderStart == Init => ReaderInv
<1> SUFFICES ASSUME Init, service = "reader" PROVE reading \in Readings /\ ReadingOK(reading)
  BY DEF ReaderInv
<1>1. Reader!ReadingInit
  BY DEF Init
<1>2. PICK t \in BOOLEAN :
        reading = [step |-> "fetch", attempt |-> 0, temperature |-> t, record |-> Reader!NoRecord,
                   conflict |-> FALSE, parsed |-> Reader!NoRecord, status |-> "dispatched", review |-> FALSE]
  BY <1>1 DEF Reader!ReadingInit
<1>3. Reader!NoRecord \in Stored
  BY DEF Reader!NoRecord, Stored, Reader!NoValue
<1> QED BY <1>2, <1>3 DEF ReadingOK, Readings

LEMMA ReaderMoves ==
  ASSUME ReaderInv, OnlySingle("reader"), Reader!ReadingNext
  PROVE  ReaderInv'
<1>1. PICK r : r = reading
  OBVIOUS
<1>2. r \in Readings /\ ReadingOK(r) /\ ReadConfidences \subseteq 0 .. 100
  BY <1>1, OfficeAssumption DEF OfficeAssumption, Reader!ReadingAssumption, OnlySingle, ReaderInv
<1>3. SUFFICES ASSUME NEW new, new = reading' PROVE new \in Readings /\ ReadingOK(new)
  BY DEF ReaderInv
<1>4. PICK failed : failed = [r EXCEPT !.step = "end", !.status = "failed"]
  OBVIOUS
<1>5. Reader!Fail = failed /\ failed \in Readings /\ ReadingOK(failed)
  <2>1. Reader!Fail = failed
    BY <1>1, <1>4 DEF Reader!Fail
  <2>2. failed \in Readings /\ failed.step = "end" /\ failed.status = "failed"
    BY <1>2, <1>4 DEF Readings
  <2> QED BY <2>1, <2>2 DEF ReadingOK
<1>6. ASSUME Reader!FetchImage
      PROVE  new \in Readings /\ ReadingOK(new)
  <2>1. new = failed \/ new = [r EXCEPT !.step = "call"]
    BY <1>1, <1>3, <1>5, <1>6 DEF Reader!FetchImage
  <2>2. r.step = "fetch"
    BY <1>1, <1>6 DEF Reader!FetchImage
  <2>3. CASE new = [r EXCEPT !.step = "call"]
    <3>1. new \in Readings /\ new.step = "call" /\ new.conflict = r.conflict /\ new.status = r.status
      BY <1>2, <2>3 DEF Readings
    <3> QED BY <1>2, <2>2, <3>1 DEF ReadingOK
  <2> QED BY <1>5, <2>1, <2>3
<1>7. ASSUME Reader!TemperatureRefused
      PROVE  new \in Readings /\ ReadingOK(new)
  <2>1. r.step = "call" /\ new = [r EXCEPT !.temperature = FALSE]
    BY <1>1, <1>3, <1>7 DEF Reader!TemperatureRefused
  <2>2. new \in Readings /\ new.step = "call" /\ new.conflict = r.conflict /\ new.status = r.status
    BY <1>2, <2>1 DEF Readings
  <2> QED BY <1>2, <2>1, <2>2 DEF ReadingOK
<1>8. ASSUME Reader!CallConverse
      PROVE  new \in Readings /\ ReadingOK(new)
  <2>1. PICK rec \in Reader!Records : new = [r EXCEPT !.step = "parse", !.parsed = rec]
    BY <1>1, <1>3, <1>8 DEF Reader!CallConverse
  <2>2. r.step = "call" /\ rec \in Stored
    <3>1. r.step = "call"
      BY <1>1, <1>8 DEF Reader!CallConverse
    <3>2. Reader!Records \subseteq Stored
      BY <1>2 DEF Reader!Records, Stored, Reader!NoValue, Reader!Text
    <3> QED BY <2>1, <3>1, <3>2
  <2>3. new \in Readings /\ new.step = "parse" /\ new.conflict = r.conflict /\ new.status = r.status
    BY <1>2, <2>1, <2>2 DEF Readings
  <2> QED BY <1>2, <2>2, <2>3 DEF ReadingOK
<1>9. ASSUME Reader!ReraiseClassified
      PROVE  new \in Readings /\ ReadingOK(new)
  <2>1. new = failed \/ \E t \in BOOLEAN : new = [r EXCEPT !.step = "fetch", !.attempt = 0, !.temperature = t]
    BY <1>1, <1>3, <1>5, <1>9 DEF Reader!ReraiseClassified
  <2>2. r.step = "call"
    BY <1>1, <1>9 DEF Reader!ReraiseClassified
  <2>3. ASSUME NEW t \in BOOLEAN, new = [r EXCEPT !.step = "fetch", !.attempt = 0, !.temperature = t]
        PROVE  new \in Readings /\ ReadingOK(new)
    <3>1. new \in Readings /\ new.step = "fetch" /\ new.conflict = r.conflict /\ new.status = r.status
      BY <1>2, <2>3 DEF Readings
    <3> QED BY <1>2, <2>2, <3>1 DEF ReadingOK
  <2> QED BY <1>5, <2>1, <2>3
\* Once more, with the repair prompt.
<1>10. ASSUME r.step = "parse", new = [r EXCEPT !.step = "call", !.attempt = 1]
       PROVE  new \in Readings /\ ReadingOK(new)
  <2>1. new \in Readings /\ new.step = "call" /\ new.conflict = r.conflict /\ new.status = r.status
    BY <1>2, <1>10 DEF Readings
  <2> QED BY <1>2, <1>10, <2>1 DEF ReadingOK
<1>11. ASSUME Reader!ParseResponse
       PROVE  new \in Readings /\ ReadingOK(new)
  <2>1. r.step = "parse" /\ (new = failed \/ new = [r EXCEPT !.step = "call", !.attempt = 1])
    BY <1>1, <1>3, <1>5, <1>11 DEF Reader!ParseResponse
  <2> QED BY <1>5, <1>10, <2>1
<1>12. ASSUME Reader!ExtractMaterialRecord
       PROVE  new \in Readings /\ ReadingOK(new)
  <2>1. PICK errs : errs = Reader!Validate(r.parsed)
    OBVIOUS
  <2>2. PICK mended : mended = Reader!SalvageConditionConflict(r.parsed)
    OBVIOUS
  <2>3. /\ r.step = "parse"
        /\ new = CASE errs = {} -> [r EXCEPT !.step = "store", !.record = r.parsed]
                   [] errs = {Reader!ConditionConflict} /\ r.attempt = 1 ->
                        [r EXCEPT !.step = "store", !.conflict = TRUE, !.record = mended]
                   [] errs # {} /\ r.attempt = 0 -> [r EXCEPT !.step = "call", !.attempt = 1]
                   [] OTHER -> failed
    BY <1>1, <1>3, <1>5, <1>12, <2>1, <2>2 DEF Reader!ExtractMaterialRecord
  <2>4. CASE errs = {}
    <3>1. new = [r EXCEPT !.step = "store", !.record = r.parsed]
      BY <2>3, <2>4
    <3>2. /\ new \in Readings /\ new.step = "store" /\ new.conflict = r.conflict /\ new.status = r.status
          /\ new.record = r.parsed
      BY <1>2, <3>1 DEF Readings
    <3>3. ~Reader!Contradicts(r.parsed)
      BY <2>1, <2>4 DEF Reader!Validate
    <3> QED BY <1>2, <2>3, <3>2, <3>3 DEF ReadingOK, Settled
  <2>5. CASE errs = {Reader!ConditionConflict} /\ r.attempt = 1
    <3>1. new = [r EXCEPT !.step = "store", !.conflict = TRUE, !.record = mended]
      BY <2>3, <2>5
    <3>2. PICK p \in Stored : p = r.parsed
      BY <1>2 DEF Readings
    <3>3. PICK own : own = IF p.own \in ReadConfidences /\ p.own < 50 THEN p.own ELSE 50
      OBVIOUS
    <3>4. own \in 0 .. 50
      <4>1. CASE p.own \in ReadConfidences /\ p.own < 50
        <5>1. PICK n \in 0 .. 100 : n = p.own
          BY <1>2, <4>1
        <5> QED BY <3>3, <4>1, <5>1
      <4>2. CASE ~(p.own \in ReadConfidences /\ p.own < 50)
        <5>1. own = 50
          BY <3>3, <4>2
        <5> QED BY <5>1
      <4> QED BY <4>1, <4>2
    <3>5. PICK condition : condition = IF p.defects = "some" THEN "damaged" ELSE "good"
      OBVIOUS
    <3>6. mended = [p EXCEPT !.condition = condition, !.own = own]
      BY <2>2, <3>2, <3>3, <3>5 DEF Reader!SalvageConditionConflict, Reader!ConflictCap
    <3>7. mended \in Stored /\ mended.own = own /\ mended.defects = p.defects /\ mended.condition = condition
      <4>1. condition \in {"none", "good", "damaged"} /\ own \in 0 .. 100 \cup {-1, -2}
        BY <3>4, <3>5
      <4> QED BY <3>6, <4>1 DEF Stored
    <3>8. Settled(mended, TRUE)
      BY <3>4, <3>5, <3>7 DEF Settled, Reader!Contradicts
    <3>9. /\ new \in Readings /\ new.step = "store" /\ new.conflict = TRUE /\ new.status = r.status
          /\ new.record = mended
      BY <1>2, <3>1, <3>7 DEF Readings
    <3> QED BY <1>2, <2>3, <3>8, <3>9 DEF ReadingOK
  <2>6. CASE errs # {} /\ ~(errs = {Reader!ConditionConflict} /\ r.attempt = 1) /\ r.attempt = 0
    BY <1>10, <2>3, <2>6
  <2>7. CASE errs # {} /\ ~(errs = {Reader!ConditionConflict} /\ r.attempt = 1) /\ r.attempt # 0
    BY <1>5, <2>3, <2>7
  <2> QED BY <2>4, <2>5, <2>6, <2>7
<1>13. ASSUME Reader!StoreRow
       PROVE  new \in Readings /\ ReadingOK(new)
  <2>1. PICK flag : flag = Reader!RowNeedsReview(r.record)
    OBVIOUS
  <2>2. /\ r.step = "store"
        /\ new = IF -2 \in Reader!Given(r.record) THEN failed
                 ELSE [r EXCEPT !.step = "end", !.status = "completed", !.review = flag]
    BY <1>1, <1>3, <1>5, <1>13, <2>1 DEF Reader!StoreRow, Reader!Text
  <2>3. flag \in BOOLEAN
    BY <2>1 DEF Reader!RowNeedsReview
  <2>4. CASE -2 \notin Reader!Given(r.record)
    <3>1. new = [r EXCEPT !.step = "end", !.status = "completed", !.review = flag]
      BY <2>2, <2>4
    <3>2. /\ new \in Readings /\ new.step = "end" /\ new.conflict = r.conflict /\ new.record = r.record
          /\ new.review = flag
      BY <1>2, <2>3, <3>1 DEF Readings
    <3> QED BY <1>2, <2>1, <2>2, <2>4, <3>2 DEF ReadingOK
  <2> QED BY <1>5, <2>2, <2>4
<1> QED BY <1>6, <1>7, <1>8, <1>9, <1>11, <1>12, <1>13 DEF Reader!ReadingNext

LEMMA ReaderStep ==
  ASSUME ReaderInv, [Next]_vars
  PROVE  ReaderInv'
<1>1. CASE OnlySingle("reader") /\ ~UNCHANGED vars
  <2>1. Reader!ReadingNext
    BY <1>1 DEF Next, OnlyDesk, OnlyRotation, OnlyLedger, OnlySingle
  <2> QED BY <1>1, <2>1, ReaderMoves
<1>2. CASE UNCHANGED vars \/ ~OnlySingle("reader")
  <2> SUFFICES ASSUME service' = "reader" PROVE service = "reader" /\ UNCHANGED reading
    BY DEF ReaderInv
  <2>1. CASE UNCHANGED vars
    BY <2>1 DEF vars, singleVars
  <2>2. CASE Next
    BY <1>2, <2>2 DEF Next, vars, singleVars, OnlyDesk, OnlyRotation, OnlyLedger, OnlySingle
  <2> QED BY <2>1, <2>2
<1> QED BY <1>1, <1>2

(* A stored lobby reading never says undamaged and lists defects, one that *)
(* was salvaged from such an answer is flagged for review, and the flag    *)
(* agrees with the decision written next to it, for every confidence the   *)
(* model may give, on every way through the temperature fall-back, the     *)
(* repair and the salvage.                                                 *)
THEOREM ConflictsAreReviewedHolds == Spec => []ConflictsAreReviewed
<1>1. ReaderInv => ConflictsAreReviewed
  <2> SUFFICES ASSUME reading \in Readings, ReadingOK(reading), reading.status = "completed"
               PROVE  /\ ~Reader!Contradicts(reading.record)
                      /\ reading.conflict => reading.review
                      /\ Reader!Given(reading.record) # {} =>
                           (reading.review <=> Reader!Decision(reading.record) = "REVIEW")
    BY DEF ReaderInv, ConflictsAreReviewed, Reader!ConflictsAreReviewed
  <2>1. PICK rec \in Stored : rec = reading.record
    BY DEF Readings
  <2>2. Settled(rec, reading.conflict) /\ -2 \notin Reader!Given(rec)
        /\ reading.review = Reader!RowNeedsReview(rec)
    BY <2>1 DEF ReadingOK
  <2>3. ASSUME reading.conflict
        PROVE  reading.review
    <3>1. rec.own \in 0 .. 50 /\ rec.rest \in Int
      BY <2>1, <2>2, <2>3 DEF Settled, Stored
    <3>2. rec.own \in Reader!Given(rec) /\ Reader!Given(rec) \subseteq {rec.own, rec.rest}
      BY <3>1 DEF Reader!Given, Reader!NoValue
    <3>3. Reader!Min(Reader!Given(rec)) \in Reader!Given(rec) /\ Reader!Min(Reader!Given(rec)) <= rec.own
      <4>1. PICK given : given = Reader!Given(rec)
        OBVIOUS
      <4>2. rec.own \in Int /\ given \in SUBSET {rec.own, rec.rest} /\ given # {} /\ rec.own \in given
        BY <3>1, <3>2, <4>1
      <4>3. Reader!Min(given) \in given /\ \A x \in given : Reader!Min(given) <= x
        BY <3>1, <4>2, LeastOfTwo
      <4> QED BY <4>1, <4>2, <4>3
    <3>4. Reader!Min(Reader!Given(rec)) < 70
      BY <3>1, <3>2, <3>3
    <3> QED BY <2>2, <3>2, <3>4 DEF Reader!RowNeedsReview, Reader!ReviewThreshold
  <2>4. ASSUME Reader!Given(rec) # {}
        PROVE  reading.review <=> Reader!Decision(rec) = "REVIEW"
    BY <2>2, <2>4 DEF Reader!RowNeedsReview, Reader!Decision, Reader!Text
  <2> QED BY <2>1, <2>2, <2>3, <2>4 DEF Settled
<1> QED BY ReaderStart, ReaderStep, <1>1, PTL DEF Spec

-----------------------------------------------------------------------------
(* One title in the matcher.                                               *)

Ids == Titles \cup Ghosts \cup {0}
Results ==
  [id : Ids, titled : BOOLEAN, confidence : 0 .. 100,
   decision : {"AUTO_ACCEPT", "REVIEW", "REVIEW_NON_MOVIE", "REVIEW_MULTI_FILM"}, runners : SUBSET Titles]
Matches ==
  [variant : {"v1", "v2", "intl2"}, mode : {"enforce", "log_only", "off"},
   kind : [Titles -> {"fit", "refused", "odd", "far"}],
   phase : {"fetch", "ask", "again", "guard", "verify", "lookup", "done"},
   found : SUBSET Titles, listed : SUBSET Titles, result : Results, named : Ids, blind : SUBSET Titles]

\* The international searches list no refused row.
Scoped(m) == m.variant = "intl2" => \A id \in m.found \cup m.listed : m.kind[id] # "refused"

\* A refused row is one the guardrail could not read.
CleanResult(m, res, blind) ==
  m.variant # "v1" /\ m.mode = "enforce" /\ res.id \in Titles /\ m.kind[res.id] = "refused" =>
    res.id \in blind \ m.found

\* An accepted result has the confidence of it, but for the international
\* one a verdict left without a row, which the look-up gives a confidence of
\* its own; in the domestic v2 it is about the row the model named.
EndorsedResult(m, res, named) ==
  res.decision = "AUTO_ACCEPT" =>
    /\ res.confidence >= 90 \/ (m.variant = "intl2" /\ res.id = 0)
    /\ m.variant = "v2" /\ res.id # 0 => res.id = named

MatcherOK(m) ==
  /\ m \in Matches
  /\ Scoped(m)
  /\ m.phase \in {"verify", "lookup", "done"} => CleanResult(m, m.result, m.blind)
  /\ EndorsedResult(m, m.result, m.named)

MatcherInv == service = "matcher" => MatcherOK(match)

LEMMA MatcherConstants ==
  /\ Titles \cup Ghosts \subseteq Nat \ {0} /\ Titles \cap Ghosts = {}
  /\ Modes \subseteq {"enforce", "log_only", "off"}
  /\ MatchConfidences \subseteq 0 .. 100
BY OfficeAssumption DEF OfficeAssumption, Matcher!MatchAssumption

LEMMA NoMatchResult ==
  /\ Matcher!NoMatch \in Results
  /\ Matcher!NoMatch.id = 0 /\ Matcher!NoMatch.decision = "REVIEW"
BY DEF Matcher!NoMatch, Matcher!NoRow, Results, Ids

LEMMA MatcherStart == Init => MatcherInv
<1> SUFFICES ASSUME Init, service = "matcher"
             PROVE  MatcherOK(match)
  BY DEF MatcherInv
<1>1. Matcher!MatchInit
  BY DEF Init
<1>2. PICK variant \in {"v1", "v2", "intl2"}, kind \in [Titles -> {"fit", "refused", "odd", "far"}],
           mode \in {"enforce", "log_only", "off"}, none \in Results :
        /\ match = [variant |-> variant, mode |-> mode, kind |-> kind, phase |-> "fetch",
                    found |-> {}, listed |-> {}, result |-> none, named |-> 0, blind |-> {}]
        /\ none = Matcher!NoMatch
  BY <1>1, MatcherConstants, NoMatchResult
     DEF Matcher!MatchInit, Matcher!Variants, Matcher!RowKinds, Matcher!NoRow
<1>3. match \in Matches
  BY <1>2 DEF Matches, Ids
<1>4. /\ match.found = {} /\ match.listed = {} /\ match.phase = "fetch"
      /\ match.result.decision = "REVIEW"
  BY <1>2, NoMatchResult
<1> QED BY <1>3, <1>4 DEF MatcherOK, Scoped, EndorsedResult

\* The result of a parsed output.
LEMMA OutputResult ==
  ASSUME NEW output \in Matcher!Outputs
  PROVE  \E res \in Results :
           /\ res = Matcher!ParseAgentOutput(output)
           /\ res.decision = "AUTO_ACCEPT" => res.confidence >= 90
<1>1. CASE output = Matcher!NoJson
  <2>1. Matcher!ParseAgentOutput(output) = Matcher!NoMatch
    BY <1>1 DEF Matcher!ParseAgentOutput
  <2> QED BY <2>1, NoMatchResult
<1>2. CASE output # Matcher!NoJson /\ output = Matcher!NoMatch
  <2>1. Matcher!ParseAgentOutput(output) = Matcher!NoMatch
    BY <1>2 DEF Matcher!ParseAgentOutput
  <2> QED BY <2>1, NoMatchResult
<1>3. CASE output # Matcher!NoJson /\ output # Matcher!NoMatch
  <2>1. PICK id \in Titles \cup Ghosts \cup {0}, runners \in SUBSET Titles, titled \in BOOLEAN,
             confidence \in MatchConfidences, event \in {"MOVIE", "NON_MOVIE"} :
          output = Matcher!BuildResult(id, runners, titled, confidence, event)
    BY <1>3 DEF Matcher!Outputs, Matcher!NoRow
  <2>2. PICK decision : decision = IF event = "MOVIE" THEN Matcher!ByConfidence(confidence)
                                   ELSE Matcher!EventDecision[event]
    OBVIOUS
  <2>3. output = [id |-> id, titled |-> titled, confidence |-> confidence, decision |-> decision,
                  runners |-> runners]
    BY <2>1, <2>2 DEF Matcher!BuildResult
  <2>4. /\ decision \in {"AUTO_ACCEPT", "REVIEW", "REVIEW_NON_MOVIE", "REVIEW_MULTI_FILM"}
        /\ decision = "AUTO_ACCEPT" => confidence >= 90
    <3>1. CASE event = "MOVIE"
      BY <2>2, <3>1 DEF Matcher!ByConfidence, Matcher!AutoAccept
    <3>2. CASE event = "NON_MOVIE"
      <4>1. decision = Matcher!EventDecision["NON_MOVIE"]
        BY <2>2, <3>2
      <4> QED BY <4>1 DEF Matcher!EventDecision
    <3> QED BY <3>1, <3>2
  <2>5. confidence \in 0 .. 100
    BY MatcherConstants
  <2>6. output \in Results /\ output.decision = decision /\ output.confidence = confidence
    BY <2>1, <2>3, <2>4, <2>5 DEF Results, Ids
  <2>7. Matcher!ParseAgentOutput(output) = output
    BY <1>3 DEF Matcher!ParseAgentOutput
  <2> QED BY <2>4, <2>6, <2>7
<1> QED BY <1>1, <1>2, <1>3

\* A step that keeps the result, before the guardrail.
LEMMA ResultKept ==
  ASSUME NEW m, MatcherOK(m), NEW new \in Matches, new.variant = m.variant, new.result = m.result,
         new.named = m.named, Scoped(new), new.phase \in {"fetch", "ask", "again", "guard"}
  PROVE  MatcherOK(new)
BY DEF MatcherOK, EndorsedResult

\* The other steps leave what was found.
Changed(m, new, phase, res, named, blind) ==
  new = [m EXCEPT !.phase = phase, !.result = res, !.named = named, !.blind = blind]

LEMMA ResultChanges ==
  ASSUME NEW m, MatcherOK(m), NEW res \in Results, NEW named \in Ids, NEW blind \in SUBSET Titles,
         NEW phase \in {"guard", "verify", "lookup", "done"}, NEW new,
         Changed(m, new, phase, res, named, blind),
         phase = "guard" \/ CleanResult(m, res, blind),
         EndorsedResult(m, res, named)
  PROVE  MatcherOK(new)
<1>1. m \in Matches /\ Scoped(m)
  BY DEF MatcherOK
<1>2. new \in Matches
  BY <1>1 DEF Matches, Changed
<1>3. /\ new.variant = m.variant /\ new.mode = m.mode /\ new.kind = m.kind /\ new.phase = phase
      /\ new.found = m.found /\ new.listed = m.listed /\ new.result = res /\ new.named = named
      /\ new.blind = blind
  BY <1>1 DEF Matches, Changed
<1>4. Scoped(new)
  BY <1>1, <1>3 DEF Scoped
<1>5. EndorsedResult(new, res, named)
  BY <1>3 DEF EndorsedResult
<1>6. phase # "guard" => CleanResult(new, res, blind)
  BY <1>3 DEF CleanResult
<1> QED BY <1>2, <1>3, <1>4, <1>5, <1>6 DEF MatcherOK

LEMMA MatcherMoves ==
  ASSUME MatcherInv, OnlySingle("matcher"), Matcher!MatchNext
  PROVE  MatcherInv'
<1>1. PICK m : m = match
  OBVIOUS
<1>2. MatcherOK(m) /\ m \in Matches /\ m.named \in Ids /\ m.blind \in SUBSET Titles /\ m.result \in Results
  <2>1. MatcherOK(m) /\ m \in Matches
    BY <1>1 DEF OnlySingle, MatcherInv, MatcherOK
  <2> QED BY <2>1 DEF Matches
<1>3. SUFFICES ASSUME NEW new, new = match' PROVE MatcherOK(new)
  BY DEF MatcherInv
<1>4. ASSUME Matcher!Fetch
      PROVE  MatcherOK(new)
  <2>1. PICK found \in SUBSET Titles : new = [m EXCEPT !.phase = "ask", !.found = found]
    BY <1>1, <1>3, <1>4 DEF Matcher!Fetch, Matcher!DbSearch
  <2>2. m.variant \in {"v1", "v2"}
    BY <1>1, <1>4 DEF Matcher!Fetch, Matcher!At, Matcher!Domestic
  <2>3. /\ new \in Matches /\ new.phase = "ask" /\ new.variant = m.variant /\ new.result = m.result
        /\ new.named = m.named
    BY <1>2, <2>1 DEF Matches
  <2> QED BY <1>2, <2>2, <2>3, ResultKept DEF Scoped
<1>5. ASSUME Matcher!FetchIntl
      PROVE  MatcherOK(new)
  <2>1. PICK found \in SUBSET {id \in Titles : m.kind[id] # "refused"},
             listed \in SUBSET {id \in Titles : m.kind[id] # "refused"} :
          new = [m EXCEPT !.phase = "ask", !.found = found, !.listed = listed]
    BY <1>1, <1>3, <1>5 DEF Matcher!FetchIntl, Matcher!DbSearchIntl, Matcher!VespaIntl, Matcher!Allowed
  <2>2. /\ new \in Matches /\ new.phase = "ask" /\ new.variant = m.variant /\ new.result = m.result
        /\ new.named = m.named /\ new.kind = m.kind /\ new.found = found /\ new.listed = listed
    BY <1>2, <2>1 DEF Matches
  <2>3. Scoped(new)
    BY <2>1, <2>2 DEF Scoped
  <2> QED BY <1>2, <2>2, <2>3, ResultKept
<1>6. ASSUME NEW output \in Matcher!Outputs, new = Matcher!Named(output)
      PROVE  MatcherOK(new)
  <2>1. PICK res \in Results :
          /\ res = Matcher!ParseAgentOutput(output)
          /\ res.decision = "AUTO_ACCEPT" => res.confidence >= 90
    BY <1>6, OutputResult
  <2>2. res.id \in Ids
    BY <2>1 DEF Results
  <2>3. Changed(m, new, "guard", res, res.id, m.blind)
    <3>1. new = [m EXCEPT !.phase = "guard", !.result = res, !.named = res.id]
      BY <1>1, <1>6, <2>1 DEF Matcher!Named
    <3> QED BY <1>2, <3>1 DEF Changed, Matches
  <2>4. EndorsedResult(m, res, res.id)
    BY <2>1 DEF EndorsedResult
  <2> QED BY <1>2, <2>1, <2>2, <2>3, <2>4, ResultChanges
<1>7. ASSUME NEW variants, Matcher!FirstOutput(variants)
      PROVE  MatcherOK(new)
  <2>1. CASE new = [m EXCEPT !.phase = "again"]
    <3>1. /\ new \in Matches /\ new.phase = "again" /\ new.variant = m.variant /\ new.result = m.result
          /\ new.named = m.named /\ new.kind = m.kind /\ new.found = m.found /\ new.listed = m.listed
      BY <1>2, <2>1 DEF Matches
    <3>2. Scoped(new)
      BY <1>2, <3>1 DEF Scoped, MatcherOK
    <3> QED BY <1>2, <3>1, <3>2, ResultKept
  <2>2. new = [m EXCEPT !.phase = "again"] \/ \E output \in Matcher!Outputs : new = Matcher!Named(output)
    BY <1>1, <1>3, <1>7 DEF Matcher!FirstOutput
  <2> QED BY <1>6, <2>1, <2>2
<1>8. ASSUME NEW variants, Matcher!SecondOutput(variants)
      PROVE  MatcherOK(new)
  BY <1>3, <1>6, <1>8 DEF Matcher!SecondOutput
<1>9. ASSUME NEW variant, Matcher!Fails(variant)
      PROVE  MatcherOK(new)
  <2>1. PICK none : none = Matcher!NoMatch
    OBVIOUS
  <2>2. none \in Results /\ none.id = 0 /\ none.decision = "REVIEW"
    BY <2>1, NoMatchResult
  <2>3. new = [m EXCEPT !.phase = "done", !.result = none]
    BY <1>1, <1>3, <1>9, <2>1 DEF Matcher!Fails
  <2>4. Changed(m, new, "done", none, m.named, m.blind)
    BY <1>2, <2>3 DEF Changed, Matches
  <2>5. CleanResult(m, none, m.blind) /\ EndorsedResult(m, none, m.named)
    BY <2>2, MatcherConstants DEF CleanResult, EndorsedResult
  <2> QED BY <1>2, <2>2, <2>4, <2>5, ResultChanges
<1>10. ASSUME Matcher!NoGuardrail
       PROVE  MatcherOK(new)
  <2>1. m.variant = "v1" /\ new = [m EXCEPT !.phase = "lookup", !.result.runners = {}]
    BY <1>1, <1>3, <1>10 DEF Matcher!NoGuardrail, Matcher!At
  <2>2. PICK res : res = [m.result EXCEPT !.runners = {}]
    OBVIOUS
  <2>3. /\ res \in Results /\ res.id = m.result.id /\ res.decision = m.result.decision
        /\ res.confidence = m.result.confidence
    BY <1>2, <2>2 DEF Matches, Results
  <2>4. Changed(m, new, "lookup", res, m.named, m.blind)
    BY <1>2, <2>1, <2>2 DEF Changed, Matches
  <2>5. EndorsedResult(m, res, m.named)
    BY <1>2, <2>3 DEF MatcherOK, EndorsedResult
  <2>6. CleanResult(m, res, m.blind)
    BY <2>1 DEF CleanResult
  <2> QED BY <1>2, <2>3, <2>4, <2>5, <2>6, ResultChanges
<1>11. ASSUME NEW variants, NEW next \in {"verify", "lookup"}, Matcher!Guard(variants, next)
       PROVE  MatcherOK(new)
  <2>0. PICK blind \in SUBSET Titles : \E picked \in Matcher!Guarded(blind) :
          new = [m EXCEPT !.phase = next, !.blind = blind, !.result = [picked EXCEPT !.runners = {}]]
    BY <1>1, <1>3, <1>11 DEF Matcher!Guard
  <2>1. PICK picked \in Matcher!Guarded(blind) :
          new = [m EXCEPT !.phase = next, !.blind = blind, !.result = [picked EXCEPT !.runners = {}]]
    BY <2>0
  <2>2. PICK old \in Results : old = m.result
    BY <1>2 DEF Matches
  <2>3. PICK rejected \in BOOLEAN :
          rejected <=> (old.id \in m.found \/ old.id \in Titles \ blind)
                         /\ ~(old.id \in Titles /\ m.kind[old.id] # "refused")
    OBVIOUS
  <2>4. PICK fits \in SUBSET {id \in Titles : m.kind[id] = "fit"} :
          picked \in IF m.mode = "enforce" /\ rejected
                       THEN {Matcher!Swapped(old, id) : id \in IF fits = {} THEN {0} ELSE fits}
                       ELSE {old}
    <3>1. PICK fits : fits = Matcher!FallthroughCandidates(old.id, blind)
      OBVIOUS
    <3>2. fits \subseteq {id \in Titles : m.kind[id] = "fit"}
      <4>1. m.found \subseteq Titles /\ m.result.runners \subseteq Titles
        BY <1>2 DEF Matches, Results
      <4> QED BY <1>1, <3>1, <4>1 DEF Matcher!FallthroughCandidates, Matcher!Kind
    <3>3. (Matcher!ResolveCandidate(old.id, blind) /\ ~Matcher!Allowed(old.id)) <=> rejected
      BY <1>1, <2>3 DEF Matcher!ResolveCandidate, Matcher!Allowed
    <3> QED BY <1>1, <2>1, <2>2, <3>1, <3>2, <3>3 DEF Matcher!Guarded, Matcher!NoRow
  <2>5. /\ picked \in Results
        /\ picked.id \in Titles /\ m.kind[picked.id] = "refused" /\ m.mode = "enforce" => picked.id \in blind \ m.found
        /\ picked = old \/ picked.decision # "AUTO_ACCEPT"
    <3>1. CASE m.mode = "enforce" /\ rejected
      <4>1. PICK id \in fits \cup {0} : picked = Matcher!Swapped(old, id)
        BY <2>4, <3>1
      <4>2. id \in Ids /\ ~(id \in Titles /\ m.kind[id] = "refused")
        BY <2>4, <4>1, MatcherConstants DEF Ids
      <4>3. PICK cap, titled : cap = (IF id = 0 THEN 49 ELSE 89) /\ titled \in BOOLEAN /\ titled = (id # 0)
        OBVIOUS
      <4>4. PICK confidence, decision :
              /\ confidence = IF old.confidence < cap THEN old.confidence ELSE cap
              /\ decision = IF old.decision \in {"REVIEW_NON_MOVIE", "REVIEW_MULTI_FILM"} THEN old.decision
                            ELSE "REVIEW"
        OBVIOUS
      <4>5. picked = [old EXCEPT !.id = id, !.titled = titled, !.confidence = confidence, !.decision = decision]
        BY <4>1, <4>3, <4>4 DEF Matcher!Swapped, Matcher!NoRow, Matcher!EventDecisions
      <4>6. confidence \in 0 .. 100
        <5>1. old.confidence \in 0 .. 100 /\ cap \in {49, 89}
          BY <2>2, <4>3 DEF Results
        <5> QED BY <4>4, <5>1
      <4>7. decision \in {"REVIEW", "REVIEW_NON_MOVIE", "REVIEW_MULTI_FILM"}
        BY <4>4
      <4>8. picked \in Results /\ picked.id = id /\ picked.decision = decision
        BY <2>2, <4>2, <4>3, <4>5, <4>6, <4>7 DEF Results
      <4> QED BY <4>2, <4>7, <4>8
    <3>2. CASE m.mode = "enforce" /\ ~rejected
      <4>1. picked = old
        BY <2>4, <3>2
      <4> QED BY <2>2, <2>3, <3>2, <4>1
    <3>3. CASE m.mode # "enforce"
      <4>1. picked = old
        BY <2>4, <3>3
      <4> QED BY <2>2, <3>3, <4>1
    <3> QED BY <3>1, <3>2, <3>3
  <2>6. PICK res : res = [picked EXCEPT !.runners = {}]
    OBVIOUS
  <2>7. /\ res \in Results /\ res.id = picked.id /\ res.decision = picked.decision
        /\ res.confidence = picked.confidence
    BY <2>5, <2>6 DEF Results
  <2>8. Changed(m, new, next, res, m.named, blind)
    BY <1>2, <2>1, <2>6 DEF Changed, Matches
  <2>9. EndorsedResult(m, res, m.named)
    <3>1. EndorsedResult(m, old, m.named)
      BY <1>2, <2>2 DEF MatcherOK
    <3>2. CASE picked = old
      BY <2>7, <3>1, <3>2 DEF EndorsedResult
    <3>3. CASE picked.decision # "AUTO_ACCEPT"
      BY <2>7, <3>3 DEF EndorsedResult
    <3> QED BY <2>5, <3>2, <3>3
  <2>10. CleanResult(m, res, blind)
    BY <2>5, <2>7 DEF CleanResult
  <2>11. next \in {"guard", "verify", "lookup", "done"}
    OBVIOUS
  <2> QED BY <1>2, <2>7, <2>8, <2>9, <2>10, <2>11, ResultChanges
<1>12. ASSUME m.phase = "verify", m.variant = "intl2", new = [m EXCEPT !.phase = "lookup"]
       PROVE  MatcherOK(new)
  <2>1. Changed(m, new, "lookup", m.result, m.named, m.blind)
    BY <1>2, <1>12 DEF Changed, Matches
  <2>2. CleanResult(m, m.result, m.blind) /\ EndorsedResult(m, m.result, m.named)
    BY <1>2, <1>12 DEF MatcherOK
  <2> QED BY <1>2, <2>1, <2>2, ResultChanges
<1>13. ASSUME Matcher!Unverified
       PROVE  MatcherOK(new)
  BY <1>1, <1>3, <1>12, <1>13 DEF Matcher!Unverified, Matcher!At, Matcher!Intl
<1>14. ASSUME Matcher!VerifyCandidatePick
       PROVE  MatcherOK(new)
  <2>1. m.phase = "verify" /\ m.variant = "intl2"
    BY <1>1, <1>14 DEF Matcher!VerifyCandidatePick, Matcher!At, Matcher!Intl
  <2>2. ASSUME NEW verdict \in {"CONFIRM", "OVERRULE", "NO_DB_MATCH"}, NEW id \in Ids, NEW titled \in BOOLEAN,
               NEW confidence \in Matcher!VerdictConfidences,
               new = [m EXCEPT !.phase = "lookup",
                               !.result = Matcher!MergeRerank(m.result, verdict, id, titled, confidence)]
        PROVE  MatcherOK(new)
    <3>1. PICK old \in Results, blind \in SUBSET Titles : old = m.result /\ blind = m.blind
      BY <1>2 DEF Matches
    <3>2. PICK res : res = Matcher!MergeRerank(old, verdict, id, titled, confidence)
      OBVIOUS
    <3>3. Changed(m, new, "lookup", res, m.named, blind)
      BY <1>2, <2>2, <3>1, <3>2 DEF Changed, Matches
    <3>4. confidence \in 0 .. 100
      BY MatcherConstants DEF Matcher!VerdictConfidences, Matcher!VerdictCap
    <3>5. PICK judged : judged = Matcher!Judged(old, confidence)
      OBVIOUS
    <3>6. /\ judged \in Results /\ judged.id = old.id
          /\ judged.decision = "AUTO_ACCEPT" => judged.confidence >= 90
      <4>1. PICK decision : decision = IF old.decision \in {"REVIEW_NON_MOVIE", "REVIEW_MULTI_FILM"}
                                         THEN old.decision ELSE Matcher!ByConfidence(confidence)
        OBVIOUS
      <4>2. judged = [old EXCEPT !.confidence = confidence, !.decision = decision]
        BY <3>5, <4>1 DEF Matcher!Judged, Matcher!EventDecisions
      <4>3. /\ decision \in {"AUTO_ACCEPT", "REVIEW", "REVIEW_NON_MOVIE", "REVIEW_MULTI_FILM"}
            /\ decision = "AUTO_ACCEPT" => confidence >= 90
        BY <4>1 DEF Matcher!ByConfidence, Matcher!AutoAccept
      <4> QED BY <3>1, <3>4, <4>2, <4>3 DEF Results
    <3>7. Matcher!CandidateIds = m.found \cup m.listed \cup {0}
      BY <1>1 DEF Matcher!CandidateIds, Matcher!NoRow
    <3>8. \/ res = old
          \/ res = judged
          \/ id \in Matcher!CandidateIds /\ \E t \in BOOLEAN : res = [judged EXCEPT !.id = id, !.titled = t]
          \/ \E t \in BOOLEAN : res = [old EXCEPT !.id = 0, !.titled = t, !.confidence = confidence]
      <4>1. CASE id \notin Matcher!CandidateIds
        BY <3>2, <4>1 DEF Matcher!MergeRerank
      <4>2. CASE id \in Matcher!CandidateIds /\ verdict = "CONFIRM"
        BY <3>2, <3>5, <4>2 DEF Matcher!MergeRerank
      <4>3. CASE id \in Matcher!CandidateIds /\ verdict = "OVERRULE"
        <5>1. judged.titled \/ titled \in BOOLEAN
          OBVIOUS
        <5>2. res = [judged EXCEPT !.id = id, !.titled = judged.titled \/ titled]
          BY <3>2, <3>5, <4>3 DEF Matcher!MergeRerank
        <5> QED BY <4>3, <5>1, <5>2
      <4>4. CASE id \in Matcher!CandidateIds /\ verdict = "NO_DB_MATCH"
        <5>1. res = [old EXCEPT !.id = 0, !.titled = old.titled \/ titled, !.confidence = confidence]
          BY <3>2, <4>4 DEF Matcher!MergeRerank, Matcher!NoRow
        <5> QED BY <5>1
      <4> QED BY <4>1, <4>2, <4>3, <4>4
    <3>9. /\ m.kind \in [Titles -> {"fit", "refused", "odd", "far"}]
          /\ \A i \in m.found \cup m.listed : i \in Titles /\ m.kind[i] # "refused"
      BY <1>2, <2>1 DEF Matches, MatcherOK, Scoped
    <3>10. CleanResult(m, old, blind) /\ EndorsedResult(m, old, m.named)
      BY <1>2, <2>1, <3>1 DEF MatcherOK
    <3>11. 0 \notin Titles
      BY MatcherConstants
    <3>12. ASSUME res \in Results, CleanResult(m, res, blind), EndorsedResult(m, res, m.named)
           PROVE  MatcherOK(new)
      BY <1>2, <3>1, <3>3, <3>12, ResultChanges
    <3>13. CASE res = old
      BY <3>1, <3>10, <3>12, <3>13
    <3>14. CASE res = judged
      <4>1. CleanResult(m, judged, blind)
        BY <3>6, <3>10 DEF CleanResult
      <4>2. EndorsedResult(m, judged, m.named)
        BY <2>1, <3>6 DEF EndorsedResult
      <4> QED BY <3>6, <3>12, <3>14, <4>1, <4>2
    <3>15. ASSUME id \in Matcher!CandidateIds, NEW t \in BOOLEAN, res = [judged EXCEPT !.id = id, !.titled = t]
           PROVE  MatcherOK(new)
      <4>1. /\ res \in Results /\ res.id = id /\ res.decision = judged.decision
            /\ res.confidence = judged.confidence
        BY <2>2, <3>6, <3>15 DEF Results
      <4>2. ~(id \in Titles /\ m.kind[id] = "refused")
        BY <3>7, <3>9, <3>11, <3>15
      <4>3. CleanResult(m, res, blind) /\ EndorsedResult(m, res, m.named)
        BY <2>1, <3>6, <4>1, <4>2 DEF CleanResult, EndorsedResult
      <4> QED BY <3>12, <4>1, <4>3
    <3>16. ASSUME NEW t \in BOOLEAN, res = [old EXCEPT !.id = 0, !.titled = t, !.confidence = confidence]
           PROVE  MatcherOK(new)
      <4>1. res \in Results /\ res.id = 0
        <5>1. 0 \in Ids
          BY DEF Ids
        <5> QED BY <3>1, <3>4, <3>16, <5>1 DEF Results
      <4>2. CleanResult(m, res, blind) /\ EndorsedResult(m, res, m.named)
        BY <2>1, <3>11, <4>1 DEF CleanResult, EndorsedResult
      <4> QED BY <3>12, <4>1, <4>2
    <3> QED BY <3>8, <3>13, <3>14, <3>15, <3>16
  <2>3. \/ match' = [match EXCEPT !.phase = "lookup"]
        \/ \E verdict \in {"CONFIRM", "OVERRULE", "NO_DB_MATCH"}, id \in Ids, titled \in BOOLEAN,
              confidence \in Matcher!VerdictConfidences :
             match' = [match EXCEPT !.phase = "lookup",
                         !.result = Matcher!MergeRerank(match.result, verdict, id, titled, confidence)]
    <3>1. Ids = Titles \cup Ghosts \cup {Matcher!NoRow}
      BY DEF Ids, Matcher!NoRow
    <3> QED BY <1>14, <3>1, Zenon DEF Matcher!VerifyCandidatePick
  <2>4. CASE match' = [match EXCEPT !.phase = "lookup"]
    BY <1>1, <1>3, <1>12, <2>1, <2>4
  <2>5. CASE match' # [match EXCEPT !.phase = "lookup"]
    <3>1. PICK verdict \in {"CONFIRM", "OVERRULE", "NO_DB_MATCH"}, id \in Ids, titled \in BOOLEAN,
               confidence \in Matcher!VerdictConfidences :
            match' = [match EXCEPT !.phase = "lookup",
                        !.result = Matcher!MergeRerank(match.result, verdict, id, titled, confidence)]
      BY <2>3, <2>5
    <3>2. new = [m EXCEPT !.phase = "lookup",
                    !.result = Matcher!MergeRerank(m.result, verdict, id, titled, confidence)]
      BY <1>1, <1>3, <3>1
    <3> QED BY <2>2, <3>2
  <2> QED BY <2>4, <2>5
<1>15. ASSUME NEW res \in Results, m.phase = "lookup", new = [m EXCEPT !.phase = "done", !.result = res],
              \/ res = m.result
              \/ /\ m.variant # "v1" => ~(res.id \in Titles /\ m.kind[res.id] = "refused")
                 /\ res.decision = "AUTO_ACCEPT" => res.confidence >= 90 /\ m.variant # "v2"
       PROVE  MatcherOK(new)
  <2>1. Changed(m, new, "done", res, m.named, m.blind)
    BY <1>2, <1>15 DEF Changed, Matches
  <2>2. CleanResult(m, m.result, m.blind) /\ EndorsedResult(m, m.result, m.named)
    BY <1>2, <1>15 DEF MatcherOK
  <2>3. CleanResult(m, res, m.blind)
    BY <1>15, <2>2 DEF CleanResult
  <2>4. EndorsedResult(m, res, m.named)
    BY <1>15, <2>2 DEF EndorsedResult
  <2> QED BY <1>2, <1>15, <2>1, <2>3, <2>4, ResultChanges
<1>16. ASSUME Matcher!NoLookup
       PROVE  MatcherOK(new)
  <2>1. m.phase = "lookup" /\ new = [m EXCEPT !.phase = "done"]
    BY <1>1, <1>3, <1>16 DEF Matcher!NoLookup
  <2>2. m.result \in Results /\ new = [m EXCEPT !.phase = "done", !.result = m.result]
    BY <1>2, <2>1 DEF Matches
  <2> QED BY <1>15, <2>1, <2>2
\* A row the look-up finds is allowed, but in the first variant.
<1>17. ASSUME NEW hits \in SUBSET Titles, NEW id \in Matcher!Surviving(hits)
       PROVE  id \in Titles /\ (m.variant # "v1" => m.kind[id] # "refused")
  BY <1>1, <1>17 DEF Matcher!Surviving, Matcher!PostLookupSearch, Matcher!Allowed
<1>18. m.phase = "lookup" /\ new = [m EXCEPT !.phase = "done", !.result = m.result] => MatcherOK(new)
  <2>1. m.result \in Results
    BY <1>2 DEF Matches
  <2> QED BY <1>15, <2>1
<1>19. ASSUME Matcher!PostLookup
       PROVE  MatcherOK(new)
  <2>1. m.phase = "lookup" /\ m.variant = "v1" /\ m.result.id = 0
    BY <1>1, <1>19 DEF Matcher!PostLookup, Matcher!LookUp, Matcher!At, Matcher!Unmatched, Matcher!NoRow
  <2>2. PICK hits \in SUBSET Titles :
          \/ new = [m EXCEPT !.phase = "done", !.result = m.result]
          \/ \E id \in Matcher!Surviving(hits) :
               new = [m EXCEPT !.phase = "done", !.result = Matcher!ResolvedV1(m.result, id)]
    BY <1>1, <1>3, <1>19 DEF Matcher!PostLookup, Matcher!LookUp, Matcher!DbSearch
  <2>3. ASSUME NEW id \in Matcher!Surviving(hits),
               new = [m EXCEPT !.phase = "done", !.result = Matcher!ResolvedV1(m.result, id)]
        PROVE  MatcherOK(new)
    <3>1. PICK res : res = Matcher!ResolvedV1(m.result, id) /\ res = [m.result EXCEPT !.id = id]
      BY DEF Matcher!ResolvedV1
    <3>2. id \in Titles
      BY <1>17, <2>2, <2>3
    <3>3. /\ res \in Results /\ res.decision = m.result.decision /\ res.confidence = m.result.confidence
      BY <1>2, <3>1, <3>2 DEF Matches, Results, Ids
    <3>4. res.decision = "AUTO_ACCEPT" => res.confidence >= 90
      BY <1>2, <2>1, <3>3 DEF MatcherOK, EndorsedResult
    <3> QED BY <1>15, <2>1, <2>3, <3>1, <3>3, <3>4
  <2> QED BY <1>18, <2>1, <2>2, <2>3
<1>20. ASSUME Matcher!PostLookupV2
       PROVE  MatcherOK(new)
  <2>1. m.phase = "lookup" /\ m.variant = "v2"
    BY <1>1, <1>20 DEF Matcher!PostLookupV2, Matcher!LookUp, Matcher!At
  <2>2. PICK hits \in SUBSET Titles :
          \/ new = [m EXCEPT !.phase = "done", !.result = m.result]
          \/ \E id \in Matcher!Surviving(hits) :
               new = [m EXCEPT !.phase = "done", !.result = Matcher!ResolvedV2(m.result, id)]
    BY <1>1, <1>3, <1>20 DEF Matcher!PostLookupV2, Matcher!LookUp, Matcher!DbSearch
  <2>3. ASSUME NEW id \in Matcher!Surviving(hits),
               new = [m EXCEPT !.phase = "done", !.result = Matcher!ResolvedV2(m.result, id)]
        PROVE  MatcherOK(new)
    <3>1. PICK old \in Results : old = m.result
      BY <1>2 DEF Matches
    <3>2. id \in Titles /\ m.kind[id] # "refused"
      BY <1>17, <2>1, <2>2, <2>3
    <3>3. PICK decision : decision = IF old.decision = "AUTO_ACCEPT" THEN "REVIEW" ELSE old.decision
      OBVIOUS
    <3>4. PICK res : res = [old EXCEPT !.id = id, !.confidence = 75, !.decision = decision]
      OBVIOUS
    <3>5. Matcher!ResolvedV2(m.result, id) = res
      BY <3>1, <3>3, <3>4 DEF Matcher!ResolvedV2
    <3>6. decision \in {"REVIEW", "REVIEW_NON_MOVIE", "REVIEW_MULTI_FILM"}
      BY <3>1, <3>3 DEF Results
    <3>7. res \in Results /\ res.id = id /\ res.decision = decision
      <4>1. id \in Ids /\ 75 \in 0 .. 100
        BY <3>2 DEF Ids
      <4> QED BY <3>1, <3>4, <3>6, <4>1 DEF Results
    <3> QED BY <1>15, <2>1, <2>3, <3>2, <3>5, <3>6, <3>7
  <2> QED BY <1>18, <2>1, <2>2, <2>3
<1>21. ASSUME Matcher!PostLookupIntlV2
       PROVE  MatcherOK(new)
  <2>1. m.phase = "lookup" /\ m.variant = "intl2"
    BY <1>1, <1>21 DEF Matcher!PostLookupIntlV2, Matcher!LookUp, Matcher!At
  <2>2. PICK hits \in SUBSET Titles :
          \/ new = [m EXCEPT !.phase = "done", !.result = m.result]
          \/ \E id \in Matcher!Surviving(hits) :
               new = [m EXCEPT !.phase = "done", !.result = Matcher!ResolvedIntlV2(m.result, id)]
    <3>1. Matcher!DbSearchIntl \subseteq SUBSET Titles
      BY DEF Matcher!DbSearchIntl
    <3> QED BY <1>1, <1>3, <1>21, <3>1 DEF Matcher!PostLookupIntlV2, Matcher!LookUp
  <2>3. ASSUME NEW id \in Matcher!Surviving(hits),
               new = [m EXCEPT !.phase = "done", !.result = Matcher!ResolvedIntlV2(m.result, id)]
        PROVE  MatcherOK(new)
    <3>1. PICK old \in Results : old = m.result
      BY <1>2 DEF Matches
    <3>2. id \in Titles /\ m.kind[id] # "refused"
      BY <1>17, <2>1, <2>2, <2>3
    <3>3. PICK decision : decision = IF old.decision = "REVIEW" THEN "AUTO_ACCEPT" ELSE old.decision
      OBVIOUS
    <3>4. PICK res : res = [old EXCEPT !.id = id, !.confidence = 90, !.decision = decision]
      OBVIOUS
    <3>5. Matcher!ResolvedIntlV2(m.result, id) = res
      BY <3>1, <3>3, <3>4 DEF Matcher!ResolvedIntlV2
    <3>6. decision \in {"AUTO_ACCEPT", "REVIEW", "REVIEW_NON_MOVIE", "REVIEW_MULTI_FILM"}
      BY <3>1, <3>3 DEF Results
    <3>7. res \in Results /\ res.id = id /\ res.confidence = 90
      <4>1. id \in Ids /\ 90 \in 0 .. 100
        BY <3>2 DEF Ids
      <4> QED BY <3>1, <3>4, <3>6, <4>1 DEF Results
    <3>8. res.confidence >= 90
      BY <3>7
    <3> QED BY <1>15, <2>1, <2>3, <3>2, <3>5, <3>7, <3>8
  <2> QED BY <1>18, <2>1, <2>2, <2>3
<1> QED
  <2>1. Matcher!CallSandbox \/ Matcher!CallSandboxIntl => MatcherOK(new)
    BY <1>7 DEF Matcher!CallSandbox, Matcher!CallSandboxIntl
  <2>2. Matcher!Retry \/ Matcher!RetryIntl => MatcherOK(new)
    BY <1>8 DEF Matcher!Retry, Matcher!RetryIntl
  <2>3. Matcher!MatchSingleFails \/ Matcher!MatchSingleV2Fails \/ Matcher!MatchSingleIntlV2Fails => MatcherOK(new)
    BY <1>9 DEF Matcher!MatchSingleFails, Matcher!MatchSingleV2Fails, Matcher!MatchSingleIntlV2Fails
  <2>4. Matcher!ApplyMetadataGuardrail \/ Matcher!ApplyCountryGuardrail => MatcherOK(new)
    BY <1>11 DEF Matcher!ApplyMetadataGuardrail, Matcher!ApplyCountryGuardrail
  <2> QED BY <1>4, <1>5, <1>10, <1>13, <1>14, <1>16, <1>19, <1>20, <1>21, <2>1, <2>2, <2>3, <2>4
          DEF Matcher!MatchNext

LEMMA MatcherStep ==
  ASSUME MatcherInv, [Next]_vars
  PROVE  MatcherInv'
<1>1. CASE OnlySingle("matcher") /\ ~UNCHANGED vars
  <2>1. Matcher!MatchNext
    BY <1>1 DEF Next, OnlyDesk, OnlyRotation, OnlyLedger, OnlySingle
  <2> QED BY <1>1, <2>1, MatcherMoves
<1>2. CASE UNCHANGED vars \/ ~OnlySingle("matcher")
  <2> SUFFICES ASSUME service' = "matcher" PROVE service = "matcher" /\ UNCHANGED match
    BY DEF MatcherInv
  <2>1. CASE UNCHANGED vars
    BY <2>1 DEF vars, singleVars
  <2>2. CASE Next
    BY <1>2, <2>2 DEF Next, vars, singleVars, OnlyDesk, OnlyRotation, OnlyLedger, OnlySingle
  <2> QED BY <2>1, <2>2
<1> QED BY <1>1, <1>2

(* With an enforcing guardrail a row it refused is not in the result,      *)
(* whichever of the guardrail's swap, the verification and the second      *)
(* look-up came last, unless the guardrail could not read that row: for    *)
(* every master table, search result and confidence.                       *)
THEOREM RefusedRowsStayOutHolds == Spec => []RefusedRowsStayOut
<1>1. MatcherInv => RefusedRowsStayOut
  BY DEF MatcherInv, MatcherOK, CleanResult, RefusedRowsStayOut, Matcher!RefusedRowsStayOut, Matcher!Kind
<1> QED BY MatcherStart, MatcherStep, <1>1, PTL DEF Spec

(* A row the matcher accepts without review has the confidence for it, and *)
(* in the domestic v2 it is the row the model named: no swap, verification *)
(* or look-up keeps the decision and replaces the row.                     *)
THEOREM AcceptedRowsAreEndorsedHolds == Spec => []AcceptedRowsAreEndorsed
<1>1. MatcherInv => AcceptedRowsAreEndorsed
  BY DEF MatcherInv, MatcherOK, EndorsedResult, AcceptedRowsAreEndorsed, Matcher!AcceptedRowsAreEndorsed,
         Matcher!AutoAccept, Matcher!NoRow
<1> QED BY MatcherStart, MatcherStep, <1>1, PTL DEF Spec

-----------------------------------------------------------------------------
(* The desks.  AmenityDeskProofs is instantiated as the desks are; that a  *)
(* handler of a desk is the step of AmenityDeskProofs is then a matter of  *)
(* the same definitions.                                                   *)

AmenityProofs == INSTANCE AmenityDeskProofs
  WITH Rows <- Uploaded["amenities"], Singles <- Typed["amenities"], KeyOf <- KeyOf["amenities"],
       Desks <- Requests["amenities"], AiModes <- {"full"},
       Reviewed <- TRUE, TidiesUp <- FALSE, RebuildAlways <- FALSE

MovieProofs == INSTANCE AmenityDeskProofs
  WITH Rows <- Uploaded["movies"], Singles <- Typed["movies"], KeyOf <- KeyOf["movies"],
       Desks <- Requests["movies"], AiModes <- {"full", "sample", "skip"},
       Reviewed <- TRUE, TidiesUp <- FALSE, RebuildAlways <- FALSE

IntlProofs == INSTANCE AmenityDeskProofs
  WITH Rows <- Uploaded["intl"], Singles <- Typed["intl"], KeyOf <- KeyOf["intl"],
       Desks <- Requests["intl"], AiModes <- {"skip"},
       Reviewed <- FALSE, TidiesUp <- TRUE, RebuildAlways <- TRUE

DesksInv ==
  /\ service = "amenities" => AmenityProofs!DeskInv
  /\ service = "movies" => MovieProofs!DeskInv
  /\ service = "intl" => IntlProofs!DeskInv

LEMMA DeskAssumptions ==
  AmenityProofs!DeskAssumption /\ MovieProofs!DeskAssumption /\ IntlProofs!DeskAssumption
BY OfficeAssumption
   DEF OfficeAssumption, AmenityProofs!DeskAssumption, MovieProofs!DeskAssumption, IntlProofs!DeskAssumption,
       Amenities!BatchAssumption, Movies!BatchAssumption, Intl!BatchAssumption, AmenityProofs!BatchAssumption,
       MovieProofs!BatchAssumption, IntlProofs!BatchAssumption, Amenities!Keys, Movies!Keys, Intl!Keys,
       AmenityProofs!Keys, MovieProofs!Keys, IntlProofs!Keys,
       Amenities!ToSet, Movies!ToSet, Intl!ToSet, AmenityProofs!ToSet, MovieProofs!ToSet, IntlProofs!ToSet,
       Amenities!IsFiniteSet, Movies!IsFiniteSet, Intl!IsFiniteSet,
       AmenityProofs!IsFiniteSet, MovieProofs!IsFiniteSet, IntlProofs!IsFiniteSet

LEMMA DeskKeysAgree ==
  Amenities!Keys = AmenityProofs!Keys /\ Movies!Keys = MovieProofs!Keys /\ Intl!Keys = IntlProofs!Keys
BY DEF Amenities!Keys, Movies!Keys, Intl!Keys, AmenityProofs!Keys, MovieProofs!Keys, IntlProofs!Keys,
       Amenities!ToSet, Movies!ToSet, Intl!ToSet, AmenityProofs!ToSet, MovieProofs!ToSet, IntlProofs!ToSet

LEMMA DesksStart == Init => DesksInv
<1>1. ASSUME Init, service = "amenities" PROVE AmenityProofs!DeskInv
  <2>1. AmenityProofs!Init
    BY <1>1
    DEF Init, 
        Amenities!Init, AmenityProofs!Init, Amenities!BatchInit, AmenityProofs!BatchInit,
        Amenities!NoBatch, AmenityProofs!NoBatch, Amenities!Absent, AmenityProofs!Absent,
        Amenities!NoRequest, AmenityProofs!NoRequest, Amenities!Nobody, AmenityProofs!Nobody,
        Amenities!Keys, AmenityProofs!Keys, Amenities!ToSet, AmenityProofs!ToSet, Amenities!Ids, AmenityProofs!Ids
  <2> QED BY <2>1, DeskAssumptions, AmenityProofs!DeskStart
<1>2. ASSUME Init, service = "movies" PROVE MovieProofs!DeskInv
  <2>1. MovieProofs!Init
    BY <1>2
    DEF Init, Movies!MovieInit, 
        Movies!Init, MovieProofs!Init, Movies!BatchInit, MovieProofs!BatchInit, Movies!NoBatch,
        MovieProofs!NoBatch, Movies!Absent, MovieProofs!Absent, Movies!NoRequest,
        MovieProofs!NoRequest, Movies!Nobody, MovieProofs!Nobody, Movies!Keys, MovieProofs!Keys, Movies!ToSet, MovieProofs!ToSet,
        Movies!Ids, MovieProofs!Ids
  <2> QED BY <2>1, DeskAssumptions, MovieProofs!DeskStart
<1>3. ASSUME Init, service = "intl" PROVE IntlProofs!DeskInv
  <2>1. IntlProofs!Init
    BY <1>3
    DEF Init, Intl!IntlInit, 
        Intl!Init, IntlProofs!Init, Intl!BatchInit, IntlProofs!BatchInit, Intl!NoBatch,
        IntlProofs!NoBatch, Intl!Absent, IntlProofs!Absent, Intl!NoRequest, IntlProofs!NoRequest,
        Intl!Nobody, IntlProofs!Nobody, Intl!Keys, IntlProofs!Keys, Intl!ToSet, IntlProofs!ToSet, Intl!Ids, IntlProofs!Ids
  <2> QED BY <2>1, DeskAssumptions, IntlProofs!DeskStart
<1> QED BY <1>1, <1>2, <1>3 DEF DesksInv

LEMMA AmenitiesStepsAgree ==
  /\ \A p : Amenities!Upload(p) <=> AmenityProofs!Upload(p)
  /\ Amenities!Start <=> AmenityProofs!Start
  /\ Amenities!Layer1 <=> AmenityProofs!Layer1
  /\ Amenities!Prefill <=> AmenityProofs!Prefill
  /\ \A k : Amenities!Collect(k) <=> AmenityProofs!Collect(k)
  /\ Amenities!Finish <=> AmenityProofs!Finish
  /\ Amenities!SaveFails <=> AmenityProofs!SaveFails
  /\ Amenities!RunFails <=> AmenityProofs!RunFails
  /\ Amenities!Tidy <=> AmenityProofs!Tidy
  /\ \A d, p, items : Amenities!TakeItems(d, p, items) <=> AmenityProofs!TakeItems(d, p, items)
  /\ \A d, p, r : Amenities!TakeReject(d, p, r) <=> AmenityProofs!TakeReject(d, p, r)
  /\ \A d, p, op, n : Amenities!TakeMapping(d, p, op, n) <=> AmenityProofs!TakeMapping(d, p, op, n)
  /\ \A d, p : Amenities!EditAlias(d, p) <=> AmenityProofs!EditAlias(d, p)
  /\ \A d : Amenities!CommitItems(d) <=> AmenityProofs!CommitItems(d)
  /\ \A d : Amenities!CommitReject(d) <=> AmenityProofs!CommitReject(d)
  /\ \A k : Amenities!Create(k) <=> AmenityProofs!Create(k)
  /\ \A d : Amenities!CommitMapping(d) <=> AmenityProofs!CommitMapping(d)
  /\ \A d : Amenities!Refresh(d) <=> AmenityProofs!Refresh(d)
  /\ \A d : Amenities!Build(d) <=> AmenityProofs!Build(d)
  /\ \A d : Amenities!Assign(d) <=> AmenityProofs!Assign(d)
  /\ \A p, s : Amenities!DetectSingle(p, s) <=> AmenityProofs!DetectSingle(p, s)
  /\ \A p : Amenities!Restart(p) <=> AmenityProofs!Restart(p)
<1>1. \A p : Amenities!Upload(p) <=> AmenityProofs!Upload(p)
  BY DEF Amenities!Upload, AmenityProofs!Upload
<1>2. Amenities!Start <=> AmenityProofs!Start
  BY DEF Amenities!Start, AmenityProofs!Start
<1>3. Amenities!Layer1 <=> AmenityProofs!Layer1
  BY DEF Amenities!Layer1, AmenityProofs!Layer1, Amenities!Unmatched, AmenityProofs!Unmatched,
         Amenities!Cardinality, AmenityProofs!Cardinality
<1>4. Amenities!Prefill <=> AmenityProofs!Prefill
  BY DEF Amenities!Prefill, AmenityProofs!Prefill, Amenities!Keys, AmenityProofs!Keys,
         Amenities!ToSet, AmenityProofs!ToSet, Amenities!Unmatched, AmenityProofs!Unmatched,
         Amenities!RowsOf, AmenityProofs!RowsOf, Amenities!UnmatchedKeys,
         AmenityProofs!UnmatchedKeys, Amenities!Sampled, AmenityProofs!Sampled,
         Amenities!Cardinality, AmenityProofs!Cardinality
<1>5. \A k : Amenities!Collect(k) <=> AmenityProofs!Collect(k)
  BY DEF Amenities!Collect, AmenityProofs!Collect, Amenities!Unmatched, AmenityProofs!Unmatched,
         Amenities!RowsOf, AmenityProofs!RowsOf, Amenities!Cardinality, AmenityProofs!Cardinality
<1>6. Amenities!Finish <=> AmenityProofs!Finish
  BY DEF Amenities!Finish, AmenityProofs!Finish, Amenities!Written, AmenityProofs!Written,
         Amenities!WithItems, AmenityProofs!WithItems, Amenities!Misses, AmenityProofs!Misses,
         Amenities!Unmatched, AmenityProofs!Unmatched, Amenities!Cardinality,
         AmenityProofs!Cardinality
<1>7. Amenities!SaveFails <=> AmenityProofs!SaveFails
  BY DEF Amenities!SaveFails, AmenityProofs!SaveFails, Amenities!Written, AmenityProofs!Written,
         Amenities!WithItems, AmenityProofs!WithItems, Amenities!Misses, AmenityProofs!Misses,
         Amenities!Unmatched, AmenityProofs!Unmatched, Amenities!Cardinality,
         AmenityProofs!Cardinality, Amenities!Fault, AmenityProofs!Fault, Amenities!AfterFailure,
         AmenityProofs!AfterFailure
<1>8. Amenities!RunFails <=> AmenityProofs!RunFails
  BY DEF Amenities!RunFails, AmenityProofs!RunFails, Amenities!Fault, AmenityProofs!Fault,
         Amenities!AfterFailure, AmenityProofs!AfterFailure
<1>9. Amenities!Tidy <=> AmenityProofs!Tidy
  BY DEF Amenities!Tidy, AmenityProofs!Tidy
<1>10. \A d, p, items : Amenities!TakeItems(d, p, items) <=> AmenityProofs!TakeItems(d, p, items)
  BY DEF Amenities!TakeItems, AmenityProofs!TakeItems, Amenities!Begin, AmenityProofs!Begin,
         Amenities!Request, AmenityProofs!Request, Amenities!NoRequest, AmenityProofs!NoRequest,
         Amenities!Nobody, AmenityProofs!Nobody
<1>11. \A d, p, r : Amenities!TakeReject(d, p, r) <=> AmenityProofs!TakeReject(d, p, r)
  BY DEF Amenities!TakeReject, AmenityProofs!TakeReject, Amenities!Begin, AmenityProofs!Begin,
         Amenities!Request, AmenityProofs!Request, Amenities!NoRequest, AmenityProofs!NoRequest,
         Amenities!Nobody, AmenityProofs!Nobody, Amenities!batchVars, AmenityProofs!batchVars
<1>12. \A d, p, op, n : Amenities!TakeMapping(d, p, op, n) <=> AmenityProofs!TakeMapping(d, p, op, n)
  BY DEF Amenities!TakeMapping, AmenityProofs!TakeMapping, Amenities!Begin, AmenityProofs!Begin,
         Amenities!Request, AmenityProofs!Request, Amenities!NoRequest, AmenityProofs!NoRequest,
         Amenities!Nobody, AmenityProofs!Nobody, Amenities!batchVars, AmenityProofs!batchVars
<1>13. \A d, p : Amenities!EditAlias(d, p) <=> AmenityProofs!EditAlias(d, p)
  BY DEF Amenities!EditAlias, AmenityProofs!EditAlias, Amenities!Begin, AmenityProofs!Begin,
         Amenities!Request, AmenityProofs!Request, Amenities!NoRequest, AmenityProofs!NoRequest,
         Amenities!Nobody, AmenityProofs!Nobody, Amenities!batchVars, AmenityProofs!batchVars
<1>14. \A d : Amenities!CommitItems(d) <=> AmenityProofs!CommitItems(d)
  BY DEF Amenities!CommitItems, AmenityProofs!CommitItems, Amenities!NewIds, AmenityProofs!NewIds,
         Amenities!FreeIds, AmenityProofs!FreeIds, Amenities!Ids, AmenityProofs!Ids
<1>15. \A d : Amenities!CommitReject(d) <=> AmenityProofs!CommitReject(d)
  BY DEF Amenities!CommitReject, AmenityProofs!CommitReject, Amenities!NoRequest,
         AmenityProofs!NoRequest, Amenities!Nobody, AmenityProofs!Nobody
<1>16. \A k : Amenities!Create(k) <=> AmenityProofs!Create(k)
  BY DEF Amenities!Create, AmenityProofs!Create, Amenities!FreeIds, AmenityProofs!FreeIds,
         Amenities!Ids, AmenityProofs!Ids, Amenities!batchVars, AmenityProofs!batchVars
<1>17. \A d : Amenities!CommitMapping(d) <=> AmenityProofs!CommitMapping(d)
  BY DEF Amenities!CommitMapping, AmenityProofs!CommitMapping, Amenities!MappingOps,
         AmenityProofs!MappingOps, Amenities!StatusAfter, AmenityProofs!StatusAfter,
         Amenities!Writes, AmenityProofs!Writes, Amenities!After, AmenityProofs!After,
         Amenities!Noted, AmenityProofs!Noted, Amenities!NextStep, AmenityProofs!NextStep,
         Amenities!Committed, AmenityProofs!Committed, Amenities!NoRequest, AmenityProofs!NoRequest,
         Amenities!Nobody, AmenityProofs!Nobody, Amenities!batchVars, AmenityProofs!batchVars
<1>18. \A d : Amenities!Build(d) <=> AmenityProofs!Build(d)
  BY DEF Amenities!Build, AmenityProofs!Build, Amenities!Approved, AmenityProofs!Approved,
         Amenities!Ids, AmenityProofs!Ids, Amenities!batchVars, AmenityProofs!batchVars
<1>19. \A d : Amenities!Assign(d) <=> AmenityProofs!Assign(d)
  BY DEF Amenities!Assign, AmenityProofs!Assign, Amenities!NoRequest, AmenityProofs!NoRequest,
         Amenities!Nobody, AmenityProofs!Nobody
<1>20. \A p, s : Amenities!DetectSingle(p, s) <=> AmenityProofs!DetectSingle(p, s)
  BY DEF Amenities!DetectSingle, AmenityProofs!DetectSingle, Amenities!WithItems,
         AmenityProofs!WithItems, Amenities!deskVars, AmenityProofs!deskVars
<1>21. \A p : Amenities!Restart(p) <=> AmenityProofs!Restart(p)
  BY DEF Amenities!Restart, AmenityProofs!Restart, Amenities!Fault, AmenityProofs!Fault,
         Amenities!Stopped, AmenityProofs!Stopped, Amenities!NoRequest, AmenityProofs!NoRequest,
         Amenities!Nobody, AmenityProofs!Nobody, Amenities!Approved, AmenityProofs!Approved,
         Amenities!Ids, AmenityProofs!Ids
<1>22. \A d : Amenities!Refresh(d) <=> AmenityProofs!Refresh(d)
  BY DEF Amenities!Refresh, AmenityProofs!Refresh, Amenities!NoRequest, AmenityProofs!NoRequest,
         Amenities!Nobody, AmenityProofs!Nobody, Amenities!batchVars, AmenityProofs!batchVars
<1> QED
  BY <1>1, <1>2, <1>3, <1>4, <1>5, <1>6, <1>7, <1>8, <1>9, <1>10, <1>11,
     <1>12, <1>13, <1>14, <1>15, <1>16, <1>17, <1>18, <1>19, <1>20, <1>21, <1>22

LEMMA MoviesStepsAgree ==
  /\ \A p : Movies!Upload(p) <=> MovieProofs!Upload(p)
  /\ Movies!Start <=> MovieProofs!Start
  /\ Movies!Layer1 <=> MovieProofs!Layer1
  /\ Movies!Prefill <=> MovieProofs!Prefill
  /\ \A k : Movies!Collect(k) <=> MovieProofs!Collect(k)
  /\ Movies!Finish <=> MovieProofs!Finish
  /\ Movies!SaveFails <=> MovieProofs!SaveFails
  /\ Movies!RunFails <=> MovieProofs!RunFails
  /\ Movies!Tidy <=> MovieProofs!Tidy
  /\ \A d, p, items : Movies!TakeItems(d, p, items) <=> MovieProofs!TakeItems(d, p, items)
  /\ \A d, p, r : Movies!TakeReject(d, p, r) <=> MovieProofs!TakeReject(d, p, r)
  /\ \A d, p, op, n : Movies!TakeMapping(d, p, op, n) <=> MovieProofs!TakeMapping(d, p, op, n)
  /\ \A d, p : Movies!EditAlias(d, p) <=> MovieProofs!EditAlias(d, p)
  /\ \A d : Movies!CommitItems(d) <=> MovieProofs!CommitItems(d)
  /\ \A d : Movies!CommitReject(d) <=> MovieProofs!CommitReject(d)
  /\ \A k : Movies!Create(k) <=> MovieProofs!Create(k)
  /\ \A d : Movies!CommitMapping(d) <=> MovieProofs!CommitMapping(d)
  /\ \A d : Movies!Refresh(d) <=> MovieProofs!Refresh(d)
  /\ \A d : Movies!Build(d) <=> MovieProofs!Build(d)
  /\ \A d : Movies!Assign(d) <=> MovieProofs!Assign(d)
  /\ \A p, s : Movies!DetectSingle(p, s) <=> MovieProofs!DetectSingle(p, s)
  /\ \A p : Movies!Restart(p) <=> MovieProofs!Restart(p)
<1>1. \A p : Movies!Upload(p) <=> MovieProofs!Upload(p)
  BY DEF Movies!Upload, MovieProofs!Upload
<1>2. Movies!Start <=> MovieProofs!Start
  BY DEF Movies!Start, MovieProofs!Start
<1>3. Movies!Layer1 <=> MovieProofs!Layer1
  BY DEF Movies!Layer1, MovieProofs!Layer1, Movies!Unmatched, MovieProofs!Unmatched,
         Movies!Cardinality, MovieProofs!Cardinality
<1>4. Movies!Prefill <=> MovieProofs!Prefill
  BY DEF Movies!Prefill, MovieProofs!Prefill, Movies!Keys, MovieProofs!Keys, Movies!ToSet,
         MovieProofs!ToSet, Movies!Unmatched, MovieProofs!Unmatched, Movies!RowsOf,
         MovieProofs!RowsOf, Movies!UnmatchedKeys, MovieProofs!UnmatchedKeys, Movies!Sampled,
         MovieProofs!Sampled, Movies!Cardinality, MovieProofs!Cardinality
<1>5. \A k : Movies!Collect(k) <=> MovieProofs!Collect(k)
  BY DEF Movies!Collect, MovieProofs!Collect, Movies!Unmatched, MovieProofs!Unmatched,
         Movies!RowsOf, MovieProofs!RowsOf, Movies!Cardinality, MovieProofs!Cardinality
<1>6. Movies!Finish <=> MovieProofs!Finish
  BY DEF Movies!Finish, MovieProofs!Finish, Movies!Written, MovieProofs!Written, Movies!WithItems,
         MovieProofs!WithItems, Movies!Misses, MovieProofs!Misses, Movies!Unmatched,
         MovieProofs!Unmatched, Movies!Cardinality, MovieProofs!Cardinality
<1>7. Movies!SaveFails <=> MovieProofs!SaveFails
  BY DEF Movies!SaveFails, MovieProofs!SaveFails, Movies!Written, MovieProofs!Written,
         Movies!WithItems, MovieProofs!WithItems, Movies!Misses, MovieProofs!Misses,
         Movies!Unmatched, MovieProofs!Unmatched, Movies!Cardinality, MovieProofs!Cardinality,
         Movies!Fault, MovieProofs!Fault, Movies!AfterFailure, MovieProofs!AfterFailure
<1>8. Movies!RunFails <=> MovieProofs!RunFails
  BY DEF Movies!RunFails, MovieProofs!RunFails, Movies!Fault, MovieProofs!Fault,
         Movies!AfterFailure, MovieProofs!AfterFailure
<1>9. Movies!Tidy <=> MovieProofs!Tidy
  BY DEF Movies!Tidy, MovieProofs!Tidy
<1>10. \A d, p, items : Movies!TakeItems(d, p, items) <=> MovieProofs!TakeItems(d, p, items)
  BY DEF Movies!TakeItems, MovieProofs!TakeItems, Movies!Begin, MovieProofs!Begin, Movies!Request,
         MovieProofs!Request, Movies!NoRequest, MovieProofs!NoRequest, Movies!Nobody,
         MovieProofs!Nobody
<1>11. \A d, p, r : Movies!TakeReject(d, p, r) <=> MovieProofs!TakeReject(d, p, r)
  BY DEF Movies!TakeReject, MovieProofs!TakeReject, Movies!Begin, MovieProofs!Begin,
         Movies!Request, MovieProofs!Request, Movies!NoRequest, MovieProofs!NoRequest,
         Movies!Nobody, MovieProofs!Nobody, Movies!batchVars, MovieProofs!batchVars
<1>12. \A d, p, op, n : Movies!TakeMapping(d, p, op, n) <=> MovieProofs!TakeMapping(d, p, op, n)
  BY DEF Movies!TakeMapping, MovieProofs!TakeMapping, Movies!Begin, MovieProofs!Begin,
         Movies!Request, MovieProofs!Request, Movies!NoRequest, MovieProofs!NoRequest,
         Movies!Nobody, MovieProofs!Nobody, Movies!batchVars, MovieProofs!batchVars
<1>13. \A d, p : Movies!EditAlias(d, p) <=> MovieProofs!EditAlias(d, p)
  BY DEF Movies!EditAlias, MovieProofs!EditAlias, Movies!Begin, MovieProofs!Begin, Movies!Request,
         MovieProofs!Request, Movies!NoRequest, MovieProofs!NoRequest, Movies!Nobody,
         MovieProofs!Nobody, Movies!batchVars, MovieProofs!batchVars
<1>14. \A d : Movies!CommitItems(d) <=> MovieProofs!CommitItems(d)
  BY DEF Movies!CommitItems, MovieProofs!CommitItems, Movies!NewIds, MovieProofs!NewIds,
         Movies!FreeIds, MovieProofs!FreeIds, Movies!Ids, MovieProofs!Ids
<1>15. \A d : Movies!CommitReject(d) <=> MovieProofs!CommitReject(d)
  BY DEF Movies!CommitReject, MovieProofs!CommitReject, Movies!NoRequest, MovieProofs!NoRequest,
         Movies!Nobody, MovieProofs!Nobody
<1>16. \A k : Movies!Create(k) <=> MovieProofs!Create(k)
  BY DEF Movies!Create, MovieProofs!Create, Movies!FreeIds, MovieProofs!FreeIds, Movies!Ids,
         MovieProofs!Ids, Movies!batchVars, MovieProofs!batchVars
<1>17. \A d : Movies!CommitMapping(d) <=> MovieProofs!CommitMapping(d)
  BY DEF Movies!CommitMapping, MovieProofs!CommitMapping, Movies!MappingOps, MovieProofs!MappingOps,
         Movies!StatusAfter, MovieProofs!StatusAfter, Movies!Writes, MovieProofs!Writes,
         Movies!After, MovieProofs!After, Movies!Noted, MovieProofs!Noted, Movies!NextStep,
         MovieProofs!NextStep, Movies!Committed, MovieProofs!Committed, Movies!NoRequest,
         MovieProofs!NoRequest, Movies!Nobody, MovieProofs!Nobody, Movies!batchVars,
         MovieProofs!batchVars
<1>18. \A d : Movies!Build(d) <=> MovieProofs!Build(d)
  BY DEF Movies!Build, MovieProofs!Build, Movies!Approved, MovieProofs!Approved, Movies!Ids,
         MovieProofs!Ids, Movies!batchVars, MovieProofs!batchVars
<1>19. \A d : Movies!Assign(d) <=> MovieProofs!Assign(d)
  BY DEF Movies!Assign, MovieProofs!Assign, Movies!NoRequest, MovieProofs!NoRequest, Movies!Nobody,
         MovieProofs!Nobody
<1>20. \A p, s : Movies!DetectSingle(p, s) <=> MovieProofs!DetectSingle(p, s)
  BY DEF Movies!DetectSingle, MovieProofs!DetectSingle, Movies!WithItems, MovieProofs!WithItems,
         Movies!deskVars, MovieProofs!deskVars
<1>21. \A p : Movies!Restart(p) <=> MovieProofs!Restart(p)
  BY DEF Movies!Restart, MovieProofs!Restart, Movies!Fault, MovieProofs!Fault, Movies!Stopped,
         MovieProofs!Stopped, Movies!NoRequest, MovieProofs!NoRequest, Movies!Nobody,
         MovieProofs!Nobody, Movies!Approved, MovieProofs!Approved, Movies!Ids, MovieProofs!Ids
<1>22. \A d : Movies!Refresh(d) <=> MovieProofs!Refresh(d)
  BY DEF Movies!Refresh, MovieProofs!Refresh, Movies!NoRequest, MovieProofs!NoRequest,
         Movies!Nobody, MovieProofs!Nobody, Movies!batchVars, MovieProofs!batchVars
<1> QED
  BY <1>1, <1>2, <1>3, <1>4, <1>5, <1>6, <1>7, <1>8, <1>9, <1>10, <1>11,
     <1>12, <1>13, <1>14, <1>15, <1>16, <1>17, <1>18, <1>19, <1>20, <1>21, <1>22

LEMMA IntlStepsAgree ==
  /\ \A p : Intl!Upload(p) <=> IntlProofs!Upload(p)
  /\ Intl!Start <=> IntlProofs!Start
  /\ Intl!Layer1 <=> IntlProofs!Layer1
  /\ Intl!Prefill <=> IntlProofs!Prefill
  /\ \A k : Intl!Collect(k) <=> IntlProofs!Collect(k)
  /\ Intl!Finish <=> IntlProofs!Finish
  /\ Intl!SaveFails <=> IntlProofs!SaveFails
  /\ Intl!RunFails <=> IntlProofs!RunFails
  /\ Intl!Tidy <=> IntlProofs!Tidy
  /\ \A d, p, items : Intl!TakeItems(d, p, items) <=> IntlProofs!TakeItems(d, p, items)
  /\ \A d, p, r : Intl!TakeReject(d, p, r) <=> IntlProofs!TakeReject(d, p, r)
  /\ \A d, p, op, n : Intl!TakeMapping(d, p, op, n) <=> IntlProofs!TakeMapping(d, p, op, n)
  /\ \A d, p : Intl!EditAlias(d, p) <=> IntlProofs!EditAlias(d, p)
  /\ \A d : Intl!CommitItems(d) <=> IntlProofs!CommitItems(d)
  /\ \A d : Intl!CommitReject(d) <=> IntlProofs!CommitReject(d)
  /\ \A k : Intl!Create(k) <=> IntlProofs!Create(k)
  /\ \A d : Intl!CommitMapping(d) <=> IntlProofs!CommitMapping(d)
  /\ \A d : Intl!Refresh(d) <=> IntlProofs!Refresh(d)
  /\ \A d : Intl!Build(d) <=> IntlProofs!Build(d)
  /\ \A d : Intl!Assign(d) <=> IntlProofs!Assign(d)
  /\ \A p, s : Intl!DetectSingle(p, s) <=> IntlProofs!DetectSingle(p, s)
  /\ \A p : Intl!Restart(p) <=> IntlProofs!Restart(p)
<1>1. \A p : Intl!Upload(p) <=> IntlProofs!Upload(p)
  BY DEF Intl!Upload, IntlProofs!Upload
<1>2. Intl!Start <=> IntlProofs!Start
  BY DEF Intl!Start, IntlProofs!Start
<1>3. Intl!Layer1 <=> IntlProofs!Layer1
  BY DEF Intl!Layer1, IntlProofs!Layer1, Intl!Unmatched, IntlProofs!Unmatched, Intl!Cardinality,
         IntlProofs!Cardinality
<1>4. Intl!Prefill <=> IntlProofs!Prefill
  BY DEF Intl!Prefill, IntlProofs!Prefill, Intl!Keys, IntlProofs!Keys, Intl!ToSet,
         IntlProofs!ToSet, Intl!Unmatched, IntlProofs!Unmatched, Intl!RowsOf, IntlProofs!RowsOf,
         Intl!UnmatchedKeys, IntlProofs!UnmatchedKeys, Intl!Sampled, IntlProofs!Sampled,
         Intl!Cardinality, IntlProofs!Cardinality
<1>5. \A k : Intl!Collect(k) <=> IntlProofs!Collect(k)
  BY DEF Intl!Collect, IntlProofs!Collect, Intl!Unmatched, IntlProofs!Unmatched, Intl!RowsOf,
         IntlProofs!RowsOf, Intl!Cardinality, IntlProofs!Cardinality
<1>6. Intl!Finish <=> IntlProofs!Finish
  BY DEF Intl!Finish, IntlProofs!Finish, Intl!Written, IntlProofs!Written, Intl!WithItems,
         IntlProofs!WithItems, Intl!Misses, IntlProofs!Misses, Intl!Unmatched,
         IntlProofs!Unmatched, Intl!Cardinality, IntlProofs!Cardinality
<1>7. Intl!SaveFails <=> IntlProofs!SaveFails
  BY DEF Intl!SaveFails, IntlProofs!SaveFails, Intl!Written, IntlProofs!Written, Intl!WithItems,
         IntlProofs!WithItems, Intl!Misses, IntlProofs!Misses, Intl!Unmatched,
         IntlProofs!Unmatched, Intl!Cardinality, IntlProofs!Cardinality, Intl!Fault,
         IntlProofs!Fault, Intl!AfterFailure, IntlProofs!AfterFailure
<1>8. Intl!RunFails <=> IntlProofs!RunFails
  BY DEF Intl!RunFails, IntlProofs!RunFails, Intl!Fault, IntlProofs!Fault, Intl!AfterFailure,
         IntlProofs!AfterFailure
<1>9. Intl!Tidy <=> IntlProofs!Tidy
  BY DEF Intl!Tidy, IntlProofs!Tidy
<1>10. \A d, p, items : Intl!TakeItems(d, p, items) <=> IntlProofs!TakeItems(d, p, items)
  BY DEF Intl!TakeItems, IntlProofs!TakeItems, Intl!Begin, IntlProofs!Begin, Intl!Request,
         IntlProofs!Request, Intl!NoRequest, IntlProofs!NoRequest, Intl!Nobody, IntlProofs!Nobody
<1>11. \A d, p, r : Intl!TakeReject(d, p, r) <=> IntlProofs!TakeReject(d, p, r)
  BY DEF Intl!TakeReject, IntlProofs!TakeReject, Intl!Begin, IntlProofs!Begin, Intl!Request,
         IntlProofs!Request, Intl!NoRequest, IntlProofs!NoRequest, Intl!Nobody, IntlProofs!Nobody,
         Intl!batchVars, IntlProofs!batchVars
<1>12. \A d, p, op, n : Intl!TakeMapping(d, p, op, n) <=> IntlProofs!TakeMapping(d, p, op, n)
  BY DEF Intl!TakeMapping, IntlProofs!TakeMapping, Intl!Begin, IntlProofs!Begin, Intl!Request,
         IntlProofs!Request, Intl!NoRequest, IntlProofs!NoRequest, Intl!Nobody, IntlProofs!Nobody,
         Intl!batchVars, IntlProofs!batchVars
<1>13. \A d, p : Intl!EditAlias(d, p) <=> IntlProofs!EditAlias(d, p)
  BY DEF Intl!EditAlias, IntlProofs!EditAlias, Intl!Begin, IntlProofs!Begin, Intl!Request,
         IntlProofs!Request, Intl!NoRequest, IntlProofs!NoRequest, Intl!Nobody, IntlProofs!Nobody,
         Intl!batchVars, IntlProofs!batchVars
<1>14. \A d : Intl!CommitItems(d) <=> IntlProofs!CommitItems(d)
  BY DEF Intl!CommitItems, IntlProofs!CommitItems, Intl!NewIds, IntlProofs!NewIds, Intl!FreeIds,
         IntlProofs!FreeIds, Intl!Ids, IntlProofs!Ids
<1>15. \A d : Intl!CommitReject(d) <=> IntlProofs!CommitReject(d)
  BY DEF Intl!CommitReject, IntlProofs!CommitReject, Intl!NoRequest, IntlProofs!NoRequest,
         Intl!Nobody, IntlProofs!Nobody
<1>16. \A k : Intl!Create(k) <=> IntlProofs!Create(k)
  BY DEF Intl!Create, IntlProofs!Create, Intl!FreeIds, IntlProofs!FreeIds, Intl!Ids,
         IntlProofs!Ids, Intl!batchVars, IntlProofs!batchVars
<1>17. \A d : Intl!CommitMapping(d) <=> IntlProofs!CommitMapping(d)
  BY DEF Intl!CommitMapping, IntlProofs!CommitMapping, Intl!MappingOps, IntlProofs!MappingOps,
         Intl!StatusAfter, IntlProofs!StatusAfter, Intl!Writes, IntlProofs!Writes, Intl!After,
         IntlProofs!After, Intl!Noted, IntlProofs!Noted, Intl!NextStep, IntlProofs!NextStep,
         Intl!Committed, IntlProofs!Committed, Intl!NoRequest, IntlProofs!NoRequest, Intl!Nobody,
         IntlProofs!Nobody, Intl!batchVars, IntlProofs!batchVars
<1>18. \A d : Intl!Build(d) <=> IntlProofs!Build(d)
  BY DEF Intl!Build, IntlProofs!Build, Intl!Approved, IntlProofs!Approved, Intl!Ids,
         IntlProofs!Ids, Intl!batchVars, IntlProofs!batchVars
<1>19. \A d : Intl!Assign(d) <=> IntlProofs!Assign(d)
  BY DEF Intl!Assign, IntlProofs!Assign, Intl!NoRequest, IntlProofs!NoRequest, Intl!Nobody,
         IntlProofs!Nobody
<1>20. \A p, s : Intl!DetectSingle(p, s) <=> IntlProofs!DetectSingle(p, s)
  BY DEF Intl!DetectSingle, IntlProofs!DetectSingle, Intl!WithItems, IntlProofs!WithItems,
         Intl!deskVars, IntlProofs!deskVars
<1>21. \A p : Intl!Restart(p) <=> IntlProofs!Restart(p)
  BY DEF Intl!Restart, IntlProofs!Restart, Intl!Fault, IntlProofs!Fault, Intl!Stopped,
         IntlProofs!Stopped, Intl!NoRequest, IntlProofs!NoRequest, Intl!Nobody, IntlProofs!Nobody,
         Intl!Approved, IntlProofs!Approved, Intl!Ids, IntlProofs!Ids
<1>22. \A d : Intl!Refresh(d) <=> IntlProofs!Refresh(d)
  BY DEF Intl!Refresh, IntlProofs!Refresh, Intl!NoRequest, IntlProofs!NoRequest, Intl!Nobody,
         IntlProofs!Nobody, Intl!batchVars, IntlProofs!batchVars
<1> QED
  BY <1>1, <1>2, <1>3, <1>4, <1>5, <1>6, <1>7, <1>8, <1>9, <1>10, <1>11,
     <1>12, <1>13, <1>14, <1>15, <1>16, <1>17, <1>18, <1>19, <1>20, <1>21, <1>22

LEMMA AmenitiesMove ==
  ASSUME AmenityProofs!DeskInv, Amenities!Next
  PROVE  AmenityProofs!DeskInv'
<1>1. CASE Amenities!BatchNext /\ UNCHANGED Amenities!deskVars
  <2>1. AmenityProofs!BatchNext
    BY <1>1, AmenitiesStepsAgree, DeskKeysAgree
       DEF Amenities!BatchNext, Amenities!BatchStep, Amenities!BatchFault,
           AmenityProofs!BatchNext, AmenityProofs!BatchStep, AmenityProofs!BatchFault
  <2>2. AmenityProofs!Next
    BY <1>1, <2>1 DEF AmenityProofs!Next, Amenities!deskVars, AmenityProofs!deskVars
  <2> QED BY <2>2, DeskAssumptions, AmenityProofs!DeskMoves
<1>2. CASE Amenities!DeskNext
  <2>1. AmenityProofs!DeskNext
    BY <1>2, AmenitiesStepsAgree, DeskKeysAgree
       DEF Amenities!DeskNext, Amenities!Serve, Amenities!Review, Amenities!Edit, Amenities!Ids, Amenities!MappingOps,
           AmenityProofs!DeskNext, AmenityProofs!Serve, AmenityProofs!Review, AmenityProofs!Edit,
           AmenityProofs!Ids, AmenityProofs!MappingOps
  <2>2. AmenityProofs!Next
    BY <2>1 DEF AmenityProofs!Next
  <2> QED BY <2>2, DeskAssumptions, AmenityProofs!DeskMoves
<1> QED BY <1>1, <1>2 DEF Amenities!Next

LEMMA MoviesMove ==
  ASSUME MovieProofs!DeskInv, Movies!MovieNext
  PROVE  MovieProofs!DeskInv'
<1>1. CASE Movies!MovieBatch /\ UNCHANGED Movies!deskVars
  <2>1. MovieProofs!BatchNext
    BY <1>1, MoviesStepsAgree, DeskKeysAgree
       DEF Movies!MovieBatch, Movies!DetectBatchMovie, Movies!RunMovieBatch, Movies!MovieLayer1,
           Movies!AskInFull, Movies!AskSample, Movies!MovieFinish,
           MovieProofs!BatchNext, MovieProofs!BatchStep, MovieProofs!BatchFault
  <2>2. MovieProofs!Next
    BY <1>1, <2>1 DEF MovieProofs!Next, Movies!deskVars, MovieProofs!deskVars
  <2> QED BY <2>2, DeskAssumptions, MovieProofs!DeskMoves
<1>2. CASE \/ \E d \in Requests["movies"] :
               \/ Movies!ApproveReviewItem(d) \/ Movies!CommitMovieFormat(d) \/ Movies!BuildMovieEngine(d)
               \/ \E p \in Procs : Movies!MovieRequest(d, p)
           \/ Movies!CreateMovieFormat
           \/ \E p \in Procs : Movies!Restart(p)
  <2>1. MovieProofs!DeskNext
    BY <1>2, MoviesStepsAgree, DeskKeysAgree
       DEF Movies!ApproveReviewItem, Movies!CommitMovieFormat, Movies!BuildMovieEngine, Movies!MovieRequest,
           Movies!TakeReviewItems, Movies!RejectReviewItem, Movies!UpdateMovieFormat, Movies!DeleteMovieFormat,
           Movies!ApproveMovieFormat, Movies!RejectMovieFormat, Movies!CreateMovieFormat, Movies!Ids,
           MovieProofs!DeskNext, MovieProofs!Serve, MovieProofs!Review, MovieProofs!Edit,
           MovieProofs!Ids, MovieProofs!MappingOps
  <2>2. MovieProofs!Next
    BY <2>1 DEF MovieProofs!Next
  <2> QED BY <2>2, DeskAssumptions, MovieProofs!DeskMoves
<1>3. ASSUME NEW p \in Procs, NEW s \in Typed["movies"], Movies!DetectSingleMovie(p, s)
      PROVE  MovieProofs!DeskInv'
  <2>1. item' = MovieProofs!WithItems({s}) /\ UNCHANGED <<engine, batch, faults, mapping, desk>>
    BY <1>3 DEF Movies!DetectSingleMovie, Movies!WithItems, MovieProofs!WithItems, Movies!deskVars
  <2>2. cache \subseteq MovieProofs!Keys
    BY DEF MovieProofs!DeskInv, MovieProofs!Typed
  <2>3. KeyOf["movies"][s] \in MovieProofs!Keys
    BY DeskAssumptions DEF MovieProofs!DeskAssumption, MovieProofs!BatchAssumption
  <2>4. cache' \subseteq MovieProofs!Keys
    BY <1>3, <2>2, <2>3 DEF Movies!DetectSingleMovie
  <2> QED BY <2>1, <2>4, DeskAssumptions, MovieProofs!SingleMoves
<1> QED BY <1>1, <1>2, <1>3 DEF Movies!MovieNext

LEMMA IntlMoves ==
  ASSUME IntlProofs!DeskInv, Intl!IntlNext
  PROVE  IntlProofs!DeskInv'
<1>1. CASE ((\E p \in Procs : Intl!DetectBatchIntl(p)) \/ Intl!RunIntlBatch \/ Intl!FinishIntl)
           /\ UNCHANGED Intl!deskVars
  <2>1. IntlProofs!BatchNext
    BY <1>1, IntlStepsAgree
       DEF Intl!DetectBatchIntl, Intl!RunIntlBatch, Intl!FinishIntl,
           IntlProofs!BatchNext, IntlProofs!BatchStep, IntlProofs!BatchFault
  <2>2. IntlProofs!Next
    BY <1>1, <2>1 DEF IntlProofs!Next, Intl!deskVars, IntlProofs!deskVars
  <2> QED BY <2>2, DeskAssumptions, IntlProofs!DeskMoves
<1>2. CASE Intl!ScanRows /\ UNCHANGED Intl!deskVars
  <2>1. IntlProofs!ScanSome(ProgressEvery)
    BY <1>2 DEF Intl!ScanRows, IntlProofs!ScanSome, Intl!Cardinality, IntlProofs!Cardinality
  <2>2. UNCHANGED <<mapping, desk>> /\ ProgressEvery \in Nat
    BY <1>2, OfficeAssumption DEF Intl!deskVars, OfficeAssumption
  <2> QED BY <2>1, <2>2, DeskAssumptions, IntlProofs!PassMoves
<1>3. CASE \/ \E d \in Requests["intl"] :
               \/ Intl!CommitIntlAmenity(d) \/ Intl!BuildIntlEngine(d)
               \/ \E p \in Procs : Intl!IntlRequest(d, p)
           \/ Intl!CreateIntlAmenity \/ Intl!ImportIntl
           \/ \E p \in Procs : Intl!Restart(p)
  <2>1. IntlProofs!DeskNext
    BY <1>3, IntlStepsAgree, DeskKeysAgree
       DEF Intl!CommitIntlAmenity, Intl!BuildIntlEngine, Intl!IntlRequest, Intl!PatchIntlAmenity,
           Intl!ApproveIntlAmenity, Intl!RejectIntlAmenity, Intl!DeleteIntlAmenity,
           Intl!CreateIntlAmenity, Intl!ImportIntl, Intl!Ids,
           IntlProofs!DeskNext, IntlProofs!Serve, IntlProofs!Review, IntlProofs!Edit,
           IntlProofs!Ids, IntlProofs!MappingOps
  <2>2. IntlProofs!Next
    BY <2>1 DEF IntlProofs!Next
  <2> QED BY <2>2, DeskAssumptions, IntlProofs!DeskMoves
<1> QED BY <1>1, <1>2, <1>3 DEF Intl!IntlNext

LEMMA DesksStep == DesksInv /\ [Next]_vars => DesksInv'
<1> SUFFICES ASSUME DesksInv, [Next]_vars PROVE DesksInv'
  OBVIOUS
<1>1. CASE UNCHANGED vars
  BY <1>1, AmenityProofs!DeskRests, MovieProofs!DeskRests, IntlProofs!DeskRests DEF DesksInv, vars, deskVars
<1>2. CASE OnlyDesk("amenities") /\ Amenities!Next
  BY <1>2, AmenitiesMove DEF DesksInv, OnlyDesk
<1>3. CASE OnlyDesk("movies") /\ Movies!MovieNext
  BY <1>3, MoviesMove DEF DesksInv, OnlyDesk
<1>4. CASE OnlyDesk("intl") /\ Intl!IntlNext
  BY <1>4, IntlMoves DEF DesksInv, OnlyDesk
<1>5. CASE OnlyRotation \/ OnlyLedger \/ \E name \in {"cascade", "matcher", "reader", "audit"} : OnlySingle(name)
  BY <1>5 DEF DesksInv, OnlyRotation, OnlyLedger, OnlySingle
<1> QED BY <1>1, <1>2, <1>3, <1>4, <1>5 DEF Next

LEMMA DesksSay ==
  ASSUME DesksInv
  PROVE  /\ OfDesk(Amenities!TypeOK, Movies!TypeOK, Intl!TypeOK)
         /\ EveryMissIsReviewed /\ ApprovalIsInTheEngine
<1>1. ASSUME service = "amenities"
      PROVE  Amenities!TypeOK /\ Amenities!EveryMissIsReviewed /\ Amenities!ApprovalIsInTheEngine
  <2>1. AmenityProofs!TypeOK /\ AmenityProofs!EveryMissIsReviewed /\ AmenityProofs!ApprovalIsInTheEngine
    BY <1>1, DeskAssumptions, AmenityProofs!DeskSays DEF DesksInv
  <2>2. Amenities!TypeOK
    BY <2>1, DeskKeysAgree
       DEF Amenities!TypeOK, AmenityProofs!TypeOK, Amenities!BatchTypeOK, AmenityProofs!BatchTypeOK,
           Amenities!Ids, AmenityProofs!Ids, Amenities!Nobody, AmenityProofs!Nobody,
           Amenities!Cardinality, AmenityProofs!Cardinality
  <2>3. Amenities!EveryMissIsReviewed
    BY <2>1 DEF Amenities!EveryMissIsReviewed, AmenityProofs!EveryMissIsReviewed, Amenities!Misses,
           AmenityProofs!Misses, Amenities!Unmatched, AmenityProofs!Unmatched,
           Amenities!Cardinality, AmenityProofs!Cardinality
  <2>4. Amenities!ApprovalIsInTheEngine
    BY <2>1 DEF Amenities!ApprovalIsInTheEngine, AmenityProofs!ApprovalIsInTheEngine, Amenities!Promised,
           AmenityProofs!Promised, Amenities!MappingOps, AmenityProofs!MappingOps
  <2> QED BY <2>2, <2>3, <2>4
<1>2. ASSUME service = "movies"
      PROVE  Movies!TypeOK /\ Movies!EveryMissIsReviewed /\ Movies!ApprovalIsInTheEngine
  <2>1. MovieProofs!TypeOK /\ MovieProofs!EveryMissIsReviewed /\ MovieProofs!ApprovalIsInTheEngine
    BY <1>2, DeskAssumptions, MovieProofs!DeskSays DEF DesksInv
  <2>2. Movies!TypeOK
    BY <2>1, DeskKeysAgree
       DEF Movies!TypeOK, MovieProofs!TypeOK, Movies!BatchTypeOK, MovieProofs!BatchTypeOK,
           Movies!Ids, MovieProofs!Ids, Movies!Nobody, MovieProofs!Nobody,
           Movies!Cardinality, MovieProofs!Cardinality
  <2>3. Movies!EveryMissIsReviewed
    BY <2>1 DEF Movies!EveryMissIsReviewed, MovieProofs!EveryMissIsReviewed, Movies!Misses,
           MovieProofs!Misses, Movies!Unmatched, MovieProofs!Unmatched,
           Movies!Cardinality, MovieProofs!Cardinality
  <2>4. Movies!ApprovalIsInTheEngine
    BY <2>1 DEF Movies!ApprovalIsInTheEngine, MovieProofs!ApprovalIsInTheEngine, Movies!Promised,
           MovieProofs!Promised, Movies!MappingOps, MovieProofs!MappingOps
  <2> QED BY <2>2, <2>3, <2>4
<1>3. ASSUME service = "intl"
      PROVE  Intl!TypeOK /\ Intl!EveryMissIsReviewed /\ Intl!ApprovalIsInTheEngine
  <2>1. IntlProofs!TypeOK /\ IntlProofs!EveryMissIsReviewed /\ IntlProofs!ApprovalIsInTheEngine
    BY <1>3, DeskAssumptions, IntlProofs!DeskSays DEF DesksInv
  <2>2. Intl!TypeOK
    BY <2>1, DeskKeysAgree
       DEF Intl!TypeOK, IntlProofs!TypeOK, Intl!BatchTypeOK, IntlProofs!BatchTypeOK,
           Intl!Ids, IntlProofs!Ids, Intl!Nobody, IntlProofs!Nobody,
           Intl!Cardinality, IntlProofs!Cardinality
  <2>3. Intl!EveryMissIsReviewed
    BY <2>1 DEF Intl!EveryMissIsReviewed, IntlProofs!EveryMissIsReviewed, Intl!Misses,
           IntlProofs!Misses, Intl!Unmatched, IntlProofs!Unmatched,
           Intl!Cardinality, IntlProofs!Cardinality
  <2>4. Intl!ApprovalIsInTheEngine
    BY <2>1 DEF Intl!ApprovalIsInTheEngine, IntlProofs!ApprovalIsInTheEngine, Intl!Promised,
           IntlProofs!Promised, Intl!MappingOps, IntlProofs!MappingOps
  <2> QED BY <2>2, <2>3, <2>4
<1>4. OfDesk(Amenities!TypeOK, Movies!TypeOK, Intl!TypeOK)
  BY <1>1, <1>2, <1>3 DEF OfDesk
<1>5. EveryMissIsReviewed
  BY <1>1, <1>2, <1>3 DEF EveryMissIsReviewed, OfDesk
<1>6. ApprovalIsInTheEngine
  BY <1>1, <1>2, <1>3 DEF ApprovalIsInTheEngine, OfDesk
<1> QED BY <1>4, <1>5, <1>6

LEMMA DesksCorrect == Spec => []DesksInv
BY DesksStart, DesksStep, PTL DEF Spec

(***************************************************************************)
(* No row is lost between a batch and the review desk: a completed job has *)
(* counted every row and left a review item for each row no keyword        *)
(* matched, and a job that failed or was cut off left all or none          *)
(* (workers/batch_worker.py, movie_batch_worker.py, intl_batch_worker.py), *)
(* for every upload, every answer of the model, fault and restart.         *)
(***************************************************************************)
THEOREM EveryMissIsReviewedHolds == Spec => []EveryMissIsReviewed
BY DesksCorrect, DesksSay, PTL

(***************************************************************************)
(* The engine a request hands to its process matches every string it       *)
(* approved and nobody took back meanwhile (routers/review.py,             *)
(* amenities.py, intl_amenities.py, movie_formats.py and their loaders),   *)
(* for any number of overlapping requests, processes and mappings.         *)
(***************************************************************************)
THEOREM ApprovalIsInTheEngineHolds == Spec => []ApprovalIsInTheEngine
BY DesksCorrect, DesksSay, PTL

-----------------------------------------------------------------------------
(* The types of the services that have no invariant above.                 *)

\* A record is one the model can give, or one with the confidence of a
\* salvaged record, which the model need not give.
Mended ==
  [condition : {"good", "damaged"}, defects : {"none", "empty", "some"}, own : {50},
   rest : ReadConfidences \cup {-1, -2}, valid : {TRUE}]

TypedReadings ==
  [step : {"fetch", "call", "parse", "store", "end"}, attempt : {0, 1}, temperature : BOOLEAN,
   record : Reader!Records \cup Mended, conflict : BOOLEAN, parsed : Reader!Records,
   status : {"dispatched", "failed", "completed"}, review : BOOLEAN]

ReadingTyped == service = "reader" => reading \in TypedReadings

LEMMA ReadingTypedStart == Init => ReadingTyped
<1> SUFFICES ASSUME Init, service = "reader" PROVE reading \in TypedReadings
  BY DEF ReadingTyped
<1>1. Reader!ReadingInit
  BY DEF Init
<1>2. PICK t \in BOOLEAN :
        reading = [step |-> "fetch", attempt |-> 0, temperature |-> t, record |-> Reader!NoRecord,
                   conflict |-> FALSE, parsed |-> Reader!NoRecord, status |-> "dispatched", review |-> FALSE]
  BY <1>1 DEF Reader!ReadingInit
<1>3. Reader!NoRecord \in Reader!Records
  BY DEF Reader!NoRecord, Reader!Records, Reader!NoValue
<1> QED BY <1>2, <1>3 DEF TypedReadings

LEMMA SalvagedTyped ==
  ASSUME NEW p \in Reader!Records, Reader!Validate(p) = {Reader!ConditionConflict}
  PROVE  Reader!SalvageConditionConflict(p) \in Reader!Records \cup Mended
<1>1. p.valid = TRUE
  BY DEF Reader!Validate, Reader!ConditionConflict, Reader!Records
<1>2. PICK condition \in {"good", "damaged"} : condition = IF p.defects = "some" THEN "damaged" ELSE "good"
  OBVIOUS
<1>3. PICK own : own = IF p.own \in ReadConfidences /\ p.own < 50 THEN p.own ELSE 50
  OBVIOUS
<1>4. own \in ReadConfidences \/ own = 50
  BY <1>3
<1>5. Reader!SalvageConditionConflict(p) = [p EXCEPT !.condition = condition, !.own = own]
  BY <1>2, <1>3 DEF Reader!SalvageConditionConflict, Reader!ConflictCap
<1>6. CASE own \in ReadConfidences
  BY <1>2, <1>5, <1>6 DEF Reader!Records
<1>7. CASE own = 50
  BY <1>1, <1>2, <1>5, <1>7 DEF Reader!Records, Mended, Reader!NoValue, Reader!Text
<1> QED BY <1>4, <1>6, <1>7

LEMMA ReadingTypedStep == ReadingTyped /\ [Next]_vars => ReadingTyped'
<1> SUFFICES ASSUME ReadingTyped, [Next]_vars, service' = "reader", NEW r, r = reading, NEW new, new = reading'
             PROVE  new \in TypedReadings
  BY DEF ReadingTyped
<1>1. service = "reader" /\ (UNCHANGED reading \/ Reader!ReadingNext)
  BY DEF Next, vars, singleVars, OnlyDesk, OnlyRotation, OnlyLedger, OnlySingle
<1>2. r \in TypedReadings
  BY <1>1 DEF ReadingTyped
<1>3. PICK failed : failed = [r EXCEPT !.step = "end", !.status = "failed"]
  OBVIOUS
<1>4. Reader!Fail = failed /\ failed \in TypedReadings
  <2>1. failed \in TypedReadings
    BY <1>2, <1>3 DEF TypedReadings
  <2> QED BY <1>3, <2>1 DEF Reader!Fail
<1>5. CASE Reader!FetchImage
  <2>1. new = failed \/ new = [r EXCEPT !.step = "call"]
    BY <1>4, <1>5 DEF Reader!FetchImage
  <2> QED BY <1>2, <1>4, <2>1 DEF TypedReadings
<1>6. CASE Reader!TemperatureRefused
  BY <1>2, <1>6 DEF Reader!TemperatureRefused, TypedReadings
<1>7. CASE Reader!CallConverse
  <2>1. PICK rec \in Reader!Records : new = [r EXCEPT !.step = "parse", !.parsed = rec]
    BY <1>7 DEF Reader!CallConverse
  <2> QED BY <1>2, <2>1 DEF TypedReadings
<1>8. CASE Reader!ReraiseClassified
  <2>1. new = failed \/ \E t \in BOOLEAN : new = [r EXCEPT !.step = "fetch", !.attempt = 0, !.temperature = t]
    BY <1>4, <1>8 DEF Reader!ReraiseClassified
  <2> QED BY <1>2, <1>4, <2>1 DEF TypedReadings
<1>9. new = [r EXCEPT !.step = "call", !.attempt = 1] => new \in TypedReadings
  BY <1>2 DEF TypedReadings
<1>10. CASE Reader!ParseResponse
  <2>1. new = failed \/ new = [r EXCEPT !.step = "call", !.attempt = 1]
    BY <1>4, <1>10 DEF Reader!ParseResponse
  <2> QED BY <1>4, <1>9, <2>1
<1>11. CASE Reader!ExtractMaterialRecord
  <2>1. PICK errs : errs = Reader!Validate(r.parsed)
    OBVIOUS
  <2>2. PICK mended : mended = Reader!SalvageConditionConflict(r.parsed)
    OBVIOUS
  <2>3. new = CASE errs = {} -> [r EXCEPT !.step = "store", !.record = r.parsed]
                [] errs = {Reader!ConditionConflict} /\ r.attempt = 1 ->
                     [r EXCEPT !.step = "store", !.conflict = TRUE, !.record = mended]
                [] errs # {} /\ r.attempt = 0 -> [r EXCEPT !.step = "call", !.attempt = 1]
                [] OTHER -> failed
    BY <1>4, <1>11, <2>1, <2>2 DEF Reader!ExtractMaterialRecord
  <2>4. r.parsed \in Reader!Records
    BY <1>2 DEF TypedReadings
  <2>5. CASE errs = {}
    <3>1. new = [r EXCEPT !.step = "store", !.record = r.parsed]
      BY <2>3, <2>5
    <3> QED BY <1>2, <2>4, <3>1 DEF TypedReadings
  <2>6. CASE errs = {Reader!ConditionConflict} /\ r.attempt = 1
    <3>1. new = [r EXCEPT !.step = "store", !.conflict = TRUE, !.record = mended]
      BY <2>3, <2>6
    <3>2. mended \in Reader!Records \cup Mended
      BY <2>1, <2>2, <2>4, <2>6, SalvagedTyped
    <3> QED BY <1>2, <3>1, <3>2 DEF TypedReadings
  <2>7. CASE errs # {} /\ ~(errs = {Reader!ConditionConflict} /\ r.attempt = 1)
    <3>1. new = [r EXCEPT !.step = "call", !.attempt = 1] \/ new = failed
      BY <2>3, <2>7
    <3> QED BY <1>4, <1>9, <3>1
  <2> QED BY <2>5, <2>6, <2>7
<1>12. CASE Reader!StoreRow
  <2>1. PICK flag : flag = Reader!RowNeedsReview(r.record)
    OBVIOUS
  <2>2. flag \in BOOLEAN
    BY <2>1 DEF Reader!RowNeedsReview
  <2>3. new = failed \/ new = [r EXCEPT !.step = "end", !.status = "completed", !.review = flag]
    BY <1>4, <1>12, <2>1 DEF Reader!StoreRow
  <2> QED BY <1>2, <1>4, <2>2, <2>3 DEF TypedReadings
<1>13. CASE UNCHANGED reading
  BY <1>2, <1>13
<1> QED BY <1>1, <1>5, <1>6, <1>7, <1>8, <1>10, <1>11, <1>12, <1>13 DEF Reader!ReadingNext

LEMMA ReadingTypedSays == ReadingTyped /\ service = "reader" => Reader!ReadingTypeOK
<1> SUFFICES ASSUME NEW r \in TypedReadings, r = reading PROVE Reader!ReadingTypeOK
  BY DEF ReadingTyped
<1>1. r.step \in {"fetch", "call", "parse", "store", "end"} /\ r.attempt \in 0 .. 1
      /\ {r.temperature, r.conflict, r.review} \subseteq BOOLEAN
  BY DEF TypedReadings
<1>2. r.record \in Reader!Records \cup Mended
  BY DEF TypedReadings
<1> QED BY <1>1, <1>2 DEF Reader!ReadingTypeOK, Mended, Reader!ConflictCap, Reader!NoValue, Reader!Text

LEMMA MatchTyped == MatcherInv /\ service = "matcher" => Matcher!MatchTypeOK
<1> SUFFICES ASSUME NEW m \in Matches, m = match PROVE Matcher!MatchTypeOK
  BY DEF MatcherInv, MatcherOK
<1>1. m.phase \in {"fetch", "ask", "again", "guard", "verify", "lookup", "done"} /\ m.result \in Results
  BY DEF Matches
<1>2. /\ m.result.id \in Titles \cup Ghosts \cup {0} /\ m.result.confidence \in 0 .. 100
      /\ m.result.decision \in {"AUTO_ACCEPT", "REVIEW", "REVIEW_NON_MOVIE", "REVIEW_MULTI_FILM"}
  BY <1>1 DEF Results, Ids
<1> QED BY <1>1, <1>2 DEF Matcher!MatchTypeOK, Matcher!NoRow, Matcher!Decisions, Matcher!EventDecisions

-----------------------------------------------------------------------------
(* The rule scan and the look-up, by the invariants of EngineProofs.       *)

Engines == INSTANCE EngineProofs

AuditInv == service = "audit" => Engines!RunOK(audit)
CascadeInv == service = "cascade" => Engines!ScanOK

LEMMA EngineAssumptions == Engines!RuleScanAssumption /\ Engines!CascadeAssumption
<1>1. Audit!RuleScanAssumption /\ Cascade!CascadeAssumption
  BY OfficeAssumption DEF OfficeAssumption
<1> QED BY <1>1
    DEF Audit!RuleScanAssumption, Engines!RuleScanAssumption, Cascade!CascadeAssumption,
        Engines!CascadeAssumption, Cascade!Mappings, Engines!Mappings, Cascade!Phrases, Engines!Phrases

LEMMA ListsAgree ==
  /\ \A S : Audit!InOrder(S) = Engines!InOrder(S) /\ Cascade!InOrder(S) = Engines!InOrder(S)
  /\ \A s : Audit!ToSet(s) = Engines!ToSet(s)
BY DEF Audit!InOrder, Cascade!InOrder, Engines!InOrder, Audit!Nth, Cascade!Nth, Engines!Nth,
       Audit!UpTo, Cascade!UpTo, Engines!UpTo, Audit!Cardinality, Cascade!Cardinality, Engines!Cardinality,
       Audit!ToSet, Engines!ToSet

LEMMA OutcomesAgree ==
  /\ Audit!Rules = Engines!Rules /\ Audit!Measured = Engines!Measured
  /\ \A rule, status : Audit!Outcome(rule, status) = Engines!Outcome(rule, status)
  /\ \A rules, status : Audit!OutcomesOf(rules, status) = Engines!OutcomesOf(rules, status)
  /\ \A rules : Audit!Chunks(rules) = Engines!Chunks(rules)
BY DEF Audit!Rules, Engines!Rules, Audit!Measured, Engines!Measured, Audit!Outcome, Engines!Outcome,
       Audit!OutcomesOf, Engines!OutcomesOf, Audit!Chunks, Engines!Chunks

LEMMA RuleScanStepsAgree == Audit!RuleScanNext <=> Engines!RuleScanNext
<1>1. Audit!GateRules <=> Engines!GateRules
  BY ListsAgree, OutcomesAgree DEF Audit!GateRules, Engines!GateRules
<1>2. Audit!CompileRules <=> Engines!CompileRules
  BY DEF Audit!CompileRules, Engines!CompileRules, Audit!InOrder, Engines!InOrder, Audit!Nth, Engines!Nth,
         Audit!UpTo, Engines!UpTo, Audit!Cardinality, Engines!Cardinality, Audit!OutcomesOf, Engines!OutcomesOf,
         Audit!Outcome, Engines!Outcome, Audit!Chunks, Engines!Chunks
<1>3. Audit!TakeItem <=> Engines!TakeItem
  BY DEF Audit!TakeItem, Engines!TakeItem
<1>4. Audit!ProcessBatch <=> Engines!ProcessBatch
  BY OutcomesAgree DEF Audit!ProcessBatch, Engines!ProcessBatch
<1>5. Audit!ProcessRule <=> Engines!ProcessRule
  BY OutcomesAgree DEF Audit!ProcessRule, Engines!ProcessRule
<1>6. (Audit!Collect <=> Engines!Collect) /\ (Audit!AllProcessed <=> Engines!AllProcessed)
  BY DEF Audit!Collect, Engines!Collect, Audit!AllProcessed, Engines!AllProcessed
<1>7. Audit!MarkProcessed <=> Engines!MarkProcessed
  BY ListsAgree DEF Audit!MarkProcessed, Engines!MarkProcessed
<1>8. Audit!Interrupt <=> Engines!Interrupt
  BY ListsAgree, OutcomesAgree DEF Audit!Interrupt, Engines!Interrupt
<1>9. /\ Audit!WriteReport <=> Engines!WriteReport
      /\ Audit!Send <=> Engines!Send
      /\ Audit!PruneOldReports <=> Engines!PruneOldReports
      /\ Audit!Aborts <=> Engines!Aborts
  BY DEF Audit!WriteReport, Engines!WriteReport, Audit!Send, Engines!Send, Audit!PruneOldReports,
         Engines!PruneOldReports, Audit!Aborts, Engines!Aborts
<1> QED BY <1>1, <1>2, <1>3, <1>4, <1>5, <1>6, <1>7, <1>8, <1>9 DEF Audit!RuleScanNext, Engines!RuleScanNext

LEMMA AuditStart == Init => AuditInv
<1> SUFFICES ASSUME Init, service = "audit" PROVE Engines!RunOK(audit)
  BY DEF AuditInv
<1>1. Audit!RuleScanInit
  BY DEF Init
<1>2. Engines!RuleScanInit
  BY <1>1, OutcomesAgree DEF Audit!RuleScanInit, Engines!RuleScanInit
<1> QED BY <1>2, EngineAssumptions, Engines!RunStarts

LEMMA AuditStep ==
  ASSUME AuditInv, [Next]_vars
  PROVE  AuditInv'
<1>1. CASE OnlySingle("audit") /\ ~UNCHANGED vars
  <2>1. Audit!RuleScanNext
    BY <1>1 DEF Next, OnlyDesk, OnlyRotation, OnlyLedger, OnlySingle
  <2>2. Engines!RunOK(audit) /\ Engines!RuleScanNext
    BY <1>1, <2>1, RuleScanStepsAgree DEF AuditInv, OnlySingle
  <2>3. Engines!RunOK(audit)'
    BY <2>2, EngineAssumptions, Engines!RunKeeps
  <2> QED BY <2>3 DEF AuditInv
<1>2. CASE UNCHANGED vars \/ ~OnlySingle("audit")
  <2> SUFFICES ASSUME service' = "audit" PROVE service = "audit" /\ UNCHANGED audit
    BY DEF AuditInv
  <2>1. CASE UNCHANGED vars
    BY <2>1 DEF vars, singleVars
  <2>2. CASE Next
    BY <1>2, <2>2 DEF Next, vars, singleVars, OnlyDesk, OnlyRotation, OnlyLedger, OnlySingle
  <2> QED BY <2>1, <2>2
<1> QED BY <1>1, <1>2

LEMMA AuditSays ==
  ASSUME AuditInv
  PROVE  EveryRuleIsReported /\ (service = "audit" => Audit!RuleScanTypeOK)
<1> SUFFICES ASSUME service = "audit" PROVE Audit!EveryRuleIsReported /\ Audit!RuleScanTypeOK
  BY DEF EveryRuleIsReported
<1>1. Engines!RuleScanTypeOK /\ Engines!EveryRuleIsReported
  BY Engines!RunSays DEF AuditInv
<1>2. \A rule : Audit!Times(rule) = Engines!Times(rule)
  BY DEF Audit!Times, Engines!Times, Audit!Cardinality, Engines!Cardinality
<1>3. Audit!EveryRuleIsReported
  BY <1>1, <1>2, ListsAgree, OutcomesAgree DEF Audit!EveryRuleIsReported, Engines!EveryRuleIsReported
<1>4. Audit!RuleScanTypeOK
  BY <1>1, OutcomesAgree DEF Audit!RuleScanTypeOK, Engines!RuleScanTypeOK
<1> QED BY <1>3, <1>4

(* A report of the data-quality scan that is sent has every rule of the    *)
(* pack exactly once, whatever failed, twice only a rule of the item that  *)
(* an interrupt caught between outcomes.extend and processed_ids.update:   *)
(* for every pack, split into batchable rules and others, and chunk size.  *)
THEOREM EveryRuleIsReportedHolds == Spec => []EveryRuleIsReported
<1>1. AuditInv => EveryRuleIsReported
  BY AuditSays
<1> QED BY AuditStart, AuditStep, <1>1, PTL DEF Spec

LEMMA FormsAgree ==
  /\ \A phrase : Cascade!TrackA(phrase) = Engines!TrackA(phrase)
  /\ \A phrase : Cascade!TrackB(phrase) = Engines!TrackB(phrase)
  /\ \A phrase : Cascade!ConcatForm(phrase) = Engines!ConcatForm(phrase)
  /\ \A keyword, phrase : Cascade!Loose(keyword, phrase) <=> Engines!Loose(keyword, phrase)
<1>1. \A phrase : Cascade!TrackA(phrase) = Engines!TrackA(phrase)
  BY DEF Cascade!TrackA, Engines!TrackA
<1>2. \A phrase : Cascade!TrackB(phrase) = Engines!TrackB(phrase)
  BY DEF Cascade!TrackB, Engines!TrackB
<1>3. \A phrase : Cascade!ConcatForm(phrase) = Engines!ConcatForm(phrase)
  BY DEF Cascade!ConcatForm, Engines!ConcatForm, Cascade!FlattenSeq, Engines!FlattenSeq
<1>4. \A phrase : Cascade!TrackC(phrase) = Engines!TrackC(phrase)
  BY DEF Cascade!TrackC, Engines!TrackC, Cascade!Range, Engines!Range
<1>5. \A keyword, phrase : Cascade!Loose(keyword, phrase) <=> Engines!Loose(keyword, phrase)
  BY <1>3, <1>4 DEF Cascade!Loose, Engines!Loose, Cascade!IsPrefix, Engines!IsPrefix
<1> QED BY <1>1, <1>2, <1>3, <1>5

LEMMA TracksAgree ==
  /\ \A index, phrase, pos : Cascade!MatchSegment(index, phrase, pos) = Engines!MatchSegment(index, phrase, pos)
  /\ \A index, phrase, pos :
       Cascade!MatchMovieSegment(index, phrase, pos) = Engines!MatchMovieSegment(index, phrase, pos)
  /\ \A index, phrase, pos :
       Cascade!MatchIntlSegment(index, phrase, pos) = Engines!MatchIntlSegment(index, phrase, pos)
<1>1. \A index, phrase, pos :
        Cascade!ConcatExact(index, phrase, pos) = Engines!ConcatExact(index, phrase, pos)
  BY FormsAgree DEF Cascade!ConcatExact, Engines!ConcatExact, Cascade!With, Engines!With, Cascade!Found,
     Engines!Found, Cascade!Min, Engines!Min, Cascade!NoHit, Engines!NoHit
<1>2. \A index, phrase, pos :
        Cascade!LooseTrack(index, phrase, pos) = Engines!LooseTrack(index, phrase, pos)
  BY FormsAgree DEF Cascade!LooseTrack, Engines!LooseTrack, Cascade!With, Engines!With, Cascade!Found,
     Engines!Found, Cascade!Min, Engines!Min, Cascade!NoHit, Engines!NoHit
<1>3. \A h, g : Cascade!OrElse(h, g) = Engines!OrElse(h, g)
  BY DEF Cascade!OrElse, Engines!OrElse, Cascade!NoHit, Engines!NoHit
<1>4. \A index, phrase, pos : Cascade!ExactTracks(index, phrase, pos, Cascade!MappingIndex) =
                              Engines!ExactTracks(index, phrase, pos, Engines!MappingIndex)
  BY DEF Cascade!ExactTracks, Engines!ExactTracks, Cascade!OrElse, Engines!OrElse, Cascade!TrackA,
     Engines!TrackA, Cascade!TrackB, Engines!TrackB, Cascade!With, Engines!With, Cascade!Found, Engines!Found,
     Cascade!MappingIndex, Engines!MappingIndex, Cascade!Max, Engines!Max,
     Cascade!NoHit, Engines!NoHit
<1>5. \A index, phrase, pos : Cascade!ExactTracks(index, phrase, pos, Cascade!MovieFormatMappingIndex) =
                              Engines!ExactTracks(index, phrase, pos, Engines!MovieFormatMappingIndex)
  BY DEF Cascade!ExactTracks, Engines!ExactTracks, Cascade!OrElse, Engines!OrElse, Cascade!TrackA,
     Engines!TrackA, Cascade!TrackB, Engines!TrackB, Cascade!With, Engines!With, Cascade!Found, Engines!Found,
     Cascade!MovieFormatMappingIndex, Engines!MovieFormatMappingIndex, Cascade!Max, Engines!Max,
     Cascade!NoHit, Engines!NoHit
<1>6. \A index, phrase, pos : Cascade!ExactTracks(index, phrase, pos, Cascade!IntlMappingIndex) =
                              Engines!ExactTracks(index, phrase, pos, Engines!IntlMappingIndex)
  BY DEF Cascade!ExactTracks, Engines!ExactTracks, Cascade!OrElse, Engines!OrElse, Cascade!TrackA,
     Engines!TrackA, Cascade!TrackB, Engines!TrackB, Cascade!With, Engines!With, Cascade!Found, Engines!Found,
     Cascade!IntlMappingIndex, Engines!IntlMappingIndex, Cascade!Min, Engines!Min,
     Cascade!NoHit, Engines!NoHit
<1>7. \A index, phrase, pos : Cascade!MatchSegment(index, phrase, pos) = Engines!MatchSegment(index, phrase, pos)
  BY <1>2, <1>3, <1>4 DEF Cascade!MatchSegment, Engines!MatchSegment
<1>8. \A index, phrase, pos :
        Cascade!MatchMovieSegment(index, phrase, pos) = Engines!MatchMovieSegment(index, phrase, pos)
  BY <1>1, <1>2, <1>3, <1>5 DEF Cascade!MatchMovieSegment, Engines!MatchMovieSegment
<1>9. \A index, phrase, pos :
        Cascade!MatchIntlSegment(index, phrase, pos) = Engines!MatchIntlSegment(index, phrase, pos)
  BY <1>1, <1>2, <1>3, <1>6 DEF Cascade!MatchIntlSegment, Engines!MatchIntlSegment
<1> QED BY <1>7, <1>8, <1>9

LEMMA RanksAgree ==
  /\ Cascade!Segments = Engines!Segments /\ Cascade!NoHit = Engines!NoHit
  /\ \A m : Cascade!Tier(m) = Engines!Tier(m)
  /\ \A m : (Cascade!Scoped(m) <=> Engines!Scoped(m)) /\ (Cascade!Own(m) <=> Engines!Own(m))
  /\ \A h, g : Cascade!HigherTier(h, g) <=> Engines!HigherTier(h, g)
  /\ \A h, g : Cascade!DomesticDisplaces(h, g) <=> Engines!DomesticDisplaces(h, g)
  /\ Cascade!InImaxHouse <=> Engines!InImaxHouse
  /\ \A format, source, ai : Cascade!Answer(format, source, ai) <=> Engines!Answer(format, source, ai)
  /\ \A m : Cascade!ResolveCircuitFormat(m) = Engines!ResolveCircuitFormat(m)
<1>1. Cascade!Segments = Engines!Segments
  BY ListsAgree DEF Cascade!Segments, Engines!Segments
<1>2. /\ \A m : Cascade!Tier(m) = Engines!Tier(m)
      /\ \A m : (Cascade!Scoped(m) <=> Engines!Scoped(m)) /\ (Cascade!Own(m) <=> Engines!Own(m))
  BY DEF Cascade!Tier, Engines!Tier, Cascade!Scoped, Engines!Scoped, Cascade!Own, Engines!Own,
     Cascade!NoCircuit, Engines!NoCircuit
<1>3. \A h, g : Cascade!HigherTier(h, g) <=> Engines!HigherTier(h, g)
  BY <1>2 DEF Cascade!HigherTier, Engines!HigherTier
<1>4. \A h, g : Cascade!DomesticDisplaces(h, g) <=> Engines!DomesticDisplaces(h, g)
  BY DEF Cascade!DomesticDisplaces, Engines!DomesticDisplaces, Cascade!HigherTier, Engines!HigherTier,
     Cascade!Tier, Engines!Tier, Cascade!Scoped, Engines!Scoped, Cascade!Own, Engines!Own,
     Cascade!NoCircuit, Engines!NoCircuit
<1>5. /\ Cascade!InImaxHouse <=> Engines!InImaxHouse
      /\ \A format, source, ai : Cascade!Answer(format, source, ai) <=> Engines!Answer(format, source, ai)
  BY DEF Cascade!InImaxHouse, Engines!InImaxHouse, Cascade!Imax, Engines!Imax, Cascade!Answer, Engines!Answer
<1>6. \A m : Cascade!ResolveCircuitFormat(m) = Engines!ResolveCircuitFormat(m)
  BY DEF Cascade!ResolveCircuitFormat, Engines!ResolveCircuitFormat, Cascade!Scoped, Engines!Scoped,
     Cascade!Own, Engines!Own, Cascade!NoCircuit, Engines!NoCircuit, Cascade!Max, Engines!Max
<1>7. Cascade!NoHit = Engines!NoHit
  BY DEF Cascade!NoHit, Engines!NoHit
<1> QED BY <1>1, <1>2, <1>3, <1>4, <1>5, <1>6, <1>7

LEMMA LookUpStepsAgree == Cascade!ScanNext <=> Engines!ScanNext
<1>1. /\ Cascade!Begin <=> Engines!Begin
      /\ Cascade!Empty <=> Engines!Empty
      /\ Cascade!EmptyMovie <=> Engines!EmptyMovie
      /\ Cascade!EmptyIntl <=> Engines!EmptyIntl
  BY RanksAgree DEF Cascade!Begin, Engines!Begin, Cascade!Empty, Engines!Empty, Cascade!EmptyMovie,
     Engines!EmptyMovie, Cascade!EmptyIntl, Engines!EmptyIntl
<1>2. Cascade!Vip <=> Engines!Vip
  <2>1. Cascade!Range(Cascade!Segments) = Engines!Range(Engines!Segments)
    BY RanksAgree DEF Cascade!Range, Engines!Range
  <2>2. \A f : Cascade!Range(f) = Engines!Range(f)
    BY DEF Cascade!Range, Engines!Range
  <2>3. (\E p \in Cascade!Range(Cascade!Segments) : VipWord \in Cascade!Range(p.words)) <=>
          \E p \in Engines!Range(Engines!Segments) : VipWord \in Engines!Range(p.words)
    BY <2>1, <2>2
  <2>4. Cascade!Answer("VIP", "vip", FALSE) <=> Engines!Answer("VIP", "vip", FALSE)
    BY RanksAgree
  <2> QED BY <2>3, <2>4 DEF Cascade!Vip, Engines!Vip, Cascade!VipHouse, Engines!VipHouse
<1>3. Cascade!Look <=> Engines!Look
  BY RanksAgree, TracksAgree DEF Cascade!Look, Engines!Look, Cascade!LookAt, Engines!LookAt
<1>4. Cascade!LookMovie <=> Engines!LookMovie
  BY RanksAgree, TracksAgree DEF Cascade!LookMovie, Engines!LookMovie, Cascade!LookAt, Engines!LookAt
<1>5. Cascade!LookIntl <=> Engines!LookIntl
  BY RanksAgree, TracksAgree DEF Cascade!LookIntl, Engines!LookIntl, Cascade!LookAt, Engines!LookAt
<1>6. \A name : Cascade!Scanned(name) <=> Engines!Scanned(name)
  BY RanksAgree DEF Cascade!Scanned, Engines!Scanned
<1>7. Cascade!Conclude <=> Engines!Conclude
  BY <1>6, RanksAgree DEF Cascade!Conclude, Engines!Conclude, Cascade!MostUrgentTier, Engines!MostUrgentTier
<1>8. (Cascade!ConcludeMovie <=> Engines!ConcludeMovie) /\ (Cascade!ConcludeIntl <=> Engines!ConcludeIntl)
  BY <1>6, RanksAgree DEF Cascade!ConcludeMovie, Engines!ConcludeMovie, Cascade!ConcludeIntl, Engines!ConcludeIntl
<1> QED BY <1>1, <1>2, <1>3, <1>4, <1>5, <1>7, <1>8 DEF Cascade!ScanNext, Engines!ScanNext

LEMMA CascadeStart == Init => CascadeInv
<1> SUFFICES ASSUME Init, service = "cascade" PROVE Engines!ScanOK
  BY DEF CascadeInv
<1>1. Cascade!ScanInit
  BY DEF Init
<1>2. Engines!ScanInit
  BY <1>1 DEF Cascade!ScanInit, Engines!ScanInit, Cascade!NoCircuit, Engines!NoCircuit, Cascade!NoHit, Engines!NoHit,
              Cascade!NoResult, Engines!NoResult
<1> QED BY <1>2, EngineAssumptions, Engines!LookUpStarts

LEMMA CascadeStep ==
  ASSUME CascadeInv, [Next]_vars
  PROVE  CascadeInv'
<1>1. CASE OnlySingle("cascade") /\ ~UNCHANGED vars
  <2>1. Cascade!ScanNext
    BY <1>1 DEF Next, OnlyDesk, OnlyRotation, OnlyLedger, OnlySingle
  <2>2. Engines!ScanOK /\ Engines!ScanNext
    BY <1>1, <2>1, LookUpStepsAgree DEF CascadeInv, OnlySingle
  <2>3. Engines!ScanOK'
    BY <2>2, EngineAssumptions, Engines!ScanStepKeeps
  <2> QED BY <2>3 DEF CascadeInv
<1>2. CASE UNCHANGED vars \/ ~OnlySingle("cascade")
  <2> SUFFICES ASSUME service' = "cascade" PROVE service = "cascade" /\ UNCHANGED scan
    BY Engines!ScanRests DEF CascadeInv
  <2>1. CASE UNCHANGED vars
    BY <2>1 DEF vars, singleVars
  <2>2. CASE Next
    BY <1>2, <2>2 DEF Next, vars, singleVars, OnlyDesk, OnlyRotation, OnlyLedger, OnlySingle
  <2> QED BY <2>1, <2>2
<1> QED BY <1>1, <1>2

LEMMA CascadeSays ==
  ASSUME CascadeInv
  PROVE  /\ CascadeKeepsTheBest /\ CircuitRulesHold
         /\ service = "cascade" => Cascade!ScanTypeOK
<1> SUFFICES ASSUME service = "cascade"
             PROVE  Cascade!ScanTypeOK /\ Cascade!CascadeKeepsTheBest /\ Cascade!CircuitRulesHold
  BY DEF CascadeKeepsTheBest, CircuitRulesHold
<1>1. Engines!ScanTypeOK /\ Engines!CascadeKeepsTheBest /\ Engines!CircuitRulesHold
  BY EngineAssumptions, Engines!ScanSays DEF CascadeInv
<1>2. \A pos : Cascade!HitAt(pos) = Engines!HitAt(pos)
  BY RanksAgree, TracksAgree DEF Cascade!HitAt, Engines!HitAt
<1>3. Cascade!Hits = Engines!Hits
  BY <1>2, RanksAgree DEF Cascade!Hits, Engines!Hits
<1>4. \A h, g : Cascade!AsGoodAs(h, g) <=> Engines!AsGoodAs(h, g)
  <2>1. \A m : Cascade!Scope(m) = Engines!Scope(m)
    BY RanksAgree DEF Cascade!Scope, Engines!Scope
  <2> QED BY <2>1, RanksAgree DEF Cascade!AsGoodAs, Engines!AsGoodAs
<1>5. \A pos : Cascade!Verbatim(pos) = Engines!Verbatim(pos)
  BY FormsAgree, RanksAgree DEF Cascade!Verbatim, Engines!Verbatim
<1>6. Cascade!CascadeKeepsTheBest
  BY <1>1, <1>2, <1>3, <1>4, <1>5, RanksAgree DEF Cascade!CascadeKeepsTheBest, Engines!CascadeKeepsTheBest
<1>7. Cascade!CircuitRulesHold
  BY <1>1, RanksAgree DEF Cascade!CircuitRulesHold, Engines!CircuitRulesHold, Cascade!Imax, Engines!Imax,
     Cascade!MostUrgentTier, Engines!MostUrgentTier
<1>8. Cascade!ScanTypeOK
  BY <1>1, RanksAgree DEF Cascade!ScanTypeOK, Engines!ScanTypeOK
<1> QED BY <1>6, <1>7, <1>8

(* A look-up ends with the best hit of the whole string in whatever order  *)
(* its segments come, asks the model only when there is none, and in the   *)
(* international engine gives a doubly approved keyword its higher         *)
(* priority: for every table in the order of its priorities, every string  *)
(* and whatever track matched.                                             *)
THEOREM CascadeKeepsTheBestHolds == Spec => []CascadeKeepsTheBest
<1>1. CascadeInv => CascadeKeepsTheBest
  BY CascadeSays
<1> QED BY CascadeStart, CascadeStep, <1>1, PTL DEF Spec

(* An IMAX house shows IMAX unless a keyword of the first tier was found,  *)
(* and never asks the model; no other circuit shows the format of one:     *)
(* for every table of mappings, circuit and string.                        *)
THEOREM CircuitRulesHoldHolds == Spec => []CircuitRulesHold
<1>1. CascadeInv => CircuitRulesHold
  BY CascadeSays
<1> QED BY CascadeStart, CascadeStep, <1>1, PTL DEF Spec

(* Every service keeps its types: the desks with their batches, engines,   *)
(* dictionaries and review items, the keys with their ages, the ledger for *)
(* any number of rollups, the look-up, the matcher, the lobby reading and  *)
(* the scan, for every value of the constants.                             *)
THEOREM TypeCorrect == Spec => []TypeOK
<1>1. DesksInv /\ RotationInv /\ LedgerInv /\ CascadeInv /\ MatcherInv /\ ReadingTyped /\ AuditInv => TypeOK
  BY DesksSay, CascadeSays, MatchTyped, ReadingTypedSays, AuditSays DEF TypeOK, RotationInv, LedgerInv
<1>2. Spec => []RotationInv
  BY RotationStart, RotationStep, PTL DEF Spec
<1>3. Spec => []LedgerInv
  BY LedgerStart, LedgerStep, PTL DEF Spec
<1>4. Spec => []CascadeInv
  BY CascadeStart, CascadeStep, PTL DEF Spec
<1>5. Spec => []MatcherInv
  BY MatcherStart, MatcherStep, PTL DEF Spec
<1>6. Spec => []ReadingTyped
  BY ReadingTypedStart, ReadingTypedStep, PTL DEF Spec
<1>7. Spec => []AuditInv
  BY AuditStart, AuditStep, PTL DEF Spec
<1> QED BY DesksCorrect, <1>1, <1>2, <1>3, <1>4, <1>5, <1>6, <1>7, PTL
================================================================================
