--------------------------- MODULE AmenityDeskProofs ---------------------------
(***************************************************************************)
(* Proofs about a review desk and its batches, for every upload, number of *)
(* requests, mappings and processes.  BackOfficeProofs instantiates them   *)
(* for the three desks, whose handlers are the steps below.                *)
(***************************************************************************)
EXTENDS AmenityDesk, TLAPS, FiniteSetTheorems, WellFoundedInduction

DeskAssumption ==
  BatchAssumption /\ MaxMappings \in Nat

Strings == Rows \cup Singles
Batches ==
  [step : {"none", "start", "layer 1", "prefill", "calls", "finish", "tidy", "over"},
   proc : Procs \cup {Nobody}, mode : {"full", "sample", "skip"},
   status : {"none", "queued", "processing", "completed", "failed"},
   known : SUBSET Keys, answer : [Keys -> {"none", "suggestion", "failed"}], asked : SUBSET Keys,
   processed : 0 .. Cardinality(Rows), upload : BOOLEAN]
Ops == MappingOps \cup {"none", "approve items", "reject item", "alias"}
Statuses == {"absent", "pending", "approved", "rejected", "deleted"}
Requested ==
  [step : {"free", "commit", "refresh", "build", "assign"}, proc : Procs \cup {Nobody}, op : Ops,
   items : SUBSET Strings, id : Nat, seen : Statuses \cup {"none"}, void : BOOLEAN,
   undone : SUBSET (Keys \cup {Nobody}), built : SUBSET Keys]
MappingRows == [key : Keys \cup {Nobody}, status : Statuses]
ItemStates == {"none", "pending", "approved", "rejected"}

Typed ==
  /\ engine \in [Procs -> SUBSET Keys] /\ cache \subseteq Keys
  /\ batch \in Batches /\ item \in [Strings -> ItemStates] /\ faults \in 0 .. MaxFaults
  /\ mapping \in [Ids -> MappingRows] /\ desk \in [Desks -> Requested]
  /\ \A n \in Ids : mapping[n].status # "absent" => mapping[n].key \in Keys

\* What a request may rely on: its mapping exists, its items are on the desk,
\* and what it promised is approved until it has built its engine, unless its
\* approval is void.
RequestOK(d) ==
  /\ desk[d].op \in MappingOps => desk[d].id \in Ids /\ mapping[desk[d].id].status # "absent"
  /\ \A r \in desk[d].items : item[r] # "none"
  /\ desk[d].step \in {"refresh", "build"} /\ ~desk[d].void => Promised(d) \ desk[d].undone \subseteq Approved
  /\ desk[d].step = "assign" /\ ~desk[d].void => Promised(d) \ desk[d].undone \subseteq desk[d].built

\* Nothing is on the desk before the last commit of the batch, then all.
Running == {"none", "start", "layer 1", "prefill", "calls", "finish"}
Left == {r \in Rows : item[r] # "none"}
ReviewInv ==
  /\ batch.step \in Running => Left = {} /\ batch.status # "completed"
  /\ Left \in {{}, Misses}
  /\ batch.status = "completed" => Left = Misses /\ batch.processed = Cardinality(Rows)

\* The rows counted and the rows whose answer is awaited are not too many.
Awaited == {r \in Unmatched : KeyOf[r] \in batch.asked}
CountInv ==
  /\ batch.step = "prefill" => batch.processed + Cardinality(Unmatched) <= Cardinality(Rows)
  /\ batch.step = "calls" /\ batch.mode = "full" =>
       batch.processed + Cardinality(Awaited) <= Cardinality(Rows)

DeskInv == Typed /\ (\A d \in Desks : RequestOK(d)) /\ ReviewInv /\ CountInv

-----------------------------------------------------------------------------
(* The start.                                                              *)

LEMMA RowsAreFinite ==
  ASSUME DeskAssumption
  PROVE  /\ IsFiniteSet(Rows) /\ Cardinality(Rows) \in Nat
         /\ \A S \in SUBSET Rows : IsFiniteSet(S) /\ Cardinality(S) \in Nat /\ Cardinality(S) <= Cardinality(Rows)
         /\ \A S \in SUBSET Rows : Cardinality(Rows \ S) + Cardinality(S) = Cardinality(Rows)
<1>1. IsFiniteSet(Rows) /\ Cardinality(Rows) \in Nat
  BY FS_CardinalityType DEF DeskAssumption, BatchAssumption
<1>2. ASSUME NEW S \in SUBSET Rows
      PROVE  IsFiniteSet(S) /\ Cardinality(S) \in Nat /\ Cardinality(S) <= Cardinality(Rows)
  BY <1>1, FS_Subset, FS_CardinalityType
<1>3. ASSUME NEW S \in SUBSET Rows
      PROVE  Cardinality(Rows \ S) + Cardinality(S) = Cardinality(Rows)
  <2>1. Cardinality(Rows \ S) = Cardinality(Rows) - Cardinality(Rows \cap S)
    BY <1>1, FS_Difference
  <2>2. Rows \cap S = S
    OBVIOUS
  <2> QED BY <1>1, <1>2, <2>1, <2>2
<1> QED BY <1>1, <1>2, <1>3

LEMMA CountedRows ==
  ASSUME DeskAssumption, batch \in Batches
  PROVE  batch.processed \in Nat /\ batch.processed <= Cardinality(Rows) /\ Cardinality(Rows) \in Nat
<1>1. PICK n : n = Cardinality(Rows)
  OBVIOUS
<1>2. n \in Nat
  BY <1>1, RowsAreFinite
<1>3. batch.processed \in 0 .. n
  BY <1>1 DEF Batches
<1> QED BY <1>1, <1>2, <1>3

LEMMA Constants ==
  ASSUME DeskAssumption
  PROVE  /\ KeyOf \in [Strings -> Keys] /\ Rows \subseteq Strings /\ Singles \subseteq Strings
         /\ \A s \in Singles : s \notin Rows
         /\ AiModes \subseteq {"full", "sample", "skip"} /\ MaxFaults \in Nat /\ MaxMappings \in Nat
         /\ Reviewed \in BOOLEAN /\ TidiesUp \in BOOLEAN
BY DEF DeskAssumption, BatchAssumption, Strings

LEMMA DeskStart == ASSUME DeskAssumption, Init PROVE DeskInv
<1>1. PICK answer : answer = [k \in Keys |-> "none"]
  OBVIOUS
<1>2. PICK request : request = NoRequest
  OBVIOUS
<1>3. request \in Requested /\ request.op = "none" /\ request.items = {} /\ request.step = "free"
  BY <1>2 DEF NoRequest, Requested, Ops, Statuses
<1>4. batch = [step |-> "none", proc |-> Nobody, mode |-> "skip", status |-> "none", known |-> {},
               answer |-> answer, asked |-> {}, processed |-> 0, upload |-> FALSE]
  BY <1>1 DEF Init, BatchInit, NoBatch
<1>5. batch \in Batches /\ batch.step = "none" /\ batch.status = "none"
  BY <1>1, <1>4, RowsAreFinite DEF Batches
<1>6. /\ engine = [p \in Procs |-> {}] /\ cache = {} /\ faults = 0
      /\ item = [r \in Strings |-> "none"] /\ mapping = [n \in Ids |-> Absent]
      /\ desk = [d \in Desks |-> request]
  BY <1>2 DEF Init, BatchInit, Strings
<1>7. Typed
  BY <1>3, <1>5, <1>6, Constants DEF Typed, ItemStates, MappingRows, Statuses, Absent
<1>8. \A d \in Desks : RequestOK(d)
  BY <1>3, <1>6 DEF RequestOK, MappingOps
<1>9. Left = {}
  BY <1>6, Constants DEF Left
<1> QED BY <1>5, <1>7, <1>8, <1>9 DEF DeskInv, ReviewInv, CountInv

-----------------------------------------------------------------------------
(* The requests.                                                           *)

LEMMA LeastOne ==
  ASSUME NEW S \in SUBSET Nat, S # {}
  PROVE  \E x \in S : \A y \in S : x <= y
<1>1. IsWellFoundedOn(OpToRel(<, Nat), Nat)
  BY NatLessThanWellFounded
<1>2. PICK x \in S : \A y \in S : ~(<<y, x>> \in OpToRel(<, Nat))
  BY <1>1, WFMin
<1>3. \A y \in S : ~(y < x)
  BY <1>2 DEF OpToRel
<1> QED BY <1>3

\* A step that leaves the mappings and the items alone leaves what the other
\* requests rely on.
LEMMA RequestRests ==
  ASSUME NEW d \in Desks, RequestOK(d), UNCHANGED <<mapping, item>>, desk'[d] = desk[d]
  PROVE  RequestOK(d)'
BY DEF RequestOK, Promised, Approved

LEMMA FreeIsOK ==
  ASSUME NEW d \in Desks, desk'[d] = NoRequest
  PROVE  RequestOK(d)' /\ desk'[d] \in Requested
BY DEF RequestOK, NoRequest, MappingOps, Requested, Ops, Statuses

LEMMA ApprovedAreKeys == ASSUME Typed PROVE Approved \subseteq Keys
BY DEF Typed, Approved

\* What a step of a request that leaves the batch alone must keep.
LEMMA DeskOnly ==
  ASSUME DeskInv, UNCHANGED batch, Typed', Left' = Left, \A d \in Desks : RequestOK(d)'
  PROVE  DeskInv'
<1>1. Unmatched' = Unmatched
  BY DEF Unmatched
<1>2. Misses' = Misses
  BY <1>1 DEF Misses
<1>3. Awaited' = Awaited
  BY <1>1 DEF Awaited
<1> QED BY <1>1, <1>2, <1>3 DEF DeskInv, ReviewInv, CountInv

\* A request begins: everything it needs is there already.
LEMMA BeginMoves ==
  ASSUME DeskAssumption, DeskInv, NEW d \in Desks, NEW r \in Requested, Begin(d, r),
         r.step \in {"commit", "build"}, r.step = "build" => r.op = "alias",
         r.op \in MappingOps => r.id \in Ids /\ mapping[r.id].status # "absent",
         \A i \in r.items : item[i] # "none",
         cache' \subseteq cache, UNCHANGED <<engine, batch, item, faults, mapping>>
  PROVE  DeskInv'
<1>1. desk' = [desk EXCEPT ![d] = r] /\ desk \in [Desks -> Requested]
  BY DEF Begin, DeskInv, Typed
<1>2. desk'[d] = r /\ \A e \in Desks \ {d} : desk'[e] = desk[e]
  BY <1>1
<1>3. RequestOK(d)'
  BY <1>2 DEF RequestOK, Promised, MappingOps
<1>4. \A e \in Desks : RequestOK(e)'
  BY <1>2, <1>3, RequestRests DEF DeskInv
<1>5. Typed'
  BY <1>1 DEF DeskInv, Typed
<1> QED BY <1>4, <1>5, DeskOnly DEF Left

LEMMA TakesMove ==
  ASSUME DeskAssumption, DeskInv, NEW d \in Desks, NEW p \in Procs,
         Review(d, p) \/ Edit(d, p) \/ EditAlias(d, p)
  PROVE  DeskInv'
<1>1. ASSUME NEW op \in Ops, NEW step \in {"commit", "build"}
      PROVE  /\ Request(p, op, step) \in Requested /\ Request(p, op, step).items = {}
             /\ Request(p, op, step).op = op /\ Request(p, op, step).step = step
  BY DEF Request, NoRequest, Requested, Ops, Statuses
<1>2. ASSUME NEW items \in SUBSET Strings, TakeItems(d, p, items)
      PROVE  DeskInv'
  <2>1. PICK pending : pending = {r \in items : item[r] = "pending"}
    OBVIOUS
  <2>2. PICK r : r = [Request(p, "approve items", "commit") EXCEPT !.items = pending]
    OBVIOUS
  <2>5. "approve items" \in Ops
    BY DEF Ops
  <2>3. r \in Requested /\ r.step = "commit" /\ r.op = "approve items" /\ r.items = pending
    <3>1. PICK q \in Requested : q = Request(p, "approve items", "commit") /\ q.step = "commit" /\ q.op = "approve items"
      BY <1>1, <2>5
    <3> QED BY <2>1, <2>2, <3>1 DEF Requested
  <2>4. Begin(d, r) /\ cache' \subseteq cache /\ UNCHANGED <<engine, batch, item, faults, mapping>>
    BY <1>2, <2>1, <2>2 DEF TakeItems
  <2> QED BY <2>1, <2>3, <2>4, BeginMoves DEF MappingOps
<1>3. ASSUME NEW i \in Strings, TakeReject(d, p, i)
      PROVE  DeskInv'
  <2>1. PICK r : r = [Request(p, "reject item", "commit") EXCEPT !.items = {i}]
    OBVIOUS
  <2>2. r \in Requested /\ r.step = "commit" /\ r.op = "reject item" /\ r.items = {i}
    <3>1. "reject item" \in Ops
      BY DEF Ops
    <3>2. PICK q \in Requested : q = Request(p, "reject item", "commit") /\ q.step = "commit" /\ q.op = "reject item"
      BY <1>1, <3>1
    <3> QED BY <2>1, <3>2 DEF Requested
  <2>3. Begin(d, r) /\ UNCHANGED <<engine, cache, batch, item, faults, mapping>> /\ item[i] # "none"
    BY <1>3, <2>1 DEF TakeReject, batchVars
  <2> QED BY <2>2, <2>3, BeginMoves DEF MappingOps
<1>4. ASSUME NEW op \in MappingOps, NEW n \in Ids, TakeMapping(d, p, op, n)
      PROVE  DeskInv'
  <2>1. PICK r : r = [Request(p, op, "commit") EXCEPT !.id = n, !.seen = mapping[n].status]
    OBVIOUS
  <2>2. r \in Requested /\ r.step = "commit" /\ r.op = op /\ r.items = {} /\ r.id = n
    <3>3. MaxMappings \in Nat
      BY Constants
    <3>4. n \in Nat
      BY <3>3 DEF Ids
    <3>1. op \in Ops /\ n \in Nat
      BY <3>4 DEF Ops
    <3>2. PICK q \in Requested : q = Request(p, op, "commit") /\ q.step = "commit" /\ q.op = op /\ q.items = {}
      BY <1>1, <3>1
    <3>5. mapping[n].status \in Statuses
      BY DEF DeskInv, Typed, MappingRows
    <3> QED BY <2>1, <3>1, <3>2, <3>5 DEF Requested
  <2>3. Begin(d, r) /\ UNCHANGED <<engine, cache, batch, item, faults, mapping>>
        /\ mapping[n].status # "absent"
    BY <1>4, <2>1 DEF TakeMapping, batchVars
  <2> QED BY <2>2, <2>3, BeginMoves
<1>5. ASSUME EditAlias(d, p)
      PROVE  DeskInv'
  <2>1. PICK r : r = Request(p, "alias", "build")
    OBVIOUS
  <2>2. r \in Requested /\ r.step = "build" /\ r.op = "alias" /\ r.items = {}
    BY <1>1, <2>1 DEF Ops
  <2>3. Begin(d, r) /\ UNCHANGED <<engine, cache, batch, item, faults, mapping>>
    BY <1>5, <2>1 DEF EditAlias, batchVars
  <2> QED BY <2>2, <2>3, BeginMoves DEF MappingOps
<1> QED BY <1>2, <1>3, <1>4, <1>5 DEF Review, Edit, Strings

\* Mappings are created where none were and stay what they are, those of the
\* keys in undone apart approved: what the other requests promised holds on.
LEMMA PromisesKept ==
  ASSUME NEW d \in Desks, Typed, RequestOK(d), NEW undone,
         \A n \in Ids : mapping[n].status # "absent" =>
           /\ mapping'[n].key = mapping[n].key /\ mapping'[n].status # "absent"
           /\ mapping[n].status = "approved" => mapping'[n].status = "approved" \/ mapping[n].key \in undone,
         \A r \in desk[d].items : item'[r] # "none",
         desk'[d] = [desk[d] EXCEPT !.undone = @ \cup undone]
           \/ (desk'[d] = desk[d] /\ (desk[d].step \in {"refresh", "build"} => undone = {}))
  PROVE  RequestOK(d)'
<1>1. desk[d] \in Requested
  BY DEF Typed
<1>2. /\ desk'[d].op = desk[d].op /\ desk'[d].step = desk[d].step /\ desk'[d].id = desk[d].id
      /\ desk'[d].items = desk[d].items /\ desk'[d].built = desk[d].built
      /\ desk[d].undone \subseteq desk'[d].undone /\ desk'[d].void = desk[d].void
      /\ desk[d].step \in {"refresh", "build"} => undone \subseteq desk'[d].undone
  BY <1>1 DEF Requested
<1>3. Promised(d)' = Promised(d)
  BY <1>2 DEF Promised, RequestOK
<1>4. Approved \subseteq Approved' \cup undone
  BY DEF Approved
<1> QED BY <1>2, <1>3, <1>4 DEF RequestOK

LEMMA CommitItemsMoves ==
  ASSUME DeskAssumption, DeskInv, NEW d \in Desks, CommitItems(d)
  PROVE  DeskInv'
<1>1. PICK items : items = desk[d].items
  OBVIOUS
<1>2. desk \in [Desks -> Requested] /\ mapping \in [Ids -> MappingRows] /\ item \in [Strings -> ItemStates]
      /\ items \subseteq Strings /\ \A r \in items : item[r] # "none"
  BY <1>1 DEF DeskInv, Typed, RequestOK, Requested
<1>3. PICK f \in NewIds(desk[d].items) :
        mapping' = [n \in Ids |-> IF \E r \in desk[d].items : f[r] = n
                      THEN [key |-> KeyOf[CHOOSE r \in desk[d].items : f[r] = n], status |-> "approved"]
                      ELSE mapping[n]]
  BY DEF CommitItems
<1>4. /\ item' = [r \in Strings |-> IF r \in items THEN "approved" ELSE item[r]]
      /\ desk' = [desk EXCEPT ![d].step = "build"] /\ desk[d].op = "approve items"
      /\ UNCHANGED <<engine, cache, batch, faults>>
  BY <1>1, <1>2 DEF CommitItems
<1>5. /\ \A r \in items : f[r] \in Ids /\ mapping[f[r]].status = "absent"
      /\ \A q, r \in items : f[q] = f[r] => q = r
  BY <1>1 DEF NewIds, FreeIds
<1>6. \A r \in items : mapping'[f[r]] = [key |-> KeyOf[r], status |-> "approved"]
  <2> TAKE r \in items
  <2>1. (CHOOSE q \in desk[d].items : f[q] = f[r]) = r
    BY <1>1, <1>5
  <2>2. \E q \in desk[d].items : f[q] = f[r]
    BY <1>1
  <2> QED BY <1>3, <1>5, <2>1, <2>2
<1>7. \A n \in Ids : (\A r \in items : f[r] # n) => mapping'[n] = mapping[n]
  BY <1>1, <1>3
<1>8. mapping' \in [Ids -> MappingRows] /\ \A n \in Ids : mapping'[n].status # "absent" => mapping'[n].key \in Keys
  <2>1. \A r \in items : KeyOf[r] \in Keys
    BY <1>2, Constants
  <2>2. DOMAIN mapping' = Ids /\ mapping' = [n \in Ids |-> mapping'[n]]
    BY <1>3
  <2>3. ASSUME NEW n \in Ids
        PROVE  mapping'[n] \in MappingRows /\ (mapping'[n].status # "absent" => mapping'[n].key \in Keys)
    <3>1. CASE \E r \in items : f[r] = n
      <4>1. PICK r \in items : mapping'[n] = [key |-> KeyOf[r], status |-> "approved"]
        BY <1>6, <3>1
      <4> QED BY <2>1, <4>1 DEF MappingRows, Statuses
    <3>2. CASE \A r \in items : f[r] # n
      BY <1>2, <1>7, <3>2 DEF DeskInv, Typed
    <3> QED BY <3>1, <3>2
  <2> QED BY <2>2, <2>3
<1>9. \A n \in Ids : mapping[n].status # "absent" => mapping'[n] = mapping[n]
  BY <1>5, <1>7
<1>10. \A r \in Strings : item[r] # "none" <=> item'[r] # "none"
  BY <1>2, <1>4
<1>11. /\ \A e \in Desks \ {d} : desk'[e] = desk[e]
       /\ desk'[d] = [desk[d] EXCEPT !.step = "build"] /\ desk'[d] \in Requested
       /\ desk'[d].items = items /\ desk'[d].op = "approve items" /\ desk'[d].step = "build"
  BY <1>1, <1>2, <1>4 DEF Requested
<1>12. \A e \in Desks \ {d} : RequestOK(e)'
  <2> TAKE e \in Desks \ {d}
  <2>1. \A r \in desk[e].items : item'[r] # "none"
    BY <1>2, <1>10 DEF DeskInv, RequestOK, Requested
  <2> QED BY <1>9, <1>11, <2>1, PromisesKept DEF DeskInv
<1>13. RequestOK(d)'
  <2>1. Promised(d)' = {KeyOf[r] : r \in items}
    BY <1>11 DEF Promised
  <2>2. \A r \in items : KeyOf[r] \in Approved'
    <3> TAKE r \in items
    <3>1. f[r] \in Ids /\ mapping'[f[r]].status = "approved" /\ mapping'[f[r]].key = KeyOf[r]
      <4>1. mapping'[f[r]] = [key |-> KeyOf[r], status |-> "approved"]
        BY <1>6
      <4> QED BY <1>5, <4>1
    <3> QED BY <3>1 DEF Approved
  <2>3. \A r \in desk'[d].items : item'[r] # "none"
    BY <1>2, <1>10, <1>11
  <2>4. desk'[d].op \notin MappingOps
    BY <1>11 DEF MappingOps
  <2>5. Promised(d)' \subseteq Approved' /\ desk'[d].step = "build"
    BY <1>11, <2>1, <2>2
  <2> QED BY <2>3, <2>4, <2>5 DEF RequestOK
<1>14. Typed'
  BY <1>2, <1>4, <1>8, <1>11 DEF DeskInv, Typed, ItemStates
<1>15. Left' = Left
  BY <1>10, Constants DEF Left
<1> QED BY <1>4, <1>12, <1>13, <1>14, <1>15, DeskOnly

LEMMA CommitRejectMoves ==
  ASSUME DeskAssumption, DeskInv, NEW d \in Desks, CommitReject(d)
  PROVE  DeskInv'
<1>1. desk \in [Desks -> Requested] /\ item \in [Strings -> ItemStates]
      /\ desk[d].items \subseteq Strings /\ \A r \in desk[d].items : item[r] # "none"
  BY DEF DeskInv, Typed, RequestOK, Requested
<1>2. /\ item' = [r \in Strings |-> IF r \in desk[d].items THEN "rejected" ELSE item[r]]
      /\ desk' = [desk EXCEPT ![d] = NoRequest] /\ UNCHANGED <<engine, cache, batch, faults, mapping>>
  BY <1>1 DEF CommitReject
<1>3. \A r \in Strings : item[r] # "none" <=> item'[r] # "none"
  BY <1>1, <1>2
<1>4. desk'[d] = NoRequest /\ \A e \in Desks \ {d} : desk'[e] = desk[e]
  BY <1>1, <1>2
<1>5. \A e \in Desks \ {d} : RequestOK(e)'
  <2> TAKE e \in Desks \ {d}
  <2>1. RequestOK(e) /\ desk'[e] = desk[e] /\ desk[e].items \subseteq Strings
    BY <1>1, <1>4 DEF DeskInv, Requested
  <2>2. \A r \in desk'[e].items : item'[r] # "none"
    BY <1>3, <2>1 DEF RequestOK
  <2>3. mapping' = mapping /\ Promised(e)' = Promised(e) /\ Approved' = Approved
    BY <1>2, <2>1 DEF Promised, Approved
  <2> QED BY <2>1, <2>2, <2>3 DEF RequestOK
<1>6. \A e \in Desks : RequestOK(e)'
  BY <1>4, <1>5, FreeIsOK
<1>7. Typed'
  BY <1>1, <1>2, <1>4, FreeIsOK DEF DeskInv, Typed, ItemStates
<1>8. Left' = Left
  BY <1>3, Constants DEF Left
<1> QED BY <1>2, <1>6, <1>7, <1>8, DeskOnly

LEMMA CreateMoves ==
  ASSUME DeskAssumption, DeskInv, NEW k \in Keys, Create(k)
  PROVE  DeskInv'
<1>1. PICK n : n = CHOOSE x \in FreeIds : \A m \in FreeIds : x <= m
  OBVIOUS
<1>2. mapping' = [mapping EXCEPT ![n] = [key |-> k, status |-> "pending"]] /\ UNCHANGED <<batchVars, desk>>
  BY <1>1 DEF Create
<1>3. UNCHANGED <<engine, cache, batch, item, faults, desk>>
  BY <1>2 DEF batchVars
<1>4. FreeIds \subseteq Nat /\ FreeIds # {}
  BY DEF FreeIds, Ids, Create
<1>5. n \in FreeIds
  <2>1. \E x \in FreeIds : \A y \in FreeIds : x <= y
    BY <1>4, LeastOne
  <2> QED BY <1>1, <2>1
<1>6. mapping \in [Ids -> MappingRows] /\ n \in Ids /\ mapping[n].status = "absent"
  BY <1>5 DEF FreeIds, DeskInv, Typed
<1>7. Typed'
  BY <1>2, <1>3, <1>6 DEF DeskInv, Typed, MappingRows, Statuses
<1>8. \A d \in Desks : RequestOK(d)'
  <2> TAKE d \in Desks
  <2>1. \A m \in Ids : mapping[m].status # "absent" => mapping'[m] = mapping[m]
    BY <1>2, <1>6
  <2>2. \A r \in desk[d].items : item'[r] # "none"
    BY <1>3 DEF DeskInv, RequestOK
  <2>3. desk'[d] = desk[d]
    BY <1>3
  <2> QED BY <2>1, <2>2, <2>3, PromisesKept DEF DeskInv
<1>9. Left' = Left
  BY <1>3 DEF Left
<1> QED BY <1>3, <1>7, <1>8, <1>9, DeskOnly

LEMMA CommitMappingMoves ==
  ASSUME DeskAssumption, DeskInv, NEW d \in Desks, CommitMapping(d)
  PROVE  DeskInv'
<1>1. PICK n, op : n = desk[d].id /\ op = desk[d].op
  OBVIOUS
<1>2. /\ desk \in [Desks -> Requested] /\ mapping \in [Ids -> MappingRows] /\ op \in MappingOps
      /\ n \in Ids /\ mapping[n].status # "absent" /\ mapping[n].key \in Keys
      /\ UNCHANGED <<engine, cache, batch, item, faults>>
  BY <1>1 DEF DeskInv, Typed, RequestOK, CommitMapping, batchVars
<1>3. Left' = Left
  BY <1>2 DEF Left
<1>4. CASE desk' = [desk EXCEPT ![d] = NoRequest] /\ UNCHANGED mapping
  <2>1. desk'[d] = NoRequest /\ \A e \in Desks \ {d} : desk'[e] = desk[e]
    BY <1>2, <1>4
  <2>2. \A e \in Desks : RequestOK(e)'
    BY <1>2, <1>4, <2>1, FreeIsOK, RequestRests DEF DeskInv
  <2>3. Typed'
    BY <1>2, <1>4, <2>1, FreeIsOK DEF DeskInv, Typed
  <2> QED BY <1>2, <1>3, <2>2, <2>3, DeskOnly
<1>5. ASSUME NEW asked \in StatusAfter(op),
             mapping' = [mapping EXCEPT ![n].status = After(d, asked)],
             desk' = [Noted(d, asked) EXCEPT
                        ![d] = IF NextStep(op) = "free" THEN NoRequest ELSE Committed(d, @, asked)]
      PROVE  DeskInv'
  <2>01. PICK writes \in BOOLEAN : writes <=> Writes(d, asked)
    <3>1. TRUE \in BOOLEAN /\ FALSE \in BOOLEAN
      OBVIOUS
    <3>2. CASE Writes(d, asked)
      BY <3>1, <3>2
    <3>3. CASE ~Writes(d, asked)
      BY <3>1, <3>3
    <3> QED BY <3>2, <3>3
  <2>02. PICK after : after = After(d, asked)
    OBVIOUS
  <2>03. PICK void \in BOOLEAN : void <=> asked = "approved" /\ after # "approved"
    OBVIOUS
  <2>04. PICK noted : noted = Noted(d, asked)
    OBVIOUS
  <2>05. PICK left : left = [noted[d] EXCEPT !.step = NextStep(op), !.seen = "none", !.void = void]
    OBVIOUS
  <2>0. /\ writes \in BOOLEAN /\ void \in BOOLEAN
        /\ writes <=> Writes(d, asked)
        /\ after = After(d, asked)
        /\ void <=> asked = "approved" /\ after # "approved"
        /\ noted = Noted(d, asked)
        /\ left = [noted[d] EXCEPT !.step = NextStep(op), !.seen = "none", !.void = void]
    BY <2>01, <2>02, <2>03, <2>04, <2>05
  <2>20. after = IF writes THEN asked ELSE mapping[n].status
    BY <1>1, <2>0 DEF After
  <2>21. mapping' = [mapping EXCEPT ![n].status = after]
    BY <1>5, <2>0
  <2>22. desk' = [noted EXCEPT ![d] = IF NextStep(op) = "free" THEN NoRequest ELSE left]
    <3>1. left = Committed(d, noted[d], asked)
      BY <1>1, <2>0 DEF Committed
    <3>2. d \in DOMAIN noted
      BY <2>0 DEF Noted
    <3> QED BY <1>5, <2>0, <3>1, <3>2
  <2>1. NextStep(op) \in {"free", "refresh", "build"}
    BY <1>2 DEF NextStep, MappingOps
  <2>2. /\ asked \in {"pending", "approved", "rejected", "deleted"}
        /\ after \in Statuses \ {"absent"}
        /\ op = "approve" => asked = "approved"
    BY <1>2, <2>20 DEF StatusAfter, MappingOps, MappingRows, Statuses
  <2>3. PICK gone : gone = IF asked = "approved" \/ ~writes THEN {} ELSE {mapping[n].key}
    OBVIOUS
  <2>4. /\ mapping'[n].key = mapping[n].key /\ mapping'[n].status = after
        /\ \A m \in Ids \ {n} : mapping'[m] = mapping[m]
        /\ mapping' \in [Ids -> MappingRows]
    BY <1>2, <2>2, <2>21 DEF MappingRows
  <2>6. noted = [e \in Desks |-> IF asked # "approved" /\ (e = d \/ (writes /\ desk[e].step \in {"refresh", "build"}))
                                 THEN [desk[e] EXCEPT !.undone = @ \cup {mapping[n].key}] ELSE desk[e]]
    BY <1>1, <2>0 DEF Noted
  <2>7. ASSUME NEW e \in Desks
        PROVE  /\ noted[e] \in Requested /\ desk[e] \in Requested
               /\ [desk[e] EXCEPT !.undone = @ \cup {mapping[n].key}] \in Requested
               /\ [desk[e] EXCEPT !.undone = @ \cup {}] = desk[e]
    <3>1. desk[e] \in Requested
      BY <1>2
    <3>2. [desk[e] EXCEPT !.undone = @ \cup {}] = desk[e]
      BY <3>1 DEF Requested
    <3>3. [desk[e] EXCEPT !.undone = @ \cup {mapping[n].key}] \in Requested
      BY <1>2, <3>1 DEF Requested
    <3>4. noted[e] = desk[e] \/ noted[e] = [desk[e] EXCEPT !.undone = @ \cup {mapping[n].key}]
      BY <2>6
    <3> QED BY <3>1, <3>2, <3>3, <3>4
  <2>8. \A e \in Desks \ {d} : desk'[e] = noted[e]
    BY <2>6, <2>22
  <2>9. /\ left \in Requested /\ left.step = NextStep(op) /\ left.op = op /\ left.id = n
        /\ left.items = desk[d].items /\ left.void = void
        /\ asked # "approved" => mapping[n].key \in left.undone
    <3>1. PICK q \in Requested :
            /\ q = noted[d] /\ q.op = op /\ q.id = n /\ q.items = desk[d].items
            /\ asked # "approved" => mapping[n].key \in q.undone
      <4>1. CASE asked = "approved"
        BY <1>1, <2>6, <2>7, <4>1
      <4>2. CASE asked # "approved"
        <5>1. noted[d] = [desk[d] EXCEPT !.undone = @ \cup {mapping[n].key}]
          BY <2>6, <4>2
        <5>2. PICK u : u = desk[d].undone \cup {mapping[n].key}
          OBVIOUS
        <5>3. noted[d] = [desk[d] EXCEPT !.undone = u] /\ desk[d] \in Requested
          BY <2>7, <5>1, <5>2
        <5>4. noted[d].op = op /\ noted[d].id = n /\ noted[d].items = desk[d].items /\ noted[d].undone = u
          BY <1>1, <5>3 DEF Requested
        <5> QED BY <2>7, <5>2, <5>4
      <4> QED BY <4>1, <4>2
    <3>2. left = [q EXCEPT !.step = NextStep(op), !.seen = "none", !.void = void]
      BY <2>0, <3>1
    <3> QED BY <2>1, <3>1, <3>2 DEF Requested
  <2>10. desk'[d] = IF left.step = "free" THEN NoRequest ELSE left
    BY <2>6, <2>9, <2>22
  <2>11. Typed'
    <3>1. NoRequest \in Requested
      BY DEF Requested, NoRequest, Ops, Statuses
    <3>2. DOMAIN desk' = Desks /\ desk' = [e \in Desks |-> desk'[e]]
      BY <2>6, <2>22
    <3>3. \A e \in Desks : desk'[e] \in Requested
      BY <2>7, <2>8, <2>9, <2>10, <3>1
    <3>4. desk' \in [Desks -> Requested]
      BY <3>2, <3>3
    <3> QED BY <1>2, <2>2, <2>4, <3>4 DEF DeskInv, Typed
  <2>12. ASSUME NEW m \in Ids, mapping[m].status # "absent"
         PROVE  /\ mapping'[m].key = mapping[m].key /\ mapping'[m].status # "absent"
                /\ mapping[m].status = "approved" => mapping'[m].status = "approved" \/ mapping[m].key \in gone
    BY <2>2, <2>3, <2>4, <2>12, <2>20
  <2>13. \A e \in Desks \ {d} : RequestOK(e)'
    <3> TAKE e \in Desks \ {d}
    <3>1. \A r \in desk[e].items : item'[r] # "none"
      BY <1>2 DEF DeskInv, RequestOK
    <3>2. desk'[e] = [desk[e] EXCEPT !.undone = @ \cup gone]
            \/ (desk'[e] = desk[e] /\ (desk[e].step \in {"refresh", "build"} => gone = {}))
      BY <2>3, <2>6, <2>7, <2>8
    <3> QED BY <2>12, <3>1, <3>2, PromisesKept DEF DeskInv
  <2>14. RequestOK(d)'
    <3>1. CASE left.step = "free"
      BY <2>10, <3>1, FreeIsOK
    <3>2. CASE left.step # "free"
      <4>1. /\ desk'[d] = left /\ desk'[d].step \in {"refresh", "build"} /\ desk'[d].op = op /\ desk'[d].id = n
            /\ desk'[d].items = desk[d].items /\ desk'[d].void = void
        BY <2>1, <2>9, <2>10, <3>2
      <4>2. Promised(d)' \subseteq {mapping[n].key}
        BY <1>2, <2>4, <4>1 DEF Promised, MappingOps
      <4>3. ~void => mapping[n].key \in Approved' \cup desk'[d].undone
        BY <1>2, <2>0, <2>4, <2>9, <4>1 DEF Approved
      <4>4. \A r \in desk'[d].items : item'[r] # "none"
        BY <1>2, <4>1 DEF DeskInv, RequestOK
      <4>5. mapping'[desk'[d].id].status # "absent" /\ desk'[d].id \in Ids
        BY <1>2, <2>2, <2>4, <4>1
      <4> QED BY <4>1, <4>2, <4>3, <4>4, <4>5 DEF RequestOK
    <3> QED BY <3>1, <3>2
  <2> QED BY <1>2, <1>3, <2>11, <2>13, <2>14, DeskOnly
<1> QED BY <1>1, <1>4, <1>5 DEF CommitMapping

\* What the request asked for holds after the row was read again.
LEMMA RefreshMoves ==
  ASSUME DeskAssumption, DeskInv, NEW d \in Desks, Refresh(d)
  PROVE  DeskInv'
<1>1. /\ desk \in [Desks -> Requested] /\ desk[d] \in Requested /\ desk[d].step = "refresh"
      /\ UNCHANGED <<engine, cache, batch, item, faults, mapping>>
  BY DEF DeskInv, Typed, Refresh, batchVars
<1>2. PICK r : /\ desk' = [desk EXCEPT ![d] = r]
               /\ r = NoRequest \/ r = [desk[d] EXCEPT !.step = "build"]
  BY <1>1 DEF Refresh
<1>3. desk'[d] = r /\ \A e \in Desks \ {d} : desk'[e] = desk[e]
  BY <1>1, <1>2
<1>4. RequestOK(d)' /\ r \in Requested
  <2>1. CASE r = NoRequest
    BY <1>3, <2>1, FreeIsOK
  <2>2. CASE r = [desk[d] EXCEPT !.step = "build"]
    <3>1. /\ r \in Requested /\ r.step = "build" /\ r.op = desk[d].op /\ r.id = desk[d].id
          /\ r.items = desk[d].items /\ r.undone = desk[d].undone /\ r.void = desk[d].void
      BY <1>1, <2>2 DEF Requested
    <3>2. Promised(d)' = Promised(d) /\ Approved' = Approved
      BY <1>1, <1>3, <3>1 DEF Promised, Approved
    <3> QED BY <1>1, <1>3, <3>1, <3>2 DEF DeskInv, RequestOK
  <2> QED BY <1>2, <2>1, <2>2
<1>5. \A e \in Desks : RequestOK(e)'
  BY <1>1, <1>3, <1>4, RequestRests DEF DeskInv
<1>6. Typed'
  BY <1>1, <1>2, <1>4 DEF DeskInv, Typed
<1> QED BY <1>1, <1>5, <1>6, DeskOnly DEF Left

LEMMA BuildMoves ==
  ASSUME DeskAssumption, DeskInv, NEW d \in Desks, Build(d) \/ Assign(d)
  PROVE  DeskInv'
<1>1. desk \in [Desks -> Requested] /\ RequestOK(d) /\ Approved \subseteq Keys /\ engine \in [Procs -> SUBSET Keys]
  BY ApprovedAreKeys DEF DeskInv, Typed
<1>2. UNCHANGED <<mapping, item, batch, cache, faults>>
  BY DEF Build, Assign, batchVars
<1>3. Left' = Left
  BY <1>2 DEF Left
<1>4. CASE Build(d)
  <2>1. /\ desk' = [desk EXCEPT ![d].step = "assign", ![d].built = Approved]
        /\ UNCHANGED engine /\ desk[d].step = "build"
    BY <1>4 DEF Build, batchVars
  <2>2. /\ desk'[d] = [desk[d] EXCEPT !.step = "assign", !.built = Approved] /\ desk[d] \in Requested
        /\ \A e \in Desks \ {d} : desk'[e] = desk[e]
    BY <1>1, <2>1
  <2>3. /\ desk'[d] \in Requested /\ desk'[d].step = "assign" /\ desk'[d].built = Approved
        /\ desk'[d].op = desk[d].op /\ desk'[d].id = desk[d].id /\ desk'[d].items = desk[d].items
        /\ desk'[d].undone = desk[d].undone /\ desk'[d].void = desk[d].void
    BY <1>1, <2>2 DEF Requested
  <2>4. Promised(d)' = Promised(d)
    BY <1>2, <2>3 DEF Promised
  <2>5. RequestOK(d)'
    BY <1>1, <1>2, <2>1, <2>3, <2>4 DEF RequestOK
  <2>6. \A e \in Desks : RequestOK(e)'
    BY <1>2, <2>2, <2>5, RequestRests DEF DeskInv
  <2>7. Typed'
    BY <1>1, <1>2, <2>1, <2>3 DEF DeskInv, Typed
  <2> QED BY <1>2, <1>3, <2>6, <2>7, DeskOnly
<1>5. CASE Assign(d)
  <2>1. /\ desk' = [desk EXCEPT ![d] = NoRequest]
        /\ engine' = [engine EXCEPT ![desk[d].proc] = desk[d].built]
    BY <1>5 DEF Assign
  <2>2. desk'[d] = NoRequest /\ \A e \in Desks \ {d} : desk'[e] = desk[e]
    BY <1>1, <2>1
  <2>3. \A e \in Desks : RequestOK(e)'
    BY <1>2, <2>2, FreeIsOK, RequestRests DEF DeskInv
  <2>4. desk[d].built \subseteq Keys
    BY <1>1 DEF Requested
  <2>5. Typed'
    BY <1>1, <1>2, <2>1, <2>2, <2>4, FreeIsOK DEF DeskInv, Typed
  <2> QED BY <1>2, <1>3, <2>3, <2>5, DeskOnly
<1> QED BY <1>4, <1>5

-----------------------------------------------------------------------------
(* The batch.                                                              *)

\* What a step of the batch must keep.
LEMMA BatchOnly ==
  ASSUME DeskAssumption, DeskInv, UNCHANGED <<mapping, desk, engine>>,
         batch' \in Batches, cache' \subseteq Keys, faults' \in 0 .. MaxFaults,
         item' = item \/ item' = WithItems(Misses), ReviewInv', CountInv'
  PROVE  DeskInv'
<1>1. item \in [Strings -> ItemStates]
  BY DEF DeskInv, Typed
<1>2. item' \in [Strings -> ItemStates] /\ \A r \in Strings : item[r] # "none" => item'[r] # "none"
  BY <1>1 DEF WithItems, ItemStates
<1>3. Typed'
  BY <1>2 DEF DeskInv, Typed
<1>4. \A d \in Desks : RequestOK(d)'
  <2> TAKE d \in Desks
  <2>1. \A r \in desk'[d].items : item'[r] # "none"
    BY <1>2 DEF DeskInv, Typed, Requested, RequestOK
  <2>2. Promised(d)' = Promised(d) /\ Approved' = Approved
    BY DEF Promised, Approved
  <2> QED BY <2>1, <2>2 DEF DeskInv, RequestOK
<1> QED BY <1>3, <1>4 DEF DeskInv

LEMMA FaultsGrow ==
  ASSUME DeskAssumption, DeskInv, Fault
  PROVE  faults' \in 0 .. MaxFaults
BY Constants DEF DeskInv, Typed, Fault

\* The items of the misses, once.
LEMMA ItemsMade ==
  ASSUME DeskAssumption, DeskInv, Left = {}, item' = WithItems(Misses)
  PROVE  {r \in Rows : item'[r] # "none"} = Misses
<1>1. item \in [Strings -> ItemStates] /\ Misses \subseteq Rows /\ Rows \subseteq Strings
  BY Constants DEF DeskInv, Typed, Misses, Unmatched
<1>2. \A r \in Rows : item'[r] # "none" <=> r \in Misses
  BY <1>1 DEF WithItems, Left
<1> QED BY <1>1, <1>2

LEMMA UploadMoves ==
  ASSUME DeskAssumption, DeskInv, NEW p \in Procs, Upload(p), UNCHANGED <<mapping, desk>>
  PROVE  DeskInv'
<1>1. PICK mode \in AiModes :
        batch' = [batch EXCEPT !.step = "start", !.proc = p, !.mode = mode, !.status = "queued",
                               !.known = engine[p], !.upload = TRUE]
  BY DEF Upload
<1>2. batch \in Batches /\ batch.step = "none" /\ Left = {} /\ engine[p] \subseteq Keys
      /\ UNCHANGED <<engine, cache, item, faults>>
  BY DEF DeskInv, Typed, ReviewInv, Running, Upload
<1>3. batch' \in Batches /\ batch'.step = "start" /\ batch'.status = "queued"
  BY <1>1, <1>2, Constants DEF Batches
<1>4. Left' = {}
  BY <1>2 DEF Left
<1>5. ReviewInv' /\ CountInv'
  BY <1>3, <1>4 DEF ReviewInv, CountInv
<1> QED BY <1>2, <1>3, <1>5, BatchOnly DEF DeskInv, Typed

\* The steps up to the last commit leave nothing on the desk.
LEMMA RunMoves ==
  ASSUME DeskAssumption, DeskInv, batch.step \in Running, UNCHANGED <<mapping, desk, engine, item, faults>>,
         batch' \in Batches, batch'.step \in Running, batch'.status # "completed", cache' \subseteq Keys, CountInv'
  PROVE  DeskInv'
<1>1. Left' = Left /\ Left = {}
  BY DEF Left, DeskInv, ReviewInv
<1>2. ReviewInv'
  BY <1>1 DEF ReviewInv
<1> QED BY <1>2, BatchOnly DEF DeskInv, Typed

\* The international batch counts its rows some at a time.
ScanSome(n) ==
  /\ batch.step = "layer 1"
  /\ \/ batch' = [batch EXCEPT !.processed = @ + n] /\ batch.processed + n <= Cardinality(Rows)
     \/ batch' = [batch EXCEPT !.step = "finish"]
  /\ UNCHANGED <<engine, cache, item, faults>>

LEMMA PassMoves ==
  ASSUME DeskAssumption, DeskInv, NEW n \in Nat, Start \/ Layer1 \/ ScanSome(n), UNCHANGED <<mapping, desk>>
  PROVE  DeskInv'
<1>1. batch \in Batches /\ cache \subseteq Keys /\ UNCHANGED <<engine, cache, item, faults>>
      /\ batch.processed \in 0 .. Cardinality(Rows) /\ Cardinality(Rows) \in Nat
  BY RowsAreFinite DEF DeskInv, Typed, Batches, Start, Layer1, ScanSome
<1>2. batch.step \in Running => batch.status # "completed"
  BY DEF DeskInv, ReviewInv
<1>3. CASE Start
  <2>1. batch' = [batch EXCEPT !.step = "layer 1", !.status = "processing"] /\ batch.step = "start"
    BY <1>3 DEF Start
  <2>2. batch' \in Batches /\ batch'.step = "layer 1" /\ batch'.status = "processing"
    BY <1>1, <2>1 DEF Batches
  <2> QED BY <1>1, <2>1, <2>2, RunMoves DEF Running, CountInv
<1>4. CASE Layer1
  <2>1. PICK step \in {"finish", "prefill"} :
          /\ batch' = [batch EXCEPT !.processed = Cardinality(Rows \ Unmatched), !.step = step]
          /\ batch.step = "layer 1"
    BY <1>4 DEF Layer1
  <2>2. Cardinality(Rows \ Unmatched) + Cardinality(Unmatched) = Cardinality(Rows)
        /\ Cardinality(Unmatched) \in Nat /\ Cardinality(Rows \ Unmatched) \in 0 .. Cardinality(Rows)
    BY RowsAreFinite DEF Unmatched
  <2>3. /\ batch' \in Batches /\ batch'.step = step /\ batch'.status = batch.status
        /\ batch'.known = batch.known /\ batch'.processed = Cardinality(Rows \ Unmatched)
    BY <1>1, <2>1, <2>2 DEF Batches
  <2>4. Unmatched' = Unmatched
    BY <2>3 DEF Unmatched
  <2>5. CountInv'
    BY <2>2, <2>3, <2>4 DEF CountInv
  <2> QED BY <1>1, <1>2, <2>1, <2>3, <2>5, RunMoves DEF Running
<1>5. CASE ScanSome(n)
  <2>1. CASE batch' = [batch EXCEPT !.processed = @ + n] /\ batch.processed + n <= Cardinality(Rows)
    <3>2. batch.processed + n \in 0 .. Cardinality(Rows)
      BY <1>1, <2>1, CountedRows
    <3>3. batch.step = "layer 1"
      BY <1>5 DEF ScanSome
    <3>1. /\ batch' \in Batches /\ batch'.step = "layer 1" /\ batch.step = "layer 1"
          /\ batch'.status = batch.status
      BY <1>1, <2>1, <3>2, <3>3 DEF Batches
    <3> QED BY <1>1, <1>2, <3>1, RunMoves DEF Running, CountInv
  <2>2. CASE batch' = [batch EXCEPT !.step = "finish"]
    <3>1. /\ batch' \in Batches /\ batch'.step = "finish" /\ batch.step = "layer 1"
          /\ batch'.status = batch.status
      BY <1>1, <1>5, <2>2 DEF Batches, ScanSome
    <3> QED BY <1>1, <1>2, <3>1, RunMoves DEF Running, CountInv
  <2> QED BY <1>5, <2>1, <2>2 DEF ScanSome
<1> QED BY <1>3, <1>4, <1>5

LEMMA PrefillMoves ==
  ASSUME DeskAssumption, DeskInv, Prefill, UNCHANGED <<mapping, desk>>
  PROVE  DeskInv'
<1>1. batch \in Batches /\ cache \subseteq Keys /\ batch.step = "prefill" /\ batch.status # "completed"
      /\ UNCHANGED <<engine, cache, item, faults>>
  BY DEF DeskInv, Typed, ReviewInv, Running, Prefill
<1>2. UnmatchedKeys \subseteq Keys /\ Sampled \subseteq Keys
  BY DEF UnmatchedKeys, Sampled
<1>3. PICK answer \in [Keys -> {"none", "suggestion", "failed"}], asked \in SUBSET Keys :
        batch' = [batch EXCEPT !.step = "calls", !.answer = answer, !.asked = asked]
  <2>1. PICK found : batch' = [batch EXCEPT !.step = "calls",
                       !.answer = [k \in Keys |-> IF k \in found THEN "suggestion" ELSE "none"],
                       !.asked = IF batch.mode = "full" THEN UnmatchedKeys \ found ELSE Sampled]
    BY DEF Prefill
  <2>2. [k \in Keys |-> IF k \in found THEN "suggestion" ELSE "none"] \in [Keys -> {"none", "suggestion", "failed"}]
    OBVIOUS
  <2>3. (IF batch.mode = "full" THEN UnmatchedKeys \ found ELSE Sampled) \in SUBSET Keys
    BY <1>2
  <2> QED BY <2>1, <2>2, <2>3
<1>4. /\ batch' \in Batches /\ batch'.step = "calls" /\ batch'.status = batch.status
      /\ batch'.known = batch.known /\ batch'.processed = batch.processed
  BY <1>1, <1>3 DEF Batches
<1>5. Unmatched' = Unmatched /\ Unmatched \subseteq Rows
  BY <1>4 DEF Unmatched
<1>6. Awaited' \subseteq Unmatched
  BY <1>5 DEF Awaited
<1>7. Cardinality(Awaited') <= Cardinality(Unmatched) /\ Cardinality(Awaited') \in Nat /\ Cardinality(Unmatched) \in Nat
  <2>1. IsFiniteSet(Unmatched)
    BY <1>5, RowsAreFinite
  <2> QED BY <1>6, <2>1, FS_Subset, FS_CardinalityType
<1>8. batch.processed + Cardinality(Unmatched) <= Cardinality(Rows) /\ batch.processed \in Nat /\ Cardinality(Rows) \in Nat
  BY <1>1, CountedRows DEF DeskInv, CountInv
<1>9. CountInv'
  BY <1>4, <1>7, <1>8 DEF CountInv
<1> QED BY <1>1, <1>4, <1>9, RunMoves DEF Running

LEMMA CollectMoves ==
  ASSUME DeskAssumption, DeskInv, NEW k \in Keys, Collect(k), UNCHANGED <<mapping, desk>>
  PROVE  DeskInv'
<1>1. batch \in Batches /\ cache' \subseteq Keys /\ batch.step = "calls" /\ batch.status # "completed"
      /\ UNCHANGED <<engine, item, faults>> /\ k \in batch.asked
  BY DEF DeskInv, Typed, ReviewInv, Running, Collect
<1>2. PICK answer \in {"suggestion", "failed"} :
        batch' = [batch EXCEPT !.asked = @ \ {k}, !.answer[k] = answer,
                    !.processed = IF batch.mode = "full" THEN @ + Cardinality(RowsOf(k)) ELSE @]
  BY DEF Collect
<1>3. /\ Awaited \subseteq Rows /\ RowsOf(k) \subseteq Awaited
      /\ IsFiniteSet(Awaited) /\ IsFiniteSet(RowsOf(k))
      /\ Cardinality(Awaited) \in Nat /\ Cardinality(RowsOf(k)) \in Nat
  <2>1. Awaited \subseteq Rows /\ RowsOf(k) \subseteq Awaited
    BY <1>1 DEF Awaited, RowsOf, Unmatched
  <2> QED BY <2>1, RowsAreFinite
<1>4. Cardinality(Awaited \ RowsOf(k)) = Cardinality(Awaited) - Cardinality(RowsOf(k))
  <2>1. Awaited \cap RowsOf(k) = RowsOf(k)
    BY <1>3
  <2> QED BY <1>3, <2>1, FS_Difference
<1>5. batch.mode = "full" => batch.processed + Cardinality(Awaited) <= Cardinality(Rows)
  BY <1>1 DEF DeskInv, CountInv
<1>6. batch.processed \in Nat /\ batch.processed <= Cardinality(Rows) /\ Cardinality(Rows) \in Nat
  BY <1>1, CountedRows
<1>7. PICK count \in 0 .. Cardinality(Rows) :
        /\ count = IF batch.mode = "full" THEN batch.processed + Cardinality(RowsOf(k)) ELSE batch.processed
        /\ batch.mode = "full" => count + Cardinality(Awaited \ RowsOf(k)) <= Cardinality(Rows)
  <2>1. CASE batch.mode = "full"
    <3>1. Cardinality(RowsOf(k)) <= Cardinality(Awaited)
      BY <1>3, FS_Subset
    <3> QED BY <1>3, <1>4, <1>5, <1>6, <2>1, <3>1
  <2>2. CASE batch.mode # "full"
    BY <1>6, <2>2
  <2> QED BY <2>1, <2>2
<1>8. batch' = [batch EXCEPT !.asked = @ \ {k}, !.answer = [@ EXCEPT ![k] = answer], !.processed = count]
  BY <1>2, <1>7
<1>9. [batch.answer EXCEPT ![k] = answer] \in [Keys -> {"none", "suggestion", "failed"}]
  BY <1>1 DEF Batches
<1>10. /\ batch' \in Batches /\ batch'.step = "calls" /\ batch'.status = batch.status /\ batch'.mode = batch.mode
       /\ batch'.known = batch.known /\ batch'.processed = count /\ batch'.asked = batch.asked \ {k}
  BY <1>1, <1>8, <1>9 DEF Batches
<1>11. Awaited' = Awaited \ RowsOf(k)
  <2>1. Unmatched' = Unmatched
    BY <1>10 DEF Unmatched
  <2> QED BY <1>10, <2>1 DEF Awaited, RowsOf
<1>12. CountInv'
  BY <1>7, <1>10, <1>11 DEF CountInv
<1> QED BY <1>1, <1>10, <1>12, RunMoves DEF Running

LEMMA EndMoves ==
  ASSUME DeskAssumption, DeskInv, Finish \/ SaveFails \/ RunFails \/ Tidy, UNCHANGED <<mapping, desk>>
  PROVE  DeskInv'
<1>1. batch \in Batches /\ cache \subseteq Keys /\ UNCHANGED <<engine, cache>>
      /\ AfterFailure \in {"tidy", "over"} /\ Cardinality(Rows) \in Nat
  BY RowsAreFinite DEF DeskInv, Typed, Finish, SaveFails, RunFails, Tidy, AfterFailure
<1>2. CASE Finish \/ SaveFails
  <2>1. PICK step \in {"tidy", "over"}, status \in {"completed", "failed"} :
          batch' = [batch EXCEPT !.step = step, !.status = status, !.processed = Cardinality(Rows)]
    BY <1>1, <1>2 DEF Finish, SaveFails
  <2>2. Left = {} /\ item' = WithItems(Misses) /\ faults' \in 0 .. MaxFaults
    BY <1>2, FaultsGrow DEF Finish, SaveFails, Written, DeskInv, Typed, ReviewInv, Running
  <2>7. Cardinality(Rows) \in 0 .. Cardinality(Rows)
    BY <1>1
  <2>3. /\ batch' \in Batches /\ batch'.step \in {"tidy", "over"} /\ batch'.known = batch.known
        /\ batch'.processed = Cardinality(Rows)
    BY <1>1, <2>1, <2>7 DEF Batches
  <2>4. Misses' = Misses
    BY <2>3 DEF Misses, Unmatched
  <2>5. Left' = Misses
    BY <2>2, ItemsMade DEF Left
  <2>6. ReviewInv' /\ CountInv'
    BY <2>3, <2>4, <2>5 DEF ReviewInv, CountInv, Running
  <2> QED BY <1>1, <2>2, <2>3, <2>6, BatchOnly
<1>3. CASE RunFails \/ Tidy
  <2>1. PICK step \in {"tidy", "over"}, status \in {"failed", batch.status}, upload \in {FALSE, batch.upload} :
          batch' = [batch EXCEPT !.step = step, !.status = status, !.upload = upload]
    <3>1. CASE RunFails
      <4>1. PICK status \in {"failed", batch.status} :
              batch' = [batch EXCEPT !.status = status, !.step = IF batch.step = "start" THEN "over" ELSE AfterFailure]
        BY <3>1 DEF RunFails
      <4>2. batch' = [batch EXCEPT !.step = batch'.step, !.status = status, !.upload = batch.upload]
            /\ batch'.step \in {"tidy", "over"}
        BY <1>1, <4>1 DEF Batches
      <4> QED BY <4>2
    <3>2. CASE Tidy
      <4>1. batch' = [batch EXCEPT !.step = "over", !.upload = FALSE]
        BY <3>2 DEF Tidy
      <4>2. batch' = [batch EXCEPT !.step = "over", !.status = batch.status, !.upload = FALSE]
        BY <1>1, <4>1 DEF Batches
      <4> QED BY <4>2
    <3> QED BY <1>3, <3>1, <3>2
  <2>2. UNCHANGED item /\ faults' \in 0 .. MaxFaults
    BY <1>3, FaultsGrow DEF RunFails, Tidy, DeskInv, Typed
  <2>3. /\ batch' \in Batches /\ batch'.step \in {"tidy", "over"} /\ batch'.known = batch.known
        /\ batch'.processed = batch.processed /\ batch'.status \in {"failed", batch.status}
    BY <1>1, <2>1 DEF Batches
  <2>4. Misses' = Misses /\ Left' = Left
    BY <2>2, <2>3 DEF Misses, Unmatched, Left
  <2>5. ReviewInv' /\ CountInv'
    BY <2>3, <2>4 DEF DeskInv, ReviewInv, CountInv, Running
  <2> QED BY <1>1, <2>2, <2>3, <2>5, BatchOnly
<1> QED BY <1>2, <1>3

-----------------------------------------------------------------------------
(* Steps of both.                                                          *)

\* A string typed in makes a review item that is of no upload.
LEMMA SingleMoves ==
  ASSUME DeskAssumption, DeskInv, NEW s \in Singles, item' = WithItems({s}), cache' \subseteq Keys,
         UNCHANGED <<engine, batch, faults, mapping, desk>>
  PROVE  DeskInv'
<1>1. item \in [Strings -> ItemStates]
  BY DEF DeskInv, Typed
<1>2. item' \in [Strings -> ItemStates] /\ \A r \in Strings : item[r] # "none" => item'[r] # "none"
  BY <1>1 DEF WithItems, ItemStates
<1>3. Typed'
  BY <1>2 DEF DeskInv, Typed
<1>4. \A d \in Desks : RequestOK(d)'
  <2> TAKE d \in Desks
  <2>1. \A r \in desk'[d].items : item'[r] # "none"
    BY <1>2 DEF DeskInv, Typed, Requested, RequestOK
  <2>2. Promised(d)' = Promised(d) /\ Approved' = Approved
    BY DEF Promised, Approved
  <2> QED BY <2>1, <2>2 DEF DeskInv, RequestOK
<1>5. Left' = Left
  BY <1>1, Constants DEF Left, WithItems
<1> QED BY <1>3, <1>4, <1>5, DeskOnly

LEMMA RestartMoves ==
  ASSUME DeskAssumption, DeskInv, NEW p \in Procs, Restart(p)
  PROVE  DeskInv'
<1>1. /\ batch \in Batches /\ desk \in [Desks -> Requested] /\ engine \in [Procs -> SUBSET Keys]
      /\ UNCHANGED <<cache, item, mapping>> /\ faults' \in 0 .. MaxFaults
      /\ engine' = [engine EXCEPT ![p] = Approved]
      /\ desk' = [d \in Desks |-> IF desk[d].proc = p THEN NoRequest ELSE desk[d]]
      /\ batch' = [batch EXCEPT !.step = "over"] \/ batch' = batch
  BY FaultsGrow DEF DeskInv, Typed, Restart, Stopped
<1>2. /\ batch' \in Batches /\ batch'.status = batch.status /\ batch'.known = batch.known
      /\ batch'.processed = batch.processed
      /\ batch'.step = "over" \/ batch' = batch
  BY <1>1 DEF Batches
<1>3. Misses' = Misses /\ Left' = Left /\ Unmatched' = Unmatched
  BY <1>1, <1>2 DEF Misses, Unmatched, Left
<1>4. ReviewInv'
  BY <1>2, <1>3 DEF DeskInv, ReviewInv, Running
<1>5. CountInv'
  <2>1. CASE batch'.step = "over"
    BY <2>1 DEF CountInv
  <2>2. CASE batch' = batch
    BY <1>3, <2>2 DEF DeskInv, CountInv, Awaited
  <2> QED BY <1>2, <2>1, <2>2
<1>6. \A d \in Desks : RequestOK(d)' /\ desk'[d] \in Requested
  <2> TAKE d \in Desks
  <2>1. CASE desk[d].proc = p
    BY <1>1, <2>1, FreeIsOK
  <2>2. CASE desk[d].proc # p
    <3>1. desk'[d] = desk[d] /\ desk[d] \in Requested
      BY <1>1, <2>2
    <3> QED BY <1>1, <3>1, RequestRests DEF DeskInv
  <2> QED BY <2>1, <2>2
<1>7. Typed'
  BY <1>1, <1>2, <1>6, ApprovedAreKeys DEF DeskInv, Typed
<1> QED BY <1>4, <1>5, <1>6, <1>7 DEF DeskInv

-----------------------------------------------------------------------------
(* The steps of the three desks, and what the invariant says.              *)

LEMMA DeskMoves ==
  ASSUME DeskAssumption, DeskInv, Next
  PROVE  DeskInv'
<1>1. CASE BatchNext /\ UNCHANGED deskVars
  BY <1>1, UploadMoves, PassMoves, PrefillMoves, CollectMoves, EndMoves
     DEF BatchNext, BatchStep, BatchFault, deskVars
<1>2. ASSUME NEW d \in Desks, Serve(d) PROVE DeskInv'
  BY <1>2, CommitItemsMoves, CommitRejectMoves, CommitMappingMoves, RefreshMoves, BuildMoves DEF Serve
<1>3. ASSUME NEW p \in Procs, NEW s \in Singles, DetectSingle(p, s) PROVE DeskInv'
  <2>1. cache' \subseteq Keys /\ item' = WithItems({s}) /\ UNCHANGED <<engine, batch, faults, mapping, desk>>
    BY <1>3 DEF DetectSingle, deskVars, DeskInv, Typed
  <2> QED BY <2>1, SingleMoves
<1> QED BY <1>1, <1>2, <1>3, TakesMove, CreateMoves, RestartMoves DEF Next, DeskNext

LEMMA DeskRests ==
  ASSUME DeskInv, UNCHANGED <<engine, cache, batch, item, faults, mapping, desk>>
  PROVE  DeskInv'
<1>1. Typed'
  BY DEF DeskInv, Typed
<1>2. Left' = Left
  BY DEF Left
<1>3. \A d \in Desks : RequestOK(d)'
  BY RequestRests DEF DeskInv
<1> QED BY <1>1, <1>2, <1>3, DeskOnly

LEMMA DeskSays ==
  ASSUME DeskAssumption, DeskInv
  PROVE  TypeOK /\ EveryMissIsReviewed /\ ApprovalIsInTheEngine
<1>1. BatchTypeOK
  BY DEF DeskInv, Typed, Batches, BatchTypeOK, Strings, ItemStates
<1>2. TypeOK
  BY <1>1 DEF DeskInv, Typed, TypeOK, MappingRows, Statuses, Requested
<1>3. EveryMissIsReviewed
  BY DEF DeskInv, ReviewInv, Left, EveryMissIsReviewed
<1>4. ApprovalIsInTheEngine
  BY DEF DeskInv, RequestOK, ApprovalIsInTheEngine
<1> QED BY <1>2, <1>3, <1>4
====
