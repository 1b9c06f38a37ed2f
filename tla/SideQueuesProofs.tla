--------------------------- MODULE SideQueuesProofs ---------------------------
(***************************************************************************)
(* Proofs about the jobs of SideQueues: what a finished lobby check, a     *)
(* calendar sheet and a deleted-showtimes report say is what was done.     *)
(* The services share no state, so the invariant of each has the form      *)
(* service = "name" => ..., and a step of another service leaves it.       *)
(***************************************************************************)
EXTENDS SideQueues, TLAPS, FiniteSetTheorems

-----------------------------------------------------------------------------
(* The lobby check.                                                        *)

WorkSteps == {"load", "commit", "bump"}
LobbySteps ==
  WorkSteps \cup {"free", "dispatch", "settle", "claim", "publish finalize", "select", "claim rows",
                  "publish rows", "finalize", "mark failed"}

RowMsgs == [step : {"load"}, row : Images, tries : 0 .. Attempts - 1]
JobMsgs == [step : {"dispatch", "finalize"}, row : {0}, tries : {0}]

Outcomes == {"completed", "failed"}
Tasks ==
  [step : LobbySteps, row : Images \cup {0}, tries : Nat, outcome : Outcomes \cup {"none"},
   limit : Nat, rows : SUBSET Images, rescue : BOOLEAN]

LobbyJobs ==
  [phase : {"queued", "processing", "completed", "completed_with_errors", "failed"},
   claimed : BOOLEAN, processed : Nat, succeeded : Nat, failed : Nat]

LobbyTyped ==
  /\ job \in LobbyJobs
  /\ image \in [Images -> {"pending", "dispatched", "completed", "failed"}]
  /\ queue \subseteq RowMsgs \cup JobMsgs
  /\ taker \in [LobbyTakers -> Tasks]
  /\ errors \in Nat /\ dropped \in BOOLEAN
  /\ \A t \in LobbyTakers :
       /\ taker[t].step \in WorkSteps => taker[t].row \in Images
       /\ taker[t].step \in {"commit", "bump"} => taker[t].outcome \in Outcomes
       /\ taker[t].step \in WorkSteps /\ taker[t].rescue => errors >= 1

\* A row past the claim has one token: its message, the task that works on
\* it, or its place among the rows a task is about to publish.
Works(t, i) == taker[t].step \in WorkSteps /\ taker[t].row = i
Carries(t, i) == Works(t, i) \/ (taker[t].step = "publish rows" /\ i \in taker[t].rows)
MsgsOf(i) == {m \in queue : m.step = "load" /\ m.row = i}

RowToken(i) ==
  /\ \A m, n \in MsgsOf(i) : m = n
  /\ MsgsOf(i) # {} => image[i] = "dispatched" /\ \A t \in LobbyTakers : ~Carries(t, i)
  /\ \A t, u \in LobbyTakers : Carries(t, i) /\ Carries(u, i) => t = u
  /\ \A t \in LobbyTakers : Carries(t, i) =>
       /\ image[i] # "pending"
       /\ image[i] # "dispatched" => taker[t].step = "bump" \/ (taker[t].step = "commit" /\ taker[t].rescue)
       /\ taker[t].step = "bump" => image[i] = taker[t].outcome

\* Until the dispatch marks the job, nothing of it is out.
Undispatched == (\E m \in queue : m.step = "dispatch") \/ (\E t \in LobbyTakers : taker[t].step = "dispatch")
DispatchInv ==
  Undispatched =>
    /\ \A i \in Images : image[i] = "pending"
    /\ \A m \in queue : m.step = "dispatch"
    /\ queue # {} => \A t \in LobbyTakers : taker[t].step = "free"
    /\ \A t \in LobbyTakers : taker[t].step \in {"free", "dispatch"}
    /\ \A t, u \in LobbyTakers : taker[t].step = "dispatch" /\ taker[u].step = "dispatch" => t = u
    /\ job.phase = "queued" /\ ~job.claimed

\* Whoever ends the job, except by a failed dispatch, has seen that no row is
\* outstanding.
Ending ==
  \/ job.claimed \/ job.phase \in {"completed", "completed_with_errors"}
  \/ \E m \in queue : m.step = "finalize"
  \/ \E t \in LobbyTakers : taker[t].step \in {"publish finalize", "finalize"}
EndInv == Ending => \A i \in Images : image[i] \in Outcomes

\* The rows the counters know of: ended, and in nobody's hands.
Counted(outcomes) == {i \in Images : image[i] \in outcomes /\ \A t \in LobbyTakers : ~Works(t, i)}
CountInv ==
  errors <= 1 =>
    /\ job.processed = Cardinality(Counted(Outcomes))
    /\ job.succeeded = Cardinality(Counted({"completed"}))
    /\ job.failed = Cardinality(Counted({"failed"}))

LobbyBody == LobbyTyped /\ (\A i \in Images : RowToken(i)) /\ DispatchInv /\ EndInv /\ CountInv
LobbyInv == service = "lobby" => LobbyBody

LEMMA LobbyConstants ==
  /\ IsFiniteSet(Images) /\ 0 \notin Images
  /\ Window \in Nat \ {0} /\ Refill \in Nat \ {0} /\ Attempts \in Nat \ {0} /\ MaxErrors \in Nat
BY SideAssumption DEF SideAssumption, Lobby!LobbyAssumption, Lobby!IsFiniteSet, IsFiniteSet

LEMMA LobbyStart == Init => LobbyInv
<1> SUFFICES ASSUME Init, service = "lobby" PROVE LobbyBody
  BY DEF LobbyInv
<1>1. Lobby!LobbyInit
  BY DEF Init
<1>2. LobbyTyped
  <2>1. PICK free : free = Lobby!Free
    OBVIOUS
  <2>2. free \in Tasks /\ free.step = "free"
    BY <2>1 DEF Lobby!Free, Tasks, LobbySteps, WorkSteps
  <2>3. taker = [t \in LobbyTakers |-> free] /\ errors = 0 /\ dropped = FALSE
        /\ image = [i \in Images |-> "pending"]
    BY <1>1, <2>1 DEF Lobby!LobbyInit
  <2>4. job \in LobbyJobs /\ queue \subseteq JobMsgs
    BY <1>1 DEF Lobby!LobbyInit, LobbyJobs, JobMsgs
  <2> QED BY <2>2, <2>3, <2>4 DEF LobbyTyped, WorkSteps
<1>3. /\ \A i \in Images : image[i] = "pending"
      /\ \A t \in LobbyTakers : taker[t].step = "free"
      /\ \A m \in queue : m.step = "dispatch"
      /\ job.phase = "queued" /\ ~job.claimed /\ job.processed = 0 /\ job.succeeded = 0 /\ job.failed = 0
  BY <1>1 DEF Lobby!LobbyInit, Lobby!Free
<1>4. \A i \in Images : RowToken(i)
  BY <1>3 DEF RowToken, MsgsOf, Carries, Works, WorkSteps
<1>5. DispatchInv /\ EndInv
  BY <1>3 DEF DispatchInv, EndInv, Ending
<1>6. Counted(Outcomes) = {} /\ Counted({"completed"}) = {} /\ Counted({"failed"}) = {}
  BY <1>3 DEF Counted, Outcomes
<1>7. CountInv
  BY <1>3, <1>6, FS_EmptySet DEF CountInv
<1> QED BY <1>2, <1>4, <1>5, <1>7 DEF LobbyBody

-----------------------------------------------------------------------------
(* What a step of one task leaves alone.                                   *)

Only(t) == \A u \in LobbyTakers : u # t => taker'[u] = taker[u]

\* Task t is now at a step, with the same row in hand.
Moved(t, step) ==
  /\ taker' \in [LobbyTakers -> Tasks] /\ Only(t)
  /\ taker'[t].step = step /\ taker'[t].row = taker[t].row /\ taker'[t].tries = taker[t].tries

Freed(t) ==
  /\ taker' \in [LobbyTakers -> Tasks] /\ Only(t)
  /\ taker'[t].step = "free" /\ taker'[t].row = 0

LEMMA GotoMoves ==
  ASSUME LobbyTyped, NEW t \in LobbyTakers, NEW step \in LobbySteps, Lobby!Goto(t, step)
  PROVE  /\ Moved(t, step)
         /\ taker'[t].outcome = taker[t].outcome /\ taker'[t].rescue = taker[t].rescue
         /\ taker'[t].rows = taker[t].rows
<1>1. PICK old \in Tasks : old = taker[t]
  BY DEF LobbyTyped
<1>2. PICK new : new = [old EXCEPT !.step = step]
  OBVIOUS
<1>3. taker' = [taker EXCEPT ![t] = new]
  BY <1>1, <1>2 DEF Lobby!Goto
<1>4. new \in Tasks /\ new.step = step /\ new.row = old.row /\ new.tries = old.tries
      /\ new.outcome = old.outcome /\ new.rescue = old.rescue /\ new.rows = old.rows
  BY <1>1, <1>2 DEF Tasks
<1>5. taker \in [LobbyTakers -> Tasks]
  BY DEF LobbyTyped
<1> QED BY <1>1, <1>3, <1>4, <1>5 DEF Moved, Only

LEMMA FillMoves ==
  ASSUME LobbyTyped, NEW t \in LobbyTakers, NEW limit \in Nat, Lobby!Fill(t, limit)
  PROVE  Moved(t, "select")
<1>1. PICK old \in Tasks : old = taker[t]
  BY DEF LobbyTyped
<1>2. PICK new : new = [old EXCEPT !.step = "select", !.limit = limit]
  OBVIOUS
<1>3. taker \in [LobbyTakers -> Tasks]
  BY DEF LobbyTyped
<1>4. taker' = [taker EXCEPT ![t] = new]
  BY <1>1, <1>2, <1>3 DEF Lobby!Fill
<1>5. new \in Tasks /\ new.step = "select" /\ new.row = old.row /\ new.tries = old.tries
  BY <1>1, <1>2 DEF Tasks, LobbySteps
<1> QED BY <1>1, <1>3, <1>4, <1>5 DEF Moved, Only

LEMMA DoneFrees ==
  ASSUME LobbyTyped, NEW t \in LobbyTakers, Lobby!Done(t)
  PROVE  Freed(t)
<1>1. PICK free : free = Lobby!Free
  OBVIOUS
<1>2. free \in Tasks /\ free.step = "free" /\ free.row = 0
  BY <1>1 DEF Lobby!Free, Tasks, LobbySteps, WorkSteps
<1>3. taker' = [taker EXCEPT ![t] = free] /\ taker \in [LobbyTakers -> Tasks]
  BY <1>1 DEF Lobby!Done, LobbyTyped
<1> QED BY <1>2, <1>3 DEF Freed, Only

\* The token of a row stays where it is, or is given up.
LEMMA TokenStays ==
  ASSUME NEW i, NEW t \in LobbyTakers, RowToken(i), Only(t),
         \A m : m \in MsgsOf(i)' => m \in MsgsOf(i),
         Carries(t, i)' => Carries(t, i),
         MsgsOf(i)' # {} => image'[i] = image[i],
         (\E u \in LobbyTakers : u # t /\ Carries(u, i)) => image'[i] = image[i],
         Carries(t, i)' =>
           /\ image'[i] # "pending"
           /\ image'[i] # "dispatched" => taker'[t].step = "bump" \/ (taker'[t].step = "commit" /\ taker'[t].rescue)
           /\ taker'[t].step = "bump" => image'[i] = taker'[t].outcome
  PROVE  RowToken(i)'
<1>1. \A u \in LobbyTakers : u # t => (Carries(u, i)' <=> Carries(u, i))
  BY DEF Only, Carries, Works
<1>2. \A u \in LobbyTakers : Carries(u, i)' => Carries(u, i)
  BY <1>1
<1>3. \A m, n \in MsgsOf(i)' : m = n
  BY DEF RowToken
<1>4. MsgsOf(i)' # {} => MsgsOf(i) # {}
  OBVIOUS
<1>5. \A u \in LobbyTakers : Carries(u, i)' =>
       /\ image'[i] # "pending"
       /\ image'[i] # "dispatched" => taker'[u].step = "bump" \/ (taker'[u].step = "commit" /\ taker'[u].rescue)
       /\ taker'[u].step = "bump" => image'[i] = taker'[u].outcome
  BY <1>1 DEF Only, RowToken
<1> QED BY <1>2, <1>3, <1>4, <1>5 DEF RowToken

\* A task takes the message of a row.
LEMMA TokenTaken ==
  ASSUME NEW i, NEW t \in LobbyTakers, RowToken(i), Only(t),
         NEW m \in MsgsOf(i), \A n : n \in MsgsOf(i)' => n \in MsgsOf(i) /\ n # m,
         taker'[t].step = "load", image'[i] = image[i]
  PROVE  RowToken(i)'
<1>1. \A u \in LobbyTakers : u # t => (Carries(u, i)' <=> Carries(u, i))
  BY DEF Only, Carries, Works
<1>2. MsgsOf(i)' = {}
  BY DEF RowToken
<1>3. image[i] = "dispatched" /\ \A u \in LobbyTakers : ~Carries(u, i)
  BY DEF RowToken
<1> QED BY <1>1, <1>2, <1>3 DEF RowToken

\* A task gives the row back to the queue.
LEMMA TokenGiven ==
  ASSUME NEW i, NEW t \in LobbyTakers, RowToken(i), Only(t), Carries(t, i), ~Carries(t, i)',
         NEW m, \A n : n \in MsgsOf(i)' => n = m \/ n \in MsgsOf(i),
         image'[i] = image[i], taker[t].step \in {"load", "publish rows"}
  PROVE  RowToken(i)'
<1>1. \A u \in LobbyTakers : u # t => (Carries(u, i)' <=> Carries(u, i))
  BY DEF Only, Carries, Works
<1>2. MsgsOf(i) = {} /\ image[i] = "dispatched" /\ \A u \in LobbyTakers : u # t => ~Carries(u, i)
  BY DEF RowToken
<1> QED BY <1>1, <1>2 DEF RowToken

\* A task claims a pending row.
LEMMA TokenMade ==
  ASSUME NEW i, NEW t \in LobbyTakers, RowToken(i), Only(t), image[i] = "pending", image'[i] = "dispatched",
         \A n : n \in MsgsOf(i)' => n \in MsgsOf(i), taker'[t].step = "publish rows"
  PROVE  RowToken(i)'
<1>1. \A u \in LobbyTakers : u # t => (Carries(u, i)' <=> Carries(u, i))
  BY DEF Only, Carries, Works
<1>2. MsgsOf(i) = {} /\ \A u \in LobbyTakers : ~Carries(u, i)
  BY DEF RowToken
<1> QED BY <1>1, <1>2 DEF RowToken

\* A task of the rows, while the dispatch is over.
LEMMA DispatchRests ==
  ASSUME DispatchInv, NEW t \in LobbyTakers, Only(t), taker[t].step \notin {"free", "dispatch"},
         taker'[t].step # "dispatch", \A m \in queue' : m.step = "dispatch" => m \in queue
  PROVE  DispatchInv'
<1>1. ~Undispatched
  BY DEF DispatchInv
<1>2. ~Undispatched'
  BY <1>1 DEF Undispatched, Only
<1> QED BY <1>2 DEF DispatchInv

LEMMA EndRests ==
  ASSUME EndInv, Ending' => Ending,
         \A i \in Images : image[i] \in Outcomes => image'[i] \in Outcomes
  PROVE  EndInv'
BY DEF EndInv

\* The bounded count of errors only grows; past one, CountInv says nothing.
MoreErrors == errors' \in Nat /\ (errors >= 1 => errors' >= 1) /\ (errors' <= 1 => errors <= 1)

LEMMA ErrorsStay ==
  ASSUME errors \in Nat, errors' = errors
  PROVE  MoreErrors
BY DEF MoreErrors

LEMMA ErrorsGrow ==
  ASSUME errors \in Nat, errors' = errors + 1
  PROVE  MoreErrors
BY DEF MoreErrors

LEMMA CountsStay ==
  ASSUME CountInv, NEW t \in LobbyTakers, Only(t), MoreErrors,
         job'.processed = job.processed, job'.succeeded = job.succeeded, job'.failed = job.failed,
         \A i \in Images :
           \/ image'[i] = image[i] /\ (Works(t, i)' <=> Works(t, i))
           \/ image[i] \notin Outcomes /\ image'[i] \notin Outcomes
           \/ Works(t, i) /\ Works(t, i)'
  PROVE  CountInv'
<1>1. \A i \in Images, u \in LobbyTakers : u # t => (Works(u, i)' <=> Works(u, i))
  BY DEF Only, Works
<1>2. ASSUME NEW outcomes \in SUBSET Outcomes
      PROVE  Counted(outcomes)' = Counted(outcomes)
  <2>1. \A i \in Images : i \in Counted(outcomes)' <=> i \in Counted(outcomes)
    BY <1>1 DEF Counted
  <2> QED BY <2>1 DEF Counted
<1>3. Counted(Outcomes)' = Counted(Outcomes) /\ Counted({"completed"})' = Counted({"completed"})
      /\ Counted({"failed"})' = Counted({"failed"})
  BY <1>2 DEF Outcomes
<1>4. errors' <= 1 => errors <= 1
  BY DEF MoreErrors
<1> QED BY <1>3, <1>4 DEF CountInv

-----------------------------------------------------------------------------
(* The steps of the lobby check.                                           *)

LEMMA TakeMoves ==
  ASSUME LobbyBody, NEW t \in LobbyTakers, Lobby!Take(t)
  PROVE  LobbyBody'
<1> USE DEF LobbyBody
<1>1. PICK m \in queue : /\ queue' = queue \ {m}
                         /\ taker' = [taker EXCEPT ![t] = [Lobby!Free EXCEPT !.step = m.step, !.row = m.row,
                                                                            !.tries = m.tries]]
  BY DEF Lobby!Take
<1>2. /\ taker[t].step = "free"
      /\ UNCHANGED <<job, image, errors, dropped>>
  BY DEF Lobby!Take, Lobby!Free
<1>3. PICK new : new = [Lobby!Free EXCEPT !.step = m.step, !.row = m.row, !.tries = m.tries]
  OBVIOUS
<1>4. m \in RowMsgs \cup JobMsgs
  BY DEF LobbyTyped
<1>5. /\ m.step \in {"load", "dispatch", "finalize"} /\ m.row \in Images \cup {0} /\ m.tries \in Nat
      /\ m.step = "load" => m.row \in Images
  BY <1>4, LobbyConstants DEF RowMsgs, JobMsgs
<1>6. new \in Tasks /\ new.step = m.step /\ new.row = m.row /\ ~new.rescue
  BY <1>3, <1>5 DEF Lobby!Free, Tasks, LobbySteps, WorkSteps
<1>7. taker' = [taker EXCEPT ![t] = new] /\ taker \in [LobbyTakers -> Tasks]
  BY <1>1, <1>3 DEF LobbyTyped
<1>8. taker' \in [LobbyTakers -> Tasks] /\ Only(t) /\ taker'[t] = new
  BY <1>6, <1>7 DEF Only
<1>9. LobbyTyped'
  BY <1>1, <1>2, <1>5, <1>6, <1>8 DEF LobbyTyped, Only, WorkSteps
<1>10. ASSUME NEW i \in Images
       PROVE  RowToken(i)'
  <2>1. \A n : n \in MsgsOf(i)' => n \in MsgsOf(i) /\ n # m
    BY <1>1 DEF MsgsOf
  <2>2. ~Carries(t, i)
    BY <1>2 DEF Carries, Works, WorkSteps
  <2>3. CASE m.step = "load" /\ m.row = i
    <3>1. m \in MsgsOf(i)
      BY <2>3 DEF MsgsOf
    <3> QED BY <1>2, <1>6, <1>8, <2>1, <2>3, <3>1, TokenTaken
  <2>4. CASE ~(m.step = "load" /\ m.row = i)
    <3>1. ~Carries(t, i)'
      BY <1>5, <1>6, <1>8, <2>4 DEF Carries, Works, WorkSteps
    <3> QED BY <1>2, <1>8, <2>1, <3>1, TokenStays
  <2> QED BY <2>3, <2>4
<1>11. DispatchInv'
  <2>1. CASE m.step = "dispatch"
    <3>1. Undispatched /\ \A n \in queue : n = m
      <4>1. Undispatched
        BY <2>1 DEF Undispatched
      <4>2. \A n \in queue : n.step = "dispatch"
        BY <4>1 DEF DispatchInv
      <4>3. \A n \in queue : n \in JobMsgs
        BY <4>2 DEF LobbyTyped, RowMsgs
      <4> QED BY <2>1, <4>1, <4>2, <4>3 DEF JobMsgs
    <3>2. queue' = {} /\ \A u \in LobbyTakers : u # t => taker'[u].step = "free"
      BY <1>1, <1>8, <3>1 DEF DispatchInv, Only
    <3>3. job.phase = "queued" /\ ~job.claimed /\ \A i \in Images : image[i] = "pending"
      BY <3>1 DEF DispatchInv
    <3> QED BY <1>2, <1>6, <1>8, <2>1, <3>2, <3>3 DEF DispatchInv
  <2>2. CASE m.step # "dispatch"
    <3>1. ~Undispatched
      BY <2>2 DEF DispatchInv
    <3>2. ~Undispatched'
      BY <1>1, <1>6, <1>8, <2>2, <3>1 DEF Undispatched, Only
    <3> QED BY <3>2 DEF DispatchInv
  <2> QED BY <2>1, <2>2
<1>12. EndInv'
  <2>1. Ending' => Ending
    BY <1>1, <1>2, <1>5, <1>6, <1>8 DEF Ending, Only
  <2> QED BY <1>2, <2>1, EndRests
<1>13. CountInv'
  <2>1. ASSUME NEW i \in Images
        PROVE  \/ image'[i] = image[i] /\ (Works(t, i)' <=> Works(t, i))
               \/ image[i] \notin Outcomes /\ image'[i] \notin Outcomes
    <3>1. ~Works(t, i)
      BY <1>2 DEF Works, WorkSteps
    <3>2. ASSUME Works(t, i)'
          PROVE  image[i] = "dispatched"
      <4>1. m \in MsgsOf(i)
        BY <1>5, <1>6, <1>8, <3>2 DEF Works, WorkSteps, MsgsOf
      <4> QED BY <4>1 DEF RowToken
    <3> QED BY <1>2, <3>1, <3>2 DEF Outcomes
  <2>2. MoreErrors
    BY <1>2, ErrorsStay DEF LobbyTyped
  <2> QED BY <1>2, <1>8, <2>1, <2>2, CountsStay
<1> QED BY <1>9, <1>10, <1>11, <1>12, <1>13

\* Steps that leave rows and messages alone, and take no row into the hands
\* of the task that was not there.
LEMMA QuietMoves ==
  ASSUME LobbyBody, NEW t \in LobbyTakers, Only(t), taker' \in [LobbyTakers -> Tasks],
         taker[t].step \notin {"free", "dispatch"},
         taker'[t].step \notin {"load", "commit", "bump", "publish rows", "dispatch"},
         taker[t].step \notin {"load", "commit", "bump"},
         queue' = queue \/ (\E m \in JobMsgs : m.step # "dispatch" /\ queue' = queue \cup {m}),
         job' \in LobbyJobs, job'.processed = job.processed, job'.succeeded = job.succeeded, job'.failed = job.failed,
         Ending' => Ending \/ (\A i \in Images : image[i] \in Outcomes),
         image' = image, MoreErrors, dropped' \in BOOLEAN
  PROVE  LobbyBody'
<1> USE DEF LobbyBody
<1>1. LobbyTyped'
  <2>1. queue' \subseteq RowMsgs \cup JobMsgs
    BY DEF LobbyTyped
  <2>4. errors' \in Nat /\ (errors >= 1 => errors' >= 1)
    BY DEF MoreErrors
  <2>2. ASSUME NEW u \in LobbyTakers
        PROVE  /\ taker'[u].step \in WorkSteps => taker'[u].row \in Images
               /\ taker'[u].step \in {"commit", "bump"} => taker'[u].outcome \in Outcomes
               /\ taker'[u].step \in WorkSteps /\ taker'[u].rescue => errors' >= 1
    <3>1. CASE u = t
      BY <3>1 DEF WorkSteps
    <3>2. CASE u # t
      <4>1. taker'[u] = taker[u]
        BY <3>2 DEF Only
      <4>2. /\ taker[u].step \in WorkSteps => taker[u].row \in Images
            /\ taker[u].step \in {"commit", "bump"} => taker[u].outcome \in Outcomes
            /\ taker[u].step \in WorkSteps /\ taker[u].rescue => errors >= 1
        BY DEF LobbyTyped
      <4> QED BY <2>4, <4>1, <4>2
    <3> QED BY <3>1, <3>2
  <2>5. image' \in [Images -> {"pending", "dispatched", "completed", "failed"}]
    BY DEF LobbyTyped
  <2> QED BY <2>1, <2>2, <2>4, <2>5 DEF LobbyTyped
<1>2. \A i \in Images : ~Works(t, i) /\ ~Carries(t, i)' /\ ~Works(t, i)'
  BY DEF Works, Carries, WorkSteps
<1>3. ASSUME NEW i \in Images
      PROVE  RowToken(i)'
  <2>1. \A m : m \in MsgsOf(i)' => m \in MsgsOf(i)
    BY DEF MsgsOf, JobMsgs
  <2> QED BY <1>2, <2>1, TokenStays
<1>4. DispatchInv'
  <2>1. \A m \in queue' : m.step = "dispatch" => m \in queue
    OBVIOUS
  <2> QED BY <2>1, DispatchRests
<1>5. EndInv'
  BY DEF EndInv
<1>6. CountInv'
  BY <1>2, CountsStay
<1> QED BY <1>1, <1>3, <1>4, <1>5, <1>6


LEMMA DispatchMoves ==
  ASSUME LobbyBody, NEW t \in LobbyTakers, Lobby!Dispatch(t)
  PROVE  LobbyBody'
<1> USE DEF LobbyBody
<1>1. /\ taker[t].step = "dispatch"
      /\ UNCHANGED <<image, queue, errors, dropped>>
      /\ job' = [job EXCEPT !.phase = "processing"]
      /\ IF Lobby!Pending = {} THEN Lobby!Goto(t, "publish finalize") ELSE Lobby!Fill(t, Window)
  BY DEF Lobby!Dispatch
<1>2. /\ job' \in LobbyJobs /\ job'.phase = "processing" /\ ~job'.claimed
      /\ job'.processed = job.processed /\ job'.succeeded = job.succeeded /\ job'.failed = job.failed
  BY <1>1 DEF LobbyTyped, LobbyJobs, DispatchInv, Undispatched
<1>3. PICK step \in {"publish finalize", "select"} :
        Moved(t, step) /\ (step = "publish finalize" => Lobby!Pending = {})
  <2>1. CASE Lobby!Pending = {}
    BY <1>1, <2>1, GotoMoves DEF LobbySteps
  <2>2. CASE Lobby!Pending # {}
    BY <1>1, <2>2, FillMoves, LobbyConstants
  <2> QED BY <2>1, <2>2
<1>4. taker' \in [LobbyTakers -> Tasks] /\ taker'[t].step = step /\ \A u \in LobbyTakers : u # t => taker'[u] = taker[u]
  BY <1>3 DEF Moved, Only
<1>5. Undispatched
  BY <1>1 DEF Undispatched
<1>6. /\ \A i \in Images : image[i] = "pending"
      /\ queue = {}
      /\ \A u \in LobbyTakers : u # t => taker[u].step = "free"
  <2>1. queue = {}
    BY <1>1, <1>5 DEF DispatchInv
  <2> QED BY <1>1, <1>5, <2>1 DEF DispatchInv
<1>7. \A u \in LobbyTakers : taker'[u].step \in {"free", "publish finalize", "select"}
  BY <1>3, <1>4, <1>6
<1>8. /\ \A u \in LobbyTakers : taker[u].step \notin WorkSteps /\ taker'[u].step \notin WorkSteps
      /\ \A u \in LobbyTakers : taker'[u].step # "publish rows"
  BY <1>1, <1>6, <1>7 DEF WorkSteps
<1>9. \A u \in LobbyTakers, i \in Images : ~Works(u, i) /\ ~Works(u, i)' /\ ~Carries(u, i)'
  BY <1>8 DEF Works, Carries
<1>10. LobbyTyped'
  BY <1>1, <1>2, <1>4, <1>8 DEF LobbyTyped, WorkSteps
<1>11. ASSUME NEW i \in Images
       PROVE  RowToken(i)'
  <2>1. MsgsOf(i)' = {}
    BY <1>1, <1>6 DEF MsgsOf
  <2> QED BY <1>9, <2>1 DEF RowToken
<1>12. DispatchInv'
  BY <1>1, <1>6, <1>7 DEF DispatchInv, Undispatched
<1>13. EndInv'
  <2>1. CASE Images = {}
    BY <2>1 DEF EndInv
  <2>2. CASE Images # {}
    <3>1. Lobby!Pending = Images
      BY <1>6 DEF Lobby!Pending
    <3>2. step = "select"
      BY <1>3, <2>2, <3>1
    <3>3. \A u \in LobbyTakers : taker'[u].step \notin {"publish finalize", "finalize"}
      BY <1>4, <1>6, <3>2
    <3> QED BY <1>1, <1>2, <1>6, <3>3 DEF EndInv, Ending
  <2> QED BY <2>1, <2>2
<1>14. CountInv'
  <2>1. MoreErrors
    BY <1>1, ErrorsStay DEF LobbyTyped
  <2>2. Only(t)
    BY <1>3 DEF Moved
  <2> QED BY <1>1, <1>2, <1>9, <2>1, <2>2, CountsStay
<1> QED BY <1>10, <1>11, <1>12, <1>13, <1>14

\* The steps of a task past its row, and of the dispatch and its handler.
LEMMA EndingMoves ==
  ASSUME LobbyBody, NEW t \in LobbyTakers,
         \/ Lobby!Settle(t) \/ Lobby!Claim(t) \/ Lobby!PublishFinalize(t) \/ Lobby!Select(t)
         \/ Lobby!Finalize(t) \/ Lobby!MarkFailed(t) \/ Lobby!MarkFails(t)
  PROVE  LobbyBody'
<1> USE DEF LobbyBody
<1>1. taker \in [LobbyTakers -> Tasks] /\ job \in LobbyJobs /\ errors \in Nat /\ dropped \in BOOLEAN
  BY DEF LobbyTyped
<1>2. Lobby!NoneOutstanding => \A i \in Images : image[i] \in Outcomes
  BY DEF Lobby!NoneOutstanding, Lobby!Outstanding, LobbyTyped, Outcomes
<1>3. CASE Lobby!Settle(t)
  <2>1. taker[t].step = "settle" /\ UNCHANGED <<job, image, queue, errors, dropped>>
        /\ IF Lobby!NoneOutstanding THEN Lobby!Goto(t, "claim") ELSE Lobby!Fill(t, Refill)
    BY <1>3 DEF Lobby!Settle
  <2>2. taker' \in [LobbyTakers -> Tasks] /\ Only(t) /\ taker'[t].step \in {"claim", "select"}
    BY <2>1, GotoMoves, FillMoves, LobbyConstants DEF Moved, LobbySteps
  <2>3. Ending' => Ending
    BY <2>1, <2>2 DEF Ending, Only
  <2> QED BY <1>1, <2>1, <2>2, <2>3, QuietMoves, ErrorsStay
<1>4. CASE Lobby!Claim(t)
  <2>1. taker[t].step = "claim" /\ UNCHANGED <<image, queue, errors, dropped>>
        /\ \/ Lobby!NoneOutstanding /\ job' = [job EXCEPT !.claimed = TRUE] /\ Lobby!Goto(t, "publish finalize")
           \/ Lobby!Fill(t, Refill) /\ UNCHANGED job
    BY <1>4 DEF Lobby!Claim
  <2>2. taker' \in [LobbyTakers -> Tasks] /\ Only(t) /\ taker'[t].step \in {"publish finalize", "select"}
    BY <2>1, GotoMoves, FillMoves, LobbyConstants DEF Moved, LobbySteps
  <2>3. /\ job' \in LobbyJobs
        /\ job'.processed = job.processed /\ job'.succeeded = job.succeeded /\ job'.failed = job.failed
    BY <1>1, <2>1 DEF LobbyJobs
  <2>4. Ending' => Ending \/ (\A i \in Images : image[i] \in Outcomes)
    <3>1. CASE Lobby!NoneOutstanding
      BY <1>2, <3>1
    <3>2. CASE Lobby!Fill(t, Refill) /\ UNCHANGED job
      <4>1. taker'[t].step = "select"
        BY <3>2, FillMoves, LobbyConstants DEF Moved
      <4> QED BY <2>1, <2>2, <3>2, <4>1 DEF Ending, Only
    <3> QED BY <2>1, <3>1, <3>2
  <2> QED BY <1>1, <2>1, <2>2, <2>3, <2>4, QuietMoves, ErrorsStay
<1>5. CASE Lobby!PublishFinalize(t)
  <2>1. taker[t].step = "publish finalize" /\ UNCHANGED <<job, image, errors, dropped>> /\ Freed(t)
        /\ queue' = queue \cup {[step |-> "finalize", row |-> 0, tries |-> 0]}
    BY <1>5, DoneFrees DEF Lobby!PublishFinalize
  <2>2. Ending /\ [step |-> "finalize", row |-> 0, tries |-> 0] \in JobMsgs
    BY <2>1 DEF Ending, JobMsgs
  <2> QED BY <1>1, <2>1, <2>2, QuietMoves, ErrorsStay, ErrorsGrow DEF Freed
<1>6. CASE Lobby!Select(t)
  <2>1. taker[t].step = "select" /\ UNCHANGED <<job, image, queue, errors, dropped>>
    BY <1>6 DEF Lobby!Select
  <2>2. taker' \in [LobbyTakers -> Tasks] /\ Only(t) /\ taker'[t].step \in {"free", "claim rows"}
    <3>1. CASE Lobby!Done(t)
      BY <3>1, DoneFrees DEF Freed
    <3>2. CASE ~Lobby!Done(t)
      <4>1. PICK rows \in UNION {Lobby!kSubset(n, Lobby!Pending) : n \in {Lobby!Min({taker[t].limit, Lobby!Cardinality(Lobby!Pending)})}} :
              taker' = [taker EXCEPT ![t].step = "claim rows", ![t].rows = rows]
        BY <1>6, <3>2 DEF Lobby!Select
      <4>2. rows \in SUBSET Images
        BY DEF Lobby!kSubset, Lobby!Pending
      <4>3. PICK old \in Tasks : old = taker[t]
        BY <1>1
      <4>4. PICK new : new = [old EXCEPT !.step = "claim rows", !.rows = rows]
        OBVIOUS
      <4>5. new \in Tasks /\ new.step = "claim rows"
        BY <4>2, <4>3, <4>4 DEF Tasks, LobbySteps
      <4>6. taker' = [taker EXCEPT ![t] = new]
        BY <1>1, <4>1, <4>3, <4>4
      <4> QED BY <1>1, <4>5, <4>6 DEF Only
    <3> QED BY <3>1, <3>2
  <2>3. Ending' => Ending
    BY <2>1, <2>2 DEF Ending, Only
  <2> QED BY <1>1, <2>1, <2>2, <2>3, QuietMoves, ErrorsStay
<1>7. CASE Lobby!Finalize(t)
  <2>1. taker[t].step = "finalize" /\ UNCHANGED <<image, queue, errors, dropped>> /\ Freed(t)
    BY <1>7, DoneFrees DEF Lobby!Finalize
  <2>2. /\ job' \in LobbyJobs
        /\ job'.processed = job.processed /\ job'.succeeded = job.succeeded /\ job'.failed = job.failed
    <3>1. \/ job' = job
          \/ \E phase \in {"completed", "completed_with_errors"} : job' = [job EXCEPT !.phase = phase]
      BY <1>7 DEF Lobby!Finalize
    <3> QED BY <1>1, <3>1 DEF LobbyJobs
  <2>3. Ending
    BY <2>1 DEF Ending
  <2> QED BY <1>1, <2>1, <2>2, <2>3, QuietMoves, ErrorsStay, ErrorsGrow DEF Freed
<1>8. CASE Lobby!MarkFailed(t)
  <2>1. /\ taker[t].step = "mark failed" /\ UNCHANGED <<image, queue, errors, dropped>> /\ Freed(t)
        /\ job' = [job EXCEPT !.phase = "failed"]
    BY <1>8, DoneFrees DEF Lobby!MarkFailed
  <2>2. /\ job' \in LobbyJobs /\ job'.phase = "failed" /\ job'.claimed = job.claimed
        /\ job'.processed = job.processed /\ job'.succeeded = job.succeeded /\ job'.failed = job.failed
    BY <1>1, <2>1 DEF LobbyJobs
  <2>3. Ending' => Ending
    BY <2>1, <2>2 DEF Ending, Only, Freed
  <2> QED BY <1>1, <2>1, <2>2, <2>3, QuietMoves, ErrorsStay DEF Freed
<1>9. CASE Lobby!MarkFails(t)
  <2>1. taker[t].step = "mark failed" /\ UNCHANGED <<job, image, queue, dropped>> /\ Freed(t) /\ errors' = errors + 1
    BY <1>9, DoneFrees DEF Lobby!MarkFails, Lobby!Error
  <2>2. Ending' => Ending
    BY <2>1 DEF Ending, Only, Freed
  <2> QED BY <1>1, <2>1, <2>2, QuietMoves, ErrorsGrow DEF Freed
<1> QED BY <1>3, <1>4, <1>5, <1>6, <1>7, <1>8, <1>9

\* A task keeps its row in hand, and may end it.
LEMMA HeldMoves ==
  ASSUME LobbyBody, NEW t \in LobbyTakers, NEW i0 \in Images, i0 = taker[t].row, taker[t].step \in WorkSteps,
         taker' \in [LobbyTakers -> Tasks], Only(t),
         taker'[t].step \in {"commit", "bump"}, taker'[t].row = i0, taker'[t].outcome \in Outcomes,
         taker'[t].rescue => errors' >= 1,
         UNCHANGED <<job, queue, dropped>>, MoreErrors,
         image' \in [Images -> {"pending", "dispatched", "completed", "failed"}],
         \A i \in Images : i # i0 => image'[i] = image[i],
         image'[i0] # "pending",
         image'[i0] # "dispatched" => taker'[t].step = "bump" \/ (taker'[t].step = "commit" /\ taker'[t].rescue),
         taker'[t].step = "bump" => image'[i0] = taker'[t].outcome,
         image[i0] \in Outcomes => image'[i0] \in Outcomes
  PROVE  LobbyBody'
<1>1. LobbyTyped /\ DispatchInv /\ EndInv /\ CountInv /\ \A i \in Images : RowToken(i)
  BY DEF LobbyBody
<1>2. taker[t].step \notin {"free", "dispatch"} /\ taker'[t].step \in WorkSteps
  BY DEF WorkSteps
<1>3. LobbyTyped'
  <2>1. errors' \in Nat /\ (errors >= 1 => errors' >= 1)
    BY DEF MoreErrors
  <2>2. ASSUME NEW u \in LobbyTakers
        PROVE  /\ taker'[u].step \in WorkSteps => taker'[u].row \in Images
               /\ taker'[u].step \in {"commit", "bump"} => taker'[u].outcome \in Outcomes
               /\ taker'[u].step \in WorkSteps /\ taker'[u].rescue => errors' >= 1
    <3>1. CASE u = t
      BY <3>1
    <3>2. CASE u # t
      <4>1. taker'[u] = taker[u]
        BY <3>2 DEF Only
      <4>2. /\ taker[u].step \in WorkSteps => taker[u].row \in Images
            /\ taker[u].step \in {"commit", "bump"} => taker[u].outcome \in Outcomes
            /\ taker[u].step \in WorkSteps /\ taker[u].rescue => errors >= 1
        BY <1>1 DEF LobbyTyped
      <4> QED BY <2>1, <4>1, <4>2
    <3> QED BY <3>1, <3>2
  <2>3. job' \in LobbyJobs /\ queue' \subseteq RowMsgs \cup JobMsgs /\ dropped' \in BOOLEAN
    BY <1>1 DEF LobbyTyped
  <2> QED BY <2>1, <2>2, <2>3 DEF LobbyTyped
<1>4. Carries(t, i0) /\ Works(t, i0) /\ Works(t, i0)'
  BY <1>2 DEF Carries, Works
<1>5. \A i \in Images : i # i0 => ~Works(t, i) /\ ~Works(t, i)' /\ ~Carries(t, i)'
  BY <1>2 DEF Carries, Works, WorkSteps
<1>6. \A i \in Images : MsgsOf(i)' = MsgsOf(i)
  BY DEF MsgsOf
<1>7. MsgsOf(i0) = {} /\ \A u \in LobbyTakers : u # t => ~Carries(u, i0)
  BY <1>1, <1>4 DEF RowToken
<1>8. ASSUME NEW i \in Images
      PROVE  RowToken(i)'
  <2>1. CASE i = i0
    BY <1>1, <1>4, <1>6, <1>7, <2>1, TokenStays
  <2>2. CASE i # i0
    BY <1>1, <1>5, <1>6, <2>2, TokenStays
  <2> QED BY <2>1, <2>2
<1>9. DispatchInv'
  <2>1. taker'[t].step # "dispatch"
    OBVIOUS
  <2> QED BY <1>1, <1>2, <2>1, DispatchRests
<1>10. EndInv'
  <2>1. Ending' => Ending
    BY DEF Ending, Only
  <2>2. \A i \in Images : image[i] \in Outcomes => image'[i] \in Outcomes
    OBVIOUS
  <2> QED BY <1>1, <2>1, <2>2, EndRests
<1>11. CountInv'
  <2>1. \A i \in Images : \/ image'[i] = image[i] /\ (Works(t, i)' <=> Works(t, i))
                          \/ Works(t, i) /\ Works(t, i)'
    BY <1>4, <1>5
  <2> QED BY <1>1, <2>1, CountsStay
<1> QED BY <1>3, <1>8, <1>9, <1>10, <1>11 DEF LobbyBody

\* The row of a task at work.
LEMMA RowInHand ==
  ASSUME LobbyBody, NEW t \in LobbyTakers, taker[t].step \in WorkSteps
  PROVE  /\ taker[t].row \in Images /\ taker[t] \in Tasks /\ image[taker[t].row] # "pending"
         /\ Carries(t, taker[t].row) /\ RowToken(taker[t].row)
         /\ taker[t].step = "load" => image[taker[t].row] = "dispatched"
         /\ taker[t].step = "bump" => image[taker[t].row] = taker[t].outcome
         /\ taker[t].step \in {"commit", "bump"} => taker[t].outcome \in Outcomes
         /\ taker[t].rescue => errors >= 1
         /\ taker[t].rescue \in BOOLEAN
<1>1. LobbyTyped /\ \A i \in Images : RowToken(i)
  BY DEF LobbyBody
<1>2. taker[t].row \in Images /\ taker[t] \in Tasks
  BY <1>1 DEF LobbyTyped
<1>3. Carries(t, taker[t].row) /\ RowToken(taker[t].row)
  BY <1>1, <1>2 DEF Carries, Works
<1>4. taker[t].rescue \in BOOLEAN
  BY <1>2 DEF Tasks
<1> QED BY <1>1, <1>2, <1>3, <1>4 DEF LobbyTyped, RowToken

LEMMA ReadingMoves ==
  ASSUME LobbyBody, NEW t \in LobbyTakers,
         Lobby!Extract(t) \/ Lobby!CommitImage(t) \/ (Lobby!RowBreaks(t) /\ ~taker[t].rescue)
  PROVE  LobbyBody'
<1>1. taker[t].step \in WorkSteps
  BY DEF Lobby!Extract, Lobby!CommitImage, Lobby!RowBreaks, WorkSteps
<1>2. PICK i0 \in Images : i0 = taker[t].row
  BY <1>1, RowInHand
<1>3. PICK old \in Tasks : old = taker[t]
  BY <1>1, RowInHand
<1>4. taker \in [LobbyTakers -> Tasks] /\ errors \in Nat
      /\ image \in [Images -> {"pending", "dispatched", "completed", "failed"}]
  BY DEF LobbyBody, LobbyTyped
<1>5. /\ image[i0] # "pending" /\ (old.step = "load" => image[i0] = "dispatched")
      /\ old.step \in {"commit", "bump"} => old.outcome \in Outcomes
      /\ old.rescue => errors >= 1
  BY <1>1, <1>2, <1>3, RowInHand
<1>6. CASE Lobby!Extract(t)
  <2>1. PICK outcome \in Outcomes :
          taker' = [taker EXCEPT ![t].step = "commit", ![t].outcome = outcome]
    BY <1>6 DEF Lobby!Extract, Outcomes
  <2>2. PICK new : new = [old EXCEPT !.step = "commit", !.outcome = outcome]
    OBVIOUS
  <2>3. taker' = [taker EXCEPT ![t] = new]
    BY <1>3, <1>4, <2>1, <2>2
  <2>4. new \in Tasks /\ new.step = "commit" /\ new.row = old.row /\ new.outcome = outcome /\ new.rescue = old.rescue
    BY <1>3, <2>2 DEF Tasks, LobbySteps, WorkSteps
  <2>5. taker' \in [LobbyTakers -> Tasks] /\ Only(t) /\ taker'[t] = new
    BY <1>4, <2>3, <2>4 DEF Only
  <2>6. old.step = "load" /\ UNCHANGED <<job, image, queue, errors, dropped>>
    BY <1>3, <1>6 DEF Lobby!Extract
  <2>7. MoreErrors
    BY <1>4, <2>6, ErrorsStay
  <2> QED BY <1>1, <1>2, <1>3, <1>4, <1>5, <2>4, <2>5, <2>6, <2>7, HeldMoves
<1>7. CASE Lobby!CommitImage(t)
  <2>1. old.step = "commit" /\ Lobby!Goto(t, "bump") /\ UNCHANGED <<job, queue, errors, dropped>>
        /\ image' = [image EXCEPT ![i0] = old.outcome]
    BY <1>2, <1>3, <1>7 DEF Lobby!CommitImage
  <2>2. /\ taker' \in [LobbyTakers -> Tasks] /\ Only(t) /\ taker'[t].step = "bump" /\ taker'[t].row = i0
        /\ taker'[t].outcome = old.outcome /\ taker'[t].rescue = old.rescue
    BY <1>2, <1>3, <2>1, GotoMoves DEF Moved, LobbySteps, WorkSteps, LobbyBody
  <2>3. old.outcome \in Outcomes
    BY <1>5, <2>1
  <2>4. /\ image' \in [Images -> {"pending", "dispatched", "completed", "failed"}]
        /\ \A i \in Images : i # i0 => image'[i] = image[i]
        /\ image'[i0] = old.outcome /\ image'[i0] # "pending"
    BY <1>4, <2>1, <2>3 DEF Outcomes
  <2>5. MoreErrors
    BY <1>4, <2>1, ErrorsStay
  <2> QED BY <1>1, <1>2, <1>5, <2>1, <2>2, <2>3, <2>4, <2>5, HeldMoves
<1>8. CASE Lobby!RowBreaks(t) /\ ~taker[t].rescue
  <2>1. taker' = Lobby!Rescue(t) /\ errors' = errors + 1 /\ UNCHANGED <<job, image, queue, dropped>>
    BY <1>8 DEF Lobby!RowBreaks, Lobby!Error
  <2>2. PICK new : new = [old EXCEPT !.step = "commit", !.outcome = "failed", !.rescue = TRUE]
    OBVIOUS
  <2>3. taker' = [taker EXCEPT ![t] = new]
    BY <1>3, <1>4, <2>1, <2>2 DEF Lobby!Rescue
  <2>4. new \in Tasks /\ new.step = "commit" /\ new.row = old.row /\ new.outcome = "failed" /\ new.rescue
    BY <1>3, <2>2 DEF Tasks, LobbySteps, WorkSteps, Outcomes
  <2>5. taker' \in [LobbyTakers -> Tasks] /\ Only(t) /\ taker'[t] = new
    BY <1>4, <2>3, <2>4 DEF Only
  <2>6. MoreErrors
    BY <1>4, <2>1, ErrorsGrow
  <2>7. errors' >= 1
    BY <1>4, <2>1
  <2>8. "failed" \in Outcomes
    BY DEF Outcomes
  <2> QED BY <1>1, <1>2, <1>3, <1>4, <1>5, <2>1, <2>4, <2>5, <2>6, <2>7, <2>8, HeldMoves
<1> QED BY <1>6, <1>7, <1>8

\* A task lets go of its row: nobody holds it any more.
LEMMA LetGoTypes ==
  ASSUME LobbyBody, NEW t \in LobbyTakers, taker[t].step \in WorkSteps,
         taker' \in [LobbyTakers -> Tasks], Only(t), taker'[t].step \in {"free", "settle"},
         UNCHANGED <<image, dropped>>, job' \in LobbyJobs, queue' \subseteq RowMsgs \cup JobMsgs, MoreErrors,
         \A m \in queue' : m.step \in {"dispatch", "finalize"} => m \in queue,
         job'.claimed = job.claimed, job'.phase = job.phase
  PROVE  /\ LobbyTyped' /\ DispatchInv' /\ EndInv'
         /\ \A i \in Images : ~Carries(t, i)' /\ ~Works(t, i)'
<1>1. LobbyTyped /\ DispatchInv /\ EndInv
  BY DEF LobbyBody
<1>2. taker[t].step \notin {"free", "dispatch"} /\ taker'[t].step \notin WorkSteps \cup {"dispatch", "publish rows"}
  BY DEF WorkSteps
<1>3. \A i \in Images : ~Carries(t, i)' /\ ~Works(t, i)'
  BY <1>2 DEF Carries, Works
<1>4. LobbyTyped'
  <2>1. errors' \in Nat /\ (errors >= 1 => errors' >= 1)
    BY DEF MoreErrors
  <2>2. ASSUME NEW u \in LobbyTakers
        PROVE  /\ taker'[u].step \in WorkSteps => taker'[u].row \in Images
               /\ taker'[u].step \in {"commit", "bump"} => taker'[u].outcome \in Outcomes
               /\ taker'[u].step \in WorkSteps /\ taker'[u].rescue => errors' >= 1
    <3>1. CASE u = t
      BY <1>2, <3>1
    <3>2. CASE u # t
      <4>1. taker'[u] = taker[u]
        BY <3>2 DEF Only
      <4>2. /\ taker[u].step \in WorkSteps => taker[u].row \in Images
            /\ taker[u].step \in {"commit", "bump"} => taker[u].outcome \in Outcomes
            /\ taker[u].step \in WorkSteps /\ taker[u].rescue => errors >= 1
        BY <1>1 DEF LobbyTyped
      <4> QED BY <2>1, <4>1, <4>2
    <3> QED BY <3>1, <3>2
  <2>3. image' \in [Images -> {"pending", "dispatched", "completed", "failed"}] /\ dropped' \in BOOLEAN
    BY <1>1 DEF LobbyTyped
  <2> QED BY <2>1, <2>2, <2>3 DEF LobbyTyped
<1>5. DispatchInv'
  <2>1. taker'[t].step # "dispatch" /\ \A m \in queue' : m.step = "dispatch" => m \in queue
    OBVIOUS
  <2> QED BY <1>1, <1>2, <2>1, DispatchRests
<1>6. EndInv'
  <2>1. Ending' => Ending
    BY DEF Ending, Only
  <2>2. \A i \in Images : image[i] \in Outcomes => image'[i] \in Outcomes
    OBVIOUS
  <2> QED BY <1>1, <2>1, <2>2, EndRests
<1> QED BY <1>3, <1>4, <1>5, <1>6

\* The tokens of the rows, when the task's own is given up.
LEMMA LetGoTokens ==
  ASSUME LobbyBody, NEW t \in LobbyTakers, Only(t), UNCHANGED <<image, queue>>,
         \A i \in Images : ~Carries(t, i)'
  PROVE  \A i \in Images : RowToken(i)'
<1>1. SUFFICES ASSUME NEW i \in Images
               PROVE  RowToken(i)'
  OBVIOUS
<1>2. MsgsOf(i)' = MsgsOf(i)
  BY DEF MsgsOf
<1>3. RowToken(i)
  BY DEF LobbyBody
<1> QED BY <1>2, <1>3, TokenStays

\* A row ended and let go is one more row to count.
LEMMA CountedGains ==
  ASSUME LobbyBody, NEW t \in LobbyTakers, taker[t].step = "bump", UNCHANGED image, Only(t),
         \A i \in Images : ~Works(t, i)',
         NEW outcomes \in SUBSET Outcomes
  PROVE  /\ Cardinality(Counted(outcomes)) \in Nat
         /\ Cardinality(Counted(outcomes)') = Cardinality(Counted(outcomes)) + (IF taker[t].outcome \in outcomes THEN 1 ELSE 0)
<1>1. PICK i0 \in Images : /\ i0 = taker[t].row /\ image[i0] = taker[t].outcome
                           /\ Carries(t, i0) /\ RowToken(i0)
  BY RowInHand DEF WorkSteps
<1>2. \A i \in Images : Works(t, i) <=> i = i0
  BY <1>1 DEF Works, WorkSteps
<1>3. \A u \in LobbyTakers : u # t => ~Works(u, i0)
  BY <1>1 DEF RowToken, Carries
<1>4. \A i \in Images, u \in LobbyTakers : u # t => (Works(u, i)' <=> Works(u, i))
  BY DEF Only, Works
<1>5. \A i \in Images : i \in Counted(outcomes)' <=> i \in Counted(outcomes) \/ (i = i0 /\ image[i0] \in outcomes)
  BY <1>2, <1>3, <1>4 DEF Counted
<1>6. i0 \notin Counted(outcomes) /\ Counted(outcomes) \subseteq Images
  BY <1>2 DEF Counted
<1>7. IsFiniteSet(Counted(outcomes)) /\ Cardinality(Counted(outcomes)) \in Nat
  BY <1>6, LobbyConstants, FS_Subset, FS_CardinalityType
<1>8. Counted(outcomes)' \subseteq Images
  BY DEF Counted
<1>9. CASE taker[t].outcome \in outcomes
  <2>1. Counted(outcomes)' = Counted(outcomes) \cup {i0}
    BY <1>1, <1>5, <1>6, <1>8, <1>9
  <2>2. Cardinality(Counted(outcomes) \cup {i0}) = Cardinality(Counted(outcomes)) + 1
    BY <1>6, <1>7, FS_AddElement
  <2> QED BY <1>7, <1>9, <2>1, <2>2
<1>10. CASE taker[t].outcome \notin outcomes
  <2>1. Counted(outcomes)' = Counted(outcomes)
    BY <1>1, <1>5, <1>6, <1>8, <1>10
  <2> QED BY <1>7, <1>10, <2>1
<1> QED BY <1>9, <1>10

LEMMA BumpMoves ==
  ASSUME LobbyBody, NEW t \in LobbyTakers, Lobby!Bump(t)
  PROVE  LobbyBody'
<1>1. /\ taker[t].step = "bump" /\ UNCHANGED <<image, queue, errors, dropped>> /\ Lobby!Goto(t, "settle")
      /\ job' = [job EXCEPT !.processed = @ + 1,
                            !.succeeded = IF taker[t].outcome = "completed" THEN @ + 1 ELSE @,
                            !.failed = IF taker[t].outcome = "failed" THEN @ + 1 ELSE @]
  BY DEF Lobby!Bump
<1>2. taker' \in [LobbyTakers -> Tasks] /\ Only(t) /\ taker'[t].step = "settle"
  BY <1>1, GotoMoves DEF Moved, LobbySteps, LobbyBody
<1>3. job \in LobbyJobs /\ CountInv /\ errors \in Nat /\ queue \subseteq RowMsgs \cup JobMsgs
  BY DEF LobbyBody, LobbyTyped
<1>4. /\ job' \in LobbyJobs /\ job'.phase = job.phase /\ job'.claimed = job.claimed
      /\ job'.processed = job.processed + 1
      /\ job'.succeeded = IF taker[t].outcome = "completed" THEN job.succeeded + 1 ELSE job.succeeded
      /\ job'.failed = IF taker[t].outcome = "failed" THEN job.failed + 1 ELSE job.failed
  <2>1. PICK s, f : /\ s = IF taker[t].outcome = "completed" THEN job.succeeded + 1 ELSE job.succeeded
                    /\ f = IF taker[t].outcome = "failed" THEN job.failed + 1 ELSE job.failed
    OBVIOUS
  <2>2. /\ job.processed \in Nat /\ job.succeeded \in Nat /\ job.failed \in Nat
        /\ job.phase \in {"queued", "processing", "completed", "completed_with_errors", "failed"}
        /\ job.claimed \in BOOLEAN
    BY <1>3 DEF LobbyJobs
  <2>3. s \in Nat /\ f \in Nat /\ job.processed + 1 \in Nat
    BY <2>1, <2>2
  <2>4. job' = [phase |-> job.phase, claimed |-> job.claimed, processed |-> job.processed + 1,
                succeeded |-> s, failed |-> f]
    BY <1>1, <1>3, <2>1 DEF LobbyJobs
  <2> QED BY <2>1, <2>2, <2>3, <2>4 DEF LobbyJobs
<1>5. MoreErrors
  BY <1>1, <1>3, ErrorsStay
<1>6. taker[t].step \in WorkSteps /\ taker'[t].step \in {"free", "settle"}
  BY <1>1, <1>2 DEF WorkSteps
<1>7. /\ LobbyTyped' /\ DispatchInv' /\ EndInv'
      /\ \A i \in Images : ~Carries(t, i)' /\ ~Works(t, i)'
  BY <1>1, <1>2, <1>3, <1>4, <1>5, <1>6, LetGoTypes
<1>8. \A i \in Images : RowToken(i)'
  BY <1>1, <1>2, <1>7, LetGoTokens
<1>9. taker[t].outcome \in Outcomes
  BY <1>1, <1>6, RowInHand
<1>10. /\ Cardinality(Counted(Outcomes)') = Cardinality(Counted(Outcomes)) + 1
       /\ Cardinality(Counted({"completed"})') = Cardinality(Counted({"completed"})) + (IF taker[t].outcome = "completed" THEN 1 ELSE 0)
       /\ Cardinality(Counted({"failed"})') = Cardinality(Counted({"failed"})) + (IF taker[t].outcome = "failed" THEN 1 ELSE 0)
       /\ Cardinality(Counted({"completed"})) \in Nat /\ Cardinality(Counted({"failed"})) \in Nat
  <2>1. {"completed"} \in SUBSET Outcomes /\ {"failed"} \in SUBSET Outcomes /\ Outcomes \in SUBSET Outcomes
    BY DEF Outcomes
  <2> QED BY <1>1, <1>2, <1>7, <1>9, <2>1, CountedGains
<1>11. CountInv'
  <2>1. SUFFICES ASSUME errors <= 1
                 PROVE  /\ job'.processed = Cardinality(Counted(Outcomes)')
                        /\ job'.succeeded = Cardinality(Counted({"completed"})')
                        /\ job'.failed = Cardinality(Counted({"failed"})')
    BY <1>1 DEF CountInv
  <2>2. /\ job.processed = Cardinality(Counted(Outcomes))
        /\ job.succeeded = Cardinality(Counted({"completed"}))
        /\ job.failed = Cardinality(Counted({"failed"}))
    BY <1>3, <2>1 DEF CountInv
  <2> QED BY <1>4, <1>10, <2>2
<1> QED BY <1>7, <1>8, <1>11 DEF LobbyBody

\* The second error of a row is swallowed; two errors are more than CountInv
\* speaks of.
LEMMA BreakMoves ==
  ASSUME LobbyBody, NEW t \in LobbyTakers, Lobby!RowBreaks(t), taker[t].rescue
  PROVE  LobbyBody'
<1>1. /\ taker[t].step \in {"commit", "bump"} /\ errors' = errors + 1 /\ UNCHANGED <<job, image, queue, dropped>>
      /\ Lobby!Done(t)
  BY DEF Lobby!RowBreaks, Lobby!Done, Lobby!Error
<1>2. LobbyTyped /\ taker[t].step \in WorkSteps
  BY <1>1 DEF LobbyBody, WorkSteps
<1>3. Freed(t)
  BY <1>1, <1>2, DoneFrees
<1>4. /\ job \in LobbyJobs /\ errors \in Nat /\ queue \subseteq RowMsgs \cup JobMsgs
      /\ errors >= 1
  BY <1>2 DEF LobbyTyped
<1>5. MoreErrors /\ ~(errors' <= 1)
  BY <1>1, <1>4, ErrorsGrow
<1>6. /\ LobbyTyped' /\ DispatchInv' /\ EndInv'
      /\ \A i \in Images : ~Carries(t, i)' /\ ~Works(t, i)'
  BY <1>1, <1>2, <1>3, <1>4, <1>5, LetGoTypes DEF Freed
<1>7. \A i \in Images : RowToken(i)'
  BY <1>1, <1>3, <1>6, LetGoTokens DEF Freed
<1>8. CountInv'
  BY <1>5 DEF CountInv
<1> QED BY <1>6, <1>7, <1>8 DEF LobbyBody

\* The message of the row goes back to the queue.
LEMMA AgainMoves ==
  ASSUME LobbyBody, NEW t \in LobbyTakers, Lobby!ExtractAgain(t)
  PROVE  LobbyBody'
<1>1. /\ taker[t].step = "load" /\ taker[t].tries < Attempts - 1 /\ UNCHANGED <<job, image, errors, dropped>>
      /\ Lobby!Done(t)
      /\ queue' = queue \cup {Lobby!RowMsg(taker[t].row, taker[t].tries + 1)}
  BY DEF Lobby!ExtractAgain
<1>2. LobbyTyped /\ CountInv /\ taker[t].step \in WorkSteps
  BY <1>1 DEF LobbyBody, WorkSteps
<1>3. Freed(t)
  BY <1>1, <1>2, DoneFrees
<1>4. PICK i0 \in Images : i0 = taker[t].row /\ image[i0] = "dispatched" /\ Carries(t, i0) /\ taker[t] \in Tasks
  BY <1>1, <1>2, RowInHand
<1>5. PICK n \in 0 .. Attempts - 1 : n = taker[t].tries + 1
  BY <1>1, <1>4, LobbyConstants DEF Tasks
<1>6. PICK m : m = [step |-> "load", row |-> i0, tries |-> n]
  OBVIOUS
<1>7. m \in RowMsgs /\ m.step = "load" /\ m.row = i0 /\ queue' = queue \cup {m}
  BY <1>1, <1>4, <1>5, <1>6 DEF RowMsgs, Lobby!RowMsg
<1>8. /\ job \in LobbyJobs /\ errors \in Nat /\ queue' \subseteq RowMsgs \cup JobMsgs
  BY <1>2, <1>7 DEF LobbyTyped
<1>9. MoreErrors
  BY <1>1, <1>8, ErrorsStay
<1>10. /\ LobbyTyped' /\ DispatchInv' /\ EndInv'
       /\ \A i \in Images : ~Carries(t, i)' /\ ~Works(t, i)'
  <2>1. \A x \in queue' : x.step \in {"dispatch", "finalize"} => x \in queue
    BY <1>7
  <2> QED BY <1>1, <1>2, <1>3, <1>8, <1>9, <2>1, LetGoTypes DEF Freed
<1>11. ASSUME NEW i \in Images
       PROVE  RowToken(i)'
  <2>1. RowToken(i)
    BY DEF LobbyBody
  <2>2. CASE i = i0
    <3>1. \A x : x \in MsgsOf(i)' => x = m \/ x \in MsgsOf(i)
      BY <1>7 DEF MsgsOf
    <3> QED BY <1>1, <1>3, <1>4, <1>10, <2>1, <2>2, <3>1, TokenGiven DEF Freed
  <2>3. CASE i # i0
    <3>1. \A x : x \in MsgsOf(i)' => x \in MsgsOf(i)
      BY <1>7, <2>3 DEF MsgsOf
    <3> QED BY <1>1, <1>3, <1>10, <2>1, <3>1, TokenStays DEF Freed
  <2> QED BY <2>2, <2>3
<1>12. CountInv'
  <2>1. ASSUME NEW i \in Images
        PROVE  \/ image'[i] = image[i] /\ (Works(t, i)' <=> Works(t, i))
               \/ image[i] \notin Outcomes /\ image'[i] \notin Outcomes
    BY <1>1, <1>4, <1>10 DEF Works, Outcomes
  <2> QED BY <1>1, <1>2, <1>3, <1>9, <2>1, CountsStay DEF Freed
<1> QED BY <1>10, <1>11, <1>12 DEF LobbyBody

\* The claims move pending rows into the hands of the task ...
LEMMA ClaimRowsMoves ==
  ASSUME LobbyBody, NEW t \in LobbyTakers, Lobby!ClaimRows(t)
  PROVE  LobbyBody'
<1>1. LobbyTyped /\ DispatchInv /\ EndInv /\ CountInv /\ \A i \in Images : RowToken(i)
  BY DEF LobbyBody
<1>2. PICK won : won = Lobby!Won(taker[t].rows)
  OBVIOUS
<1>3. PICK old \in Tasks : old = taker[t]
  BY <1>1 DEF LobbyTyped
<1>4. won \subseteq Images /\ \A i \in won : image[i] = "pending"
  BY <1>2 DEF Lobby!Won, Lobby!Pending
<1>5. /\ old.step = "claim rows" /\ UNCHANGED <<job, queue, errors, dropped>>
      /\ image' = [i \in Images |-> IF i \in won THEN "dispatched" ELSE image[i]]
      /\ taker' = [taker EXCEPT ![t].step = "publish rows", ![t].rows = won]
  BY <1>2, <1>3 DEF Lobby!ClaimRows
<1>6. PICK new : new = [old EXCEPT !.step = "publish rows", !.rows = won]
  OBVIOUS
<1>7. new \in Tasks /\ new.step = "publish rows" /\ new.rows = won
  BY <1>3, <1>4, <1>6 DEF Tasks, LobbySteps
<1>8. taker' \in [LobbyTakers -> Tasks] /\ Only(t) /\ taker'[t] = new
  <2>1. taker \in [LobbyTakers -> Tasks]
    BY <1>1 DEF LobbyTyped
  <2>2. taker' = [taker EXCEPT ![t] = new]
    BY <1>3, <1>5, <1>6, <2>1
  <2> QED BY <1>7, <2>1, <2>2 DEF Only
<1>9. /\ \A i \in Images : i \in won => image'[i] = "dispatched"
      /\ \A i \in Images : i \notin won => image'[i] = image[i]
      /\ image' \in [Images -> {"pending", "dispatched", "completed", "failed"}]
  BY <1>1, <1>4, <1>5 DEF LobbyTyped
<1>10. /\ taker[t].step = "claim rows" /\ taker'[t].step = "publish rows"
       /\ \A i \in Images : ~Works(t, i) /\ ~Works(t, i)' /\ (Carries(t, i)' <=> i \in won)
  BY <1>3, <1>5, <1>7, <1>8 DEF Works, Carries, WorkSteps
<1>11. LobbyTyped'
  <2>1. \A u \in LobbyTakers : taker'[u].step \in WorkSteps => taker'[u] = taker[u]
    BY <1>8, <1>10 DEF Only, WorkSteps
  <2>2. {"commit", "bump"} \subseteq WorkSteps
    BY DEF WorkSteps
  <2> QED BY <1>1, <1>5, <1>8, <1>9, <2>1, <2>2 DEF LobbyTyped
<1>12. ASSUME NEW i \in Images
       PROVE  RowToken(i)'
  <2>1. \A m : m \in MsgsOf(i)' => m \in MsgsOf(i)
    BY <1>5 DEF MsgsOf
  <2>2. CASE i \in won
    <3>1. image[i] = "pending" /\ image'[i] = "dispatched"
      BY <1>4, <1>9, <2>2
    <3> QED BY <1>1, <1>8, <1>10, <2>1, <3>1, TokenMade
  <2>3. CASE i \notin won
    BY <1>1, <1>8, <1>9, <1>10, <2>1, <2>3, TokenStays
  <2> QED BY <2>2, <2>3
<1>13. DispatchInv'
  <2>1. taker[t].step \notin {"free", "dispatch"} /\ taker'[t].step # "dispatch"
        /\ \A m \in queue' : m.step = "dispatch" => m \in queue
    BY <1>5, <1>10
  <2> QED BY <1>1, <1>8, <2>1, DispatchRests
<1>14. EndInv'
  <2>1. Ending' => Ending
    BY <1>5, <1>8, <1>10 DEF Ending, Only
  <2>2. \A i \in Images : image[i] \in Outcomes => image'[i] \in Outcomes
    BY <1>4, <1>9 DEF Outcomes
  <2> QED BY <1>1, <2>1, <2>2, EndRests
<1>15. CountInv'
  <2>1. ASSUME NEW i \in Images
        PROVE  \/ image'[i] = image[i] /\ (Works(t, i)' <=> Works(t, i))
               \/ image[i] \notin Outcomes /\ image'[i] \notin Outcomes
    BY <1>4, <1>9, <1>10 DEF Outcomes
  <2>2. MoreErrors
    BY <1>1, <1>5, ErrorsStay DEF LobbyTyped
  <2> QED BY <1>1, <1>5, <1>8, <2>1, <2>2, CountsStay
<1> QED BY <1>11, <1>12, <1>13, <1>14, <1>15 DEF LobbyBody

\* ... and the task publishes them, or an error lets it publish only some.
LEMMA PublishedMoves ==
  ASSUME LobbyBody, NEW t \in LobbyTakers, taker[t].step = "publish rows",
         taker' \in [LobbyTakers -> Tasks], Only(t), taker'[t].step \in {"free", "mark failed"},
         NEW some, some \subseteq taker[t].rows,
         NEW more, more \subseteq RowMsgs, queue' = queue \cup more, \A m \in more : m.row \in some,
         \A m, n \in more : m.row = n.row => m = n,
         UNCHANGED <<job, image>>, dropped' \in BOOLEAN, MoreErrors
  PROVE  LobbyBody'
<1>1. LobbyTyped /\ DispatchInv /\ EndInv /\ CountInv /\ \A i \in Images : RowToken(i)
  BY DEF LobbyBody
<1>2. some \subseteq Images
  <2>1. taker[t] \in Tasks
    BY <1>1 DEF LobbyTyped
  <2> QED BY <2>1 DEF Tasks
<1>3. queue' \subseteq RowMsgs \cup JobMsgs
  BY <1>1 DEF LobbyTyped
<1>4. \A m \in queue' : m.step # "load" => m \in queue
  BY DEF RowMsgs
<1>5. \A i \in Images : ~Works(t, i) /\ ~Works(t, i)' /\ ~Carries(t, i)' /\ (i \in some => Carries(t, i))
  BY DEF Works, Carries, WorkSteps
<1>6. LobbyTyped'
  <2>1. \A u \in LobbyTakers : taker'[u].step \in WorkSteps => taker'[u] = taker[u]
    BY DEF Only, WorkSteps
  <2>2. {"commit", "bump"} \subseteq WorkSteps
    BY DEF WorkSteps
  <2>3. errors' \in Nat /\ (errors >= 1 => errors' >= 1)
    BY DEF MoreErrors
  <2> QED BY <1>1, <1>3, <2>1, <2>2, <2>3 DEF LobbyTyped
<1>7. ASSUME NEW i \in Images
      PROVE  RowToken(i)'
  <2>1. RowToken(i)
    BY <1>1
  <2>2. CASE \E m \in more : m.row = i
    <3>1. PICK m \in more : m.row = i
      BY <2>2
    <3>2. \A n : n \in MsgsOf(i)' => n = m \/ n \in MsgsOf(i)
      BY <3>1 DEF MsgsOf
    <3> QED BY <1>5, <2>1, <3>1, <3>2, TokenGiven
  <2>3. CASE \A m \in more : m.row # i
    <3>1. \A n : n \in MsgsOf(i)' => n \in MsgsOf(i)
      BY <2>3 DEF MsgsOf
    <3> QED BY <1>5, <2>1, <3>1, TokenStays
  <2> QED BY <2>2, <2>3
<1>8. DispatchInv'
  <2>1. taker[t].step \notin {"free", "dispatch"} /\ taker'[t].step # "dispatch"
        /\ \A m \in queue' : m.step = "dispatch" => m \in queue
    BY <1>4
  <2> QED BY <1>1, <2>1, DispatchRests
<1>9. EndInv'
  <2>1. Ending' => Ending
    BY <1>4 DEF Ending, Only
  <2>2. \A i \in Images : image[i] \in Outcomes => image'[i] \in Outcomes
    OBVIOUS
  <2> QED BY <1>1, <2>1, <2>2, EndRests
<1>10. CountInv'
  <2>1. \A i \in Images : image'[i] = image[i] /\ (Works(t, i)' <=> Works(t, i))
    BY <1>5
  <2> QED BY <1>1, <2>1, CountsStay
<1> QED BY <1>6, <1>7, <1>8, <1>9, <1>10 DEF LobbyBody

\* The messages of the rows a task holds.
LEMMA RowMsgsOf ==
  ASSUME NEW rows, rows \subseteq Images, queue' = queue \cup {Lobby!RowMsg(i, 0) : i \in rows}
  PROVE  \E more : /\ queue' = queue \cup more /\ more \subseteq RowMsgs /\ \A m \in more : m.row \in rows
                   /\ \A m, n \in more : m.row = n.row => m = n
<1>1. PICK more : more = {Lobby!RowMsg(i, 0) : i \in rows}
  OBVIOUS
<1>2. 0 \in 0 .. Attempts - 1
  BY LobbyConstants
<1>3. /\ more \subseteq RowMsgs /\ \A m \in more : m.row \in rows
      /\ \A m, n \in more : m.row = n.row => m = n
  BY <1>1, <1>2 DEF Lobby!RowMsg, RowMsgs
<1>4. queue' = queue \cup more
  BY <1>1
<1> QED BY <1>3, <1>4

LEMMA RowsOfTask ==
  ASSUME LobbyTyped, NEW t \in LobbyTakers
  PROVE  taker[t].rows \in SUBSET Images
<1>1. taker[t] \in Tasks
  BY DEF LobbyTyped
<1> QED BY <1>1 DEF Tasks

LEMMA PublishRowsMoves ==
  ASSUME LobbyBody, NEW t \in LobbyTakers, Lobby!PublishRows(t)
  PROVE  LobbyBody'
<1>1. LobbyTyped /\ errors \in Nat /\ dropped \in BOOLEAN
  BY DEF LobbyBody, LobbyTyped
<1>2. /\ taker[t].step = "publish rows" /\ UNCHANGED <<job, image, errors, dropped>> /\ Freed(t)
      /\ queue' = queue \cup {Lobby!RowMsg(i, 0) : i \in taker[t].rows}
  BY <1>1, DoneFrees DEF Lobby!PublishRows
<1>3. PICK rows \in SUBSET Images : rows = taker[t].rows
  BY <1>1, RowsOfTask
<1>4. rows \subseteq Images /\ queue' = queue \cup {Lobby!RowMsg(i, 0) : i \in rows}
  BY <1>2, <1>3
<1>5. PICK more : /\ queue' = queue \cup more /\ more \subseteq RowMsgs /\ \A m \in more : m.row \in rows
                  /\ \A m, n \in more : m.row = n.row => m = n
  BY <1>4, RowMsgsOf
<1>7. /\ Only(t) /\ taker' \in [LobbyTakers -> Tasks] /\ taker'[t].step \in {"free", "mark failed"}
      /\ MoreErrors /\ dropped' \in BOOLEAN /\ rows \subseteq taker[t].rows
  BY <1>1, <1>2, <1>3, ErrorsStay DEF Freed
<1> QED BY <1>2, <1>5, <1>7, PublishedMoves

\* An error past the rows: of a follow-up, of finalize_job or of the dispatch.
LEMMA LostMoves ==
  ASSUME LobbyBody, NEW t \in LobbyTakers, Lobby!FollowUpLost(t) \/ Lobby!DispatchFails(t)
  PROVE  LobbyBody'
<1>1. LobbyTyped /\ job \in LobbyJobs /\ errors \in Nat /\ dropped \in BOOLEAN
  BY DEF LobbyBody, LobbyTyped
<1>2. /\ UNCHANGED <<job, image>> /\ errors' = errors + 1 /\ dropped' \in BOOLEAN
      /\ taker[t].step \in {"dispatch", "settle", "claim", "select", "claim rows", "publish rows", "publish finalize", "finalize"}
      /\ taker[t].step = "dispatch" => Lobby!DispatchFails(t)
  BY <1>1 DEF Lobby!FollowUpLost, Lobby!DispatchFails, Lobby!Error
<1>3. taker' \in [LobbyTakers -> Tasks] /\ Only(t) /\ taker'[t].step \in {"free", "mark failed"}
  <2>1. CASE Lobby!Done(t)
    BY <1>1, <2>1, DoneFrees DEF Freed
  <2>2. CASE Lobby!Goto(t, "mark failed")
    BY <1>1, <2>2, GotoMoves DEF Moved, LobbySteps
  <2> QED BY <2>1, <2>2 DEF Lobby!FollowUpLost, Lobby!DispatchFails
<1>4. MoreErrors
  BY <1>1, <1>2, ErrorsGrow
<1>5. PICK some \in IF taker[t].step = "publish rows" THEN SUBSET taker[t].rows ELSE {{}} :
        queue' = queue \cup {Lobby!RowMsg(i, 0) : i \in some}
  BY DEF Lobby!FollowUpLost, Lobby!DispatchFails, Lobby!PublishSome
<1>6. CASE taker[t].step = "publish rows"
  <2>1. some \subseteq taker[t].rows /\ queue' = queue \cup {Lobby!RowMsg(i, 0) : i \in some}
    BY <1>5, <1>6
  <2>2. some \subseteq Images
    BY <1>1, <2>1, RowsOfTask
  <2>3. PICK more : /\ queue' = queue \cup more /\ more \subseteq RowMsgs /\ \A m \in more : m.row \in some
                    /\ \A m, n \in more : m.row = n.row => m = n
    BY <2>1, <2>2, RowMsgsOf
  <2> QED BY <1>2, <1>3, <1>4, <1>6, <2>1, <2>3, PublishedMoves
<1>7. CASE taker[t].step # "publish rows"
  <2>1. queue' = queue
    BY <1>5, <1>7
  <2>2. Ending' => Ending
    BY <1>2, <1>3, <2>1 DEF Ending, Only
  <2>3. CASE taker[t].step # "dispatch"
    BY <1>1, <1>2, <1>3, <1>4, <1>7, <2>1, <2>2, <2>3, QuietMoves
  <2>4. CASE taker[t].step = "dispatch"
    <3>1. Undispatched
      BY <2>4 DEF Undispatched
    <3>2. queue = {} /\ \A u \in LobbyTakers : u # t => taker[u].step = "free"
      <4>1. queue = {}
        BY <2>4, <3>1 DEF DispatchInv, LobbyBody
      <4> QED BY <2>4, <3>1, <4>1 DEF DispatchInv, LobbyBody
    <3>3. \A u \in LobbyTakers : taker'[u].step \in {"free", "mark failed"}
      BY <1>3, <3>2 DEF Only
    <3>4. \A u \in LobbyTakers, i \in Images : ~Works(u, i) /\ ~Works(u, i)' /\ ~Carries(u, i)'
      BY <2>4, <3>2, <3>3 DEF Works, Carries, WorkSteps
    <3>5. LobbyTyped'
      BY <1>1, <1>2, <1>3, <1>4, <2>1, <3>3 DEF LobbyTyped, WorkSteps, MoreErrors
    <3>6. ASSUME NEW i \in Images
          PROVE  RowToken(i)'
      <4>1. MsgsOf(i)' = {}
        BY <2>1, <3>2 DEF MsgsOf
      <4> QED BY <3>4, <4>1 DEF RowToken
    <3>7. DispatchInv'
      BY <2>1, <3>2, <3>3 DEF DispatchInv, Undispatched
    <3>8. EndInv'
      BY <1>2, <2>2 DEF EndInv, LobbyBody
    <3>9. CountInv'
      BY <1>2, <1>3, <1>4, <3>4, CountsStay DEF LobbyBody
    <3> QED BY <3>5, <3>6, <3>7, <3>8, <3>9 DEF LobbyBody
  <2> QED BY <2>3, <2>4
<1> QED BY <1>6, <1>7

LEMMA LobbyMoves ==
  ASSUME LobbyInv, Next
  PROVE  LobbyInv'
<1>1. SUFFICES ASSUME service' = "lobby"
               PROVE  LobbyBody'
  BY DEF LobbyInv
<1>2. service = "lobby" /\ Lobby!LobbyNext
  BY <1>1 DEF Next, OnlyShowtimes, OnlyLobby, OnlySync, OnlyCalendar, OnlyEmpty
<1>3. LobbyBody
  BY <1>2 DEF LobbyInv
<1>4. PICK t \in LobbyTakers : Lobby!LobbyStep(t) \/ Lobby!ExtractAgain(t) \/ Lobby!LobbyFault(t)
  BY <1>2 DEF Lobby!LobbyNext
<1> QED BY <1>3, <1>4, TakeMoves, DispatchMoves, ReadingMoves, BumpMoves, BreakMoves, AgainMoves, EndingMoves,
           ClaimRowsMoves, PublishRowsMoves, LostMoves DEF Lobby!LobbyStep, Lobby!LobbyFault

\* When everybody is free and the job is over, every ended row is counted.
LEMMA LobbyTotals ==
  ASSUME LobbyBody
  PROVE  Lobby!TotalsAddUp
<1>1. SUFFICES ASSUME job.phase \in Lobby!Finished, \A t \in LobbyTakers : taker[t] = Lobby!Free, errors <= 1
               PROVE  /\ job.processed = Cardinality(Images \ Lobby!Outstanding)
                      /\ job.failed = Cardinality(Lobby!Failed)
                      /\ job.succeeded = Cardinality((Images \ Lobby!Outstanding) \ Lobby!Failed)
                      /\ job.phase # "failed" => Lobby!Outstanding = {}
  BY DEF Lobby!TotalsAddUp, Cardinality, Lobby!Cardinality
<1>2. EndInv /\ CountInv /\ image \in [Images -> {"pending", "dispatched", "completed", "failed"}]
  BY DEF LobbyBody, LobbyTyped
<1>3. job.phase # "failed" => \A i \in Images : image[i] \in Outcomes
  BY <1>1, <1>2 DEF EndInv, Ending, Lobby!Finished
<1>4. \A t \in LobbyTakers, i \in Images : ~Works(t, i)
  BY <1>1 DEF Works, WorkSteps, Lobby!Free
<1>5. job.phase # "failed" => Lobby!Outstanding = {}
  BY <1>3 DEF Lobby!Outstanding, Outcomes
<1>6. /\ Counted(Outcomes) = Images \ Lobby!Outstanding
      /\ Counted({"failed"}) = Lobby!Failed
      /\ Counted({"completed"}) = (Images \ Lobby!Outstanding) \ Lobby!Failed
  BY <1>2, <1>4 DEF Counted, Lobby!Failed, Lobby!Outstanding, Outcomes
<1> QED BY <1>1, <1>2, <1>5, <1>6 DEF CountInv

-----------------------------------------------------------------------------
(* The calendar.                                                           *)

Calendars ==
  [status : {"queued", "classifying", "processing", "rejected", "failed", "completed"},
   step : {"queued", "text", "call", "parsed", "raised", "sheet", "except", "end", "lost"},
   purpose : {"classify", "rows"}, chunks : Nat, good : Nat, skipped : Nat, rows : BOOLEAN,
   attempt : Nat, temperature : BOOLEAN, sheet : BOOLEAN, note : BOOLEAN]

\* Chunks are left until the sheet, and none then; a completed job is over.
CalendarBody ==
  /\ calendar \in Calendars
  /\ calendar.step \in {"queued", "text", "call", "parsed", "raised"} =>
       calendar.good + calendar.skipped < calendar.chunks
  /\ calendar.step = "sheet" => calendar.good + calendar.skipped = calendar.chunks
  /\ calendar.status = "completed" => calendar.step = "end" /\ Calendar!SheetIsAccountedFor

CalendarInv == service = "calendar" => CalendarBody

LEMMA CalendarStart == Init => CalendarInv
<1> SUFFICES ASSUME Init, service = "calendar" PROVE CalendarBody
  BY DEF CalendarInv
<1>1. Calendar!CalendarInit /\ MaxChunks \in Nat
  BY SideAssumption DEF Init, SideAssumption, Calendar!CalendarAssumption
<1>2. PICK chunks \in 1 .. MaxChunks :
        calendar = [status |-> "queued", step |-> "queued", purpose |-> "classify",
                    chunks |-> chunks, good |-> 0, skipped |-> 0, rows |-> FALSE,
                    attempt |-> 0, temperature |-> TRUE, sheet |-> FALSE, note |-> FALSE]
  BY <1>1 DEF Calendar!CalendarInit
<1>3. chunks \in Nat /\ 0 < chunks
  BY <1>1
<1> QED BY <1>2, <1>3 DEF CalendarBody, Calendars

\* A job of which nothing is completed yet.
CalendarGoesOn(c) ==
  /\ c \in Calendars /\ c.status # "completed"
  /\ c.step \in {"queued", "text", "call", "parsed", "raised"} => c.good + c.skipped < c.chunks
  /\ c.step = "sheet" => c.good + c.skipped = c.chunks

LEMMA CalendarCalls ==
  ASSUME NEW c \in Calendars, c.good + c.skipped < c.chunks, c.status # "completed"
  PROVE  /\ \A purpose \in {"classify", "rows"} : CalendarGoesOn(Calendar!NewCall(c, purpose))
         /\ \A verdict \in BOOLEAN, status \in {"rejected", "failed"} : CalendarGoesOn(Calendar!Ended(c, status))
         /\ CalendarGoesOn(Calendar!NewCall([c EXCEPT !.status = "processing"], "rows"))
         /\ CalendarGoesOn(Calendar!NextAttempt(c))
         /\ CalendarGoesOn(Calendar!NextAttempt([c EXCEPT !.temperature = FALSE]))
<1>1. \A purpose \in {"classify", "rows"} : CalendarGoesOn(Calendar!NewCall(c, purpose))
  BY DEF Calendar!NewCall, CalendarGoesOn, Calendars
<1>2. \A status \in {"rejected", "failed"} : CalendarGoesOn(Calendar!Ended(c, status))
  BY DEF Calendar!Ended, CalendarGoesOn, Calendars
<1>3. CalendarGoesOn(Calendar!NewCall([c EXCEPT !.status = "processing"], "rows"))
  BY DEF Calendar!NewCall, CalendarGoesOn, Calendars
<1>4. ASSUME NEW d \in Calendars, d.good = c.good, d.skipped = c.skipped, d.chunks = c.chunks, d.status = c.status
      PROVE  CalendarGoesOn(Calendar!NextAttempt(d))
  <2>1. PICK step \in {"raised", "call"} : step = IF d.attempt = 1 THEN "raised" ELSE "call"
    OBVIOUS
  <2>2. PICK n \in Nat : n = d.attempt + 1
    BY DEF Calendars
  <2>3. PICK e : e = [d EXCEPT !.attempt = n, !.step = step]
    OBVIOUS
  <2>4. Calendar!NextAttempt(d) = e
    BY <2>1, <2>2, <2>3 DEF Calendar!NextAttempt
  <2>5. /\ e \in Calendars /\ e.step = step
        /\ e.good = d.good /\ e.skipped = d.skipped /\ e.chunks = d.chunks /\ e.status = d.status
    BY <2>3 DEF Calendars
  <2> QED BY <1>4, <2>1, <2>4, <2>5 DEF CalendarGoesOn
<1>5. PICK d \in Calendars : d = [c EXCEPT !.temperature = FALSE]
  BY DEF Calendars
<1>6. d.good = c.good /\ d.skipped = c.skipped /\ d.chunks = c.chunks /\ d.status = c.status
  BY <1>5 DEF Calendars
<1>7. CalendarGoesOn(Calendar!NextAttempt(c)) /\ CalendarGoesOn(Calendar!NextAttempt([c EXCEPT !.temperature = FALSE]))
  BY <1>4, <1>5, <1>6
<1> QED BY <1>1, <1>2, <1>3, <1>7

LEMMA CalendarChunks ==
  ASSUME NEW c \in Calendars, c.good + c.skipped <= c.chunks, c.status # "completed"
  PROVE  CalendarGoesOn(Calendar!AfterChunk(c))
<1>1. CASE c.good + c.skipped = c.chunks
  BY <1>1 DEF Calendar!AfterChunk, CalendarGoesOn, Calendars
<1>2. CASE c.good + c.skipped # c.chunks
  <2>1. c.good + c.skipped < c.chunks
    BY <1>2 DEF Calendars
  <2> QED BY <1>2, <2>1, CalendarCalls DEF Calendar!AfterChunk
<1> QED BY <1>1, <1>2

LEMMA CalendarMoves ==
  ASSUME CalendarInv, Next
  PROVE  CalendarInv'
<1>1. SUFFICES ASSUME service' = "calendar"
               PROVE  CalendarBody'
  BY DEF CalendarInv
<1>2. service = "calendar" /\ Calendar!CalendarNext
  BY <1>1 DEF Next, OnlyShowtimes, OnlyLobby, OnlySync, OnlyCalendar, OnlyEmpty
<1>3. CalendarBody
  BY <1>2 DEF CalendarInv
<1>4. PICK c \in Calendars : c = calendar
  BY <1>3 DEF CalendarBody
<1>5. c.step # "end" => c.status # "completed"
  BY <1>3, <1>4 DEF CalendarBody
<1>6. c.step \in {"queued", "text", "call", "parsed", "raised"} => c.good + c.skipped < c.chunks
  BY <1>3, <1>4 DEF CalendarBody
<1>7. c.step = "sheet" => c.good + c.skipped = c.chunks
  BY <1>3, <1>4 DEF CalendarBody
<1>8. ASSUME CalendarGoesOn(calendar')
      PROVE  CalendarBody'
  BY <1>8 DEF CalendarGoesOn, CalendarBody
<1>9. CASE Calendar!Start
  <2>1. calendar' = [c EXCEPT !.step = "text", !.status = "classifying"] /\ c.step = "queued"
    BY <1>4, <1>9 DEF Calendar!Start
  <2> QED BY <1>6, <1>8, <2>1 DEF CalendarGoesOn, Calendars
<1>10. CASE Calendar!ClassifyStageA
  <2>1. c.step = "text"
        /\ calendar' \in {Calendar!NewCall([c EXCEPT !.status = "processing"], "rows"), Calendar!Ended(c, "rejected"),
                          Calendar!NewCall(c, "classify")}
    BY <1>4, <1>10 DEF Calendar!ClassifyStageA, Calendar!Accepted
  <2> QED BY <1>5, <1>6, <1>8, <2>1, CalendarCalls
<1>11. CASE Calendar!ClassifyStageB
  <2>1. c.step = "parsed"
        /\ calendar' \in {Calendar!NewCall([c EXCEPT !.status = "processing"], "rows"), Calendar!Ended(c, "rejected")}
    BY <1>4, <1>11 DEF Calendar!ClassifyStageB, Calendar!Accepted
  <2> QED BY <1>5, <1>6, <1>8, <2>1, CalendarCalls
<1>12. CASE Calendar!TemperatureRefusal \/ Calendar!ParseFails
  <2>1. c.step = "call"
        /\ calendar' \in {Calendar!NextAttempt(c), Calendar!NextAttempt([c EXCEPT !.temperature = FALSE])}
    BY <1>4, <1>12 DEF Calendar!TemperatureRefusal, Calendar!ParseFails
  <2> QED BY <1>5, <1>6, <1>8, <2>1, CalendarCalls
<1>13. CASE Calendar!CallRaises \/ Calendar!CallConverseJson
  <2>1. PICK step \in {"raised", "parsed"} : calendar' = [c EXCEPT !.step = step] /\ c.step = "call"
    BY <1>4, <1>13 DEF Calendar!CallRaises, Calendar!CallConverseJson
  <2> QED BY <1>5, <1>6, <1>8, <2>1 DEF CalendarGoesOn, Calendars
<1>14. c.step \in {"parsed", "raised"} =>
         /\ CalendarGoesOn(Calendar!AfterChunk([c EXCEPT !.skipped = @ + 1]))
         /\ \A some \in BOOLEAN : CalendarGoesOn(Calendar!AfterChunk([c EXCEPT !.good = @ + 1, !.rows = @ \/ some]))
  <2> SUFFICES ASSUME c.step \in {"parsed", "raised"}
               PROVE  /\ CalendarGoesOn(Calendar!AfterChunk([c EXCEPT !.skipped = @ + 1]))
                      /\ \A some \in BOOLEAN : CalendarGoesOn(Calendar!AfterChunk([c EXCEPT !.good = @ + 1, !.rows = @ \/ some]))
    OBVIOUS
  <2>1. PICK d : d = [c EXCEPT !.skipped = @ + 1]
    OBVIOUS
  <2>2. d \in Calendars /\ d.good + d.skipped <= d.chunks /\ d.status # "completed"
    BY <1>5, <1>6, <2>1 DEF Calendars
  <2>3. ASSUME NEW some \in BOOLEAN
        PROVE  CalendarGoesOn(Calendar!AfterChunk([c EXCEPT !.good = @ + 1, !.rows = @ \/ some]))
    <3>1. PICK rows \in BOOLEAN : rows = (c.rows \/ some)
      BY Zenon
    <3>2. PICK e : e = [c EXCEPT !.good = @ + 1, !.rows = rows]
      OBVIOUS
    <3>4. [c EXCEPT !.good = @ + 1, !.rows = @ \/ some] = e
      BY <3>1, <3>2, Zenon DEF Calendars
    <3>5. PICK good \in Nat : good = c.good + 1
      BY DEF Calendars
    <3>6. e = [c EXCEPT !.good = good, !.rows = rows]
      BY <3>2, <3>5
    <3>7. e \in Calendars /\ e.good = good /\ e.skipped = c.skipped /\ e.chunks = c.chunks /\ e.status = c.status
      BY <3>1, <3>6 DEF Calendars
    <3>8. c.good + c.skipped < c.chunks /\ c.good \in Nat /\ c.skipped \in Nat /\ c.chunks \in Nat
      BY <1>6 DEF Calendars
    <3>9. good + c.skipped <= c.chunks
      BY <3>5, <3>8
    <3>3. e \in Calendars /\ e.good + e.skipped <= e.chunks /\ e.status # "completed"
      BY <1>5, <3>7, <3>9
    <3> QED BY <3>3, <3>4, CalendarChunks
  <2> QED BY <2>1, <2>2, <2>3, CalendarChunks
<1>15. CASE Calendar!Raised
  <2>1. /\ c.step = "raised"
        /\ \/ calendar' = Calendar!AfterChunk([c EXCEPT !.skipped = @ + 1])
           \/ calendar' = [c EXCEPT !.step = "except"]
    BY <1>4, <1>15 DEF Calendar!Raised, Calendar!SkipChunk
  <2>2. CalendarGoesOn([c EXCEPT !.step = "except"])
    BY <1>5, <2>1 DEF CalendarGoesOn, Calendars
  <2> QED BY <1>8, <1>14, <2>1, <2>2
<1>16. CASE Calendar!ExtractCalendarRows
  <2>1. /\ c.step = "parsed"
        /\ \/ calendar' = Calendar!AfterChunk([c EXCEPT !.skipped = @ + 1])
           \/ \E some \in BOOLEAN :
                calendar' = Calendar!AfterChunk([c EXCEPT !.good = @ + 1, !.rows = @ \/ some])
    BY <1>4, <1>16 DEF Calendar!ExtractCalendarRows, Calendar!SkipChunk
  <2> QED BY <1>8, <1>14, <2>1
<1>17. CASE Calendar!StoreSheet
  <2>1. c.step = "sheet" /\ calendar' = IF c.rows
                 THEN [Calendar!Ended(c, "completed") EXCEPT !.sheet = TRUE, !.note = c.skipped > 0]
                 ELSE Calendar!Ended(c, "failed")
    BY <1>4, <1>17 DEF Calendar!StoreSheet
  <2>2. CASE c.rows
    <3>1. calendar' = [Calendar!Ended(c, "completed") EXCEPT !.sheet = TRUE, !.note = c.skipped > 0]
      BY <2>1, <2>2
    <3>2. PICK ended \in Calendars : ended = Calendar!Ended(c, "completed")
      BY DEF Calendar!Ended, Calendars
    <3>4. /\ ended.step = "end" /\ ended.status = "completed" /\ ended.rows
          /\ ended.good = c.good /\ ended.skipped = c.skipped /\ ended.chunks = c.chunks
      BY <2>2, <3>2 DEF Calendar!Ended, Calendars
    <3>5. calendar' = [ended EXCEPT !.sheet = TRUE, !.note = c.skipped > 0]
      BY <3>1, <3>2
    <3>6. calendar'.note = (c.skipped > 0)
      BY <3>5 DEF Calendars
    <3>7. calendar' \in Calendars
      <4>1. PICK note : note = (c.skipped > 0)
        OBVIOUS
      <4>2. note \in BOOLEAN
        BY <4>1
      <4>3. calendar' = [ended EXCEPT !.sheet = TRUE, !.note = note]
        BY <3>5, <4>1
      <4> QED BY <4>2, <4>3 DEF Calendars
    <3>8. /\ calendar'.step = "end" /\ calendar'.status = "completed"
          /\ calendar'.sheet /\ calendar'.rows
          /\ calendar'.good = c.good /\ calendar'.skipped = c.skipped /\ calendar'.chunks = c.chunks
      BY <3>4, <3>5 DEF Calendars
    <3>3. /\ calendar' \in Calendars /\ calendar'.step = "end" /\ calendar'.status = "completed"
          /\ calendar'.sheet /\ calendar'.rows /\ (calendar'.note <=> c.skipped > 0)
          /\ calendar'.good = c.good /\ calendar'.skipped = c.skipped /\ calendar'.chunks = c.chunks
      BY <3>6, <3>7, <3>8
    <3> QED BY <1>7, <2>1, <3>3 DEF CalendarBody, Calendar!SheetIsAccountedFor
  <2>3. CASE ~c.rows
    BY <1>8, <2>1, <2>3 DEF Calendar!Ended, CalendarGoesOn, Calendars
  <2> QED BY <2>2, <2>3
<1>18. CASE Calendar!Raises \/ Calendar!Lost
  <2>1. PICK step \in {"except", "lost"} : calendar' = [c EXCEPT !.step = step] /\ c.step # "end"
    BY <1>4, <1>18 DEF Calendar!Raises, Calendar!Lost
  <2> QED BY <1>5, <1>8, <2>1 DEF CalendarGoesOn, Calendars
<1>19. CASE Calendar!ExceptBranch
  <2>1. calendar' = [c EXCEPT !.step = "end", !.status = "failed"]
    BY <1>4, <1>19 DEF Calendar!ExceptBranch, Calendar!Ended
  <2> QED BY <1>8, <2>1 DEF CalendarGoesOn, Calendars
<1> QED BY <1>2, <1>9, <1>10, <1>11, <1>12, <1>13, <1>15, <1>16, <1>17, <1>18, <1>19
        DEF Calendar!CalendarNext, Calendar!ProcessCalendarJob

LEMMA LobbyKept == LobbyInv /\ [Next]_vars => LobbyInv'
<1> SUFFICES ASSUME LobbyInv, [Next]_vars
             PROVE  LobbyInv'
  OBVIOUS
<1>1. CASE Next
  BY <1>1, LobbyMoves
<1>2. CASE UNCHANGED vars
  <2>1. UNCHANGED <<service, job, queue, image, taker, errors, dropped>>
    BY <1>2 DEF vars, lobbyVars
  <2>2. LobbyTyped => LobbyTyped'
    BY <2>1 DEF LobbyTyped
  <2>3. (\A i \in Images : RowToken(i)) => (\A i \in Images : RowToken(i))'
    <3>1. \A i : MsgsOf(i)' = MsgsOf(i)
      BY <2>1 DEF MsgsOf
    <3>2. \A t, i : Carries(t, i)' <=> Carries(t, i)
      BY <2>1 DEF Carries, Works
    <3>3. ASSUME NEW i \in Images, RowToken(i)
          PROVE  RowToken(i)'
      BY <2>1, <3>1, <3>2, <3>3 DEF RowToken
    <3> QED BY <3>3
  <2>4. (DispatchInv => DispatchInv') /\ (EndInv => EndInv')
    BY <2>1 DEF DispatchInv, Undispatched, EndInv, Ending
  <2>5. Counted(Outcomes)' = Counted(Outcomes) /\ Counted({"completed"})' = Counted({"completed"})
        /\ Counted({"failed"})' = Counted({"failed"})
    BY <2>1 DEF Counted, Works
  <2>6. CountInv => CountInv'
    BY <2>1, <2>5 DEF CountInv
  <2> QED BY <2>1, <2>2, <2>3, <2>4, <2>6 DEF LobbyInv, LobbyBody
<1> QED BY <1>1, <1>2

LEMMA CalendarKept == CalendarInv /\ [Next]_vars => CalendarInv'
<1>1. CalendarInv /\ Next => CalendarInv'
  BY CalendarMoves
<1>2. CalendarInv /\ UNCHANGED vars => CalendarInv'
  BY DEF vars, CalendarInv, CalendarBody, Calendar!SheetIsAccountedFor
<1> QED BY <1>1, <1>2

(***************************************************************************)
(* The totals of a finished lobby check are those of its rows, and a       *)
(* calendar sheet is of every chunk or carries its note, for any number of *)
(* images, workers, windows, attempts and chunks (lobby_check_task.py,     *)
(* calendar_extract_task.py).                                              *)
(***************************************************************************)
THEOREM TotalsAddUpHolds == FairSpec => []TotalsAddUp
<1>1. Init => LobbyInv /\ CalendarInv
  BY LobbyStart, CalendarStart
<1>2. LobbyInv /\ CalendarInv /\ [Next]_vars => LobbyInv' /\ CalendarInv'
  BY LobbyKept, CalendarKept
<1>3. LobbyInv /\ CalendarInv => TotalsAddUp
  BY LobbyTotals DEF LobbyInv, CalendarInv, CalendarBody, TotalsAddUp, Calendar!SheetIsAccountedFor
<1> QED BY <1>1, <1>2, <1>3, PTL DEF FairSpec

-----------------------------------------------------------------------------
(* The deleted-showtimes job.                                              *)

Marks == [verdict : Showtimes!Verdicts, site : Showtimes!Verdicts]
With(v) == {m \in Marks : m.verdict = v}
SiteWith(v) == {m \in Marks : m.site = v}

BatchSteps == Showtimes!Fallible \cup {"waiting", "queued", "release", "failing", "done", "raised", "killed"}
Paths == {"normal", "skipped", "exhausted", "rescue"}
Tallies == [{"T", "F"} -> Nat]
BatchTasks ==
  [step : BatchSteps, path : Paths, asked : Int, ok : BOOLEAN,
   rows : UNION {[ShowingsOf[b] -> Marks] : b \in ShowtimeBatches},
   tally : Tallies, holder : {"none", "held", "lapsed", "open"}]

ShowtimeJobs ==
  [status : {"queued", "processing", "completed", "failed"}, processed : Nat,
   count : [Showtimes!Verdicts -> Nat], site : Tallies, failures : Int, aborted : BOOLEAN]

Finals ==
  {"dispatch", "missing", "store missing", "publish", "chord", "write", "complete", "none", "lost"}

ShowtimesTyped ==
  /\ job \in ShowtimeJobs /\ final \in Finals
  /\ batch \in [ShowtimeBatches -> BatchTasks]
  /\ \A b \in ShowtimeBatches : batch[b].rows \in [ShowingsOf[b] -> Marks]

\* Which path a batch can be on at a step, and where it has no site tally yet.
NotChecked == {"waiting", "queued", "acquire", "search", "decide", "site"}
PathOK(b) ==
  /\ batch[b].step \in {"acquire", "search", "decide", "site"} => batch[b].path = "normal"
  /\ batch[b].step \in NotChecked => batch[b].tally = Showtimes!NoTally
  /\ batch[b].step \in {"record", "judge"} => batch[b].path \in {"normal", "rescue"}
  /\ batch[b].step = "abort" => batch[b].path # "skipped"

\* The report is written when every batch is done, and only then.
ReportStep == final \in {"write", "complete"} \/ job.status = "completed"
PhaseInv ==
  /\ job.status \in {"completed", "failed"} => final = "none"
  /\ final \in {"dispatch", "missing", "store missing", "publish"} =>
       \A b \in ShowtimeBatches : batch[b].step = "waiting"
  /\ ReportStep => ~job.aborted /\ \A b \in ShowtimeBatches : batch[b].step = "done"

\* What the job has counted of each row: its mark.
AfterCount(b) ==
  \/ batch[b].step \in {"record", "judge", "release", "done"}
  \/ batch[b].step = "abort" /\ batch[b].path # "exhausted"
AfterStore(b) == batch[b].step = "count" \/ AfterCount(b)
MissingTold == final \notin {"dispatch", "missing"}

Tells(r, m) ==
  \/ r \in Showtimes!Missing /\ MissingTold /\ m = Showtimes!Unsure
  \/ \E b \in ShowtimeBatches : r \in ShowingsOf[b] /\ AfterCount(b) /\ m = batch[b].rows[r]
Told(marks) == {r \in Showings : \E m \in marks : Tells(r, m)}

CountersRight ==
  /\ job.processed = Cardinality(Told(Marks))
  /\ \A v \in Showtimes!Verdicts : job.count[v] = Cardinality(Told(With(v)))
  /\ astray = {} => \A v \in {"T", "F"} : job.site[v] = Cardinality(Told(SiteWith(v)))

\* The tally of a batch is that of its rows, until an error parts them.
Fits(b, task) ==
  \A v \in {"T", "F"} : task.tally[v] = Cardinality({r \in ShowingsOf[b] : task.rows[r].site = v})
TalliesFit == skewed = {} /\ astray = {} => \A b \in ShowtimeBatches : Fits(b, batch[b])

\* What is stored of the rows, until finalize_job drops it, and what it has
\* written then.
Kept == final \notin {"complete", "none", "lost"}
StoredRight ==
  Kept =>
    /\ final \in {"publish", "chord", "write"} => \A r \in Showtimes!Missing : result[r] = Showtimes!Unsure
    /\ \A b \in ShowtimeBatches : AfterStore(b) => \A r \in ShowingsOf[b] : result[r] = batch[b].rows[r]
WrittenRight ==
  final = "complete" \/ job.status = "completed" =>
    /\ \A r \in Showtimes!Missing : output[r] = Showtimes!Unsure
    /\ \A b \in ShowtimeBatches : \A r \in ShowingsOf[b] : output[r] = batch[b].rows[r]

\* Nothing but a skewed count, a broken chord and a failed job can part them.
Broken(b) == batch[b].step \in {"killed", "raised", "failing"}
Sound == skewed = {} /\ job.status # "failed" /\ \A b \in ShowtimeBatches : ~Broken(b)

ShowtimesBody ==
  /\ ShowtimesTyped /\ PhaseInv /\ (\A b \in ShowtimeBatches : PathOK(b)) /\ TalliesFit
  /\ Sound => CountersRight /\ StoredRight /\ WrittenRight
ShowtimesInv == service = "showtimes" => ShowtimesBody

LEMMA ShowtimesConstants ==
  /\ IsFiniteSet(Showings) /\ Showtimes!Missing \subseteq Showings
  /\ ShowingsOf \in [ShowtimeBatches -> SUBSET Showings]
  /\ \A b \in ShowtimeBatches : ShowingsOf[b] \cap Showtimes!Missing = {}
  /\ \A b, c \in ShowtimeBatches : b # c => ShowingsOf[b] \cap ShowingsOf[c] = {}
  /\ \A r \in Showings : r \in Showtimes!Missing \/ \E b \in ShowtimeBatches : r \in ShowingsOf[b]
<1>1. Showtimes!JobAssumption
  BY SideAssumption DEF SideAssumption
<1>2. IsFiniteSet(Showings)
  BY <1>1 DEF Showtimes!JobAssumption, Showtimes!IsFiniteSet, IsFiniteSet
<1>3. /\ ShowingsOf \in [ShowtimeBatches -> SUBSET Showings]
      /\ \A b, c \in ShowtimeBatches : b # c => ShowingsOf[b] \cap ShowingsOf[c] = {}
  BY <1>1 DEF Showtimes!JobAssumption, Showtimes!Batches
<1>4. Showtimes!Missing = {r \in Showings : \A b \in ShowtimeBatches : r \notin ShowingsOf[b]}
  BY <1>3 DEF Showtimes!Missing, Showtimes!Batches
<1> QED BY <1>2, <1>3, <1>4

LEMMA UnsureIsAMark ==
  /\ Showtimes!Unsure \in Marks /\ Showtimes!Unsure.verdict = "U" /\ Showtimes!Unsure.site = "U"
  /\ \A m \in Marks : m # Showtimes!NotStored /\ m.verdict \in Showtimes!Verdicts
  /\ \A b \in ShowtimeBatches : Showtimes!NoVerdicts(b) \in [ShowingsOf[b] -> Marks]
  /\ \A b \in ShowtimeBatches : \A r \in ShowingsOf[b] : Showtimes!NoVerdicts(b)[r].site = "U"
  /\ Showtimes!NoTally \in Tallies /\ \A v \in {"T", "F"} : Showtimes!NoTally[v] = 0
BY DEF Showtimes!Unsure, Showtimes!NotStored, Showtimes!NoVerdicts, Showtimes!NoTally, Marks, Tallies, Showtimes!Verdicts

LEMMA ShowtimesStart == Init => ShowtimesInv
<1> SUFFICES ASSUME Init, service = "showtimes" PROVE ShowtimesBody
  BY DEF ShowtimesInv
<1>1. Showtimes!Init
  BY DEF Init
<1>2. /\ job = [status |-> "queued", processed |-> 0, count |-> [v \in Showtimes!Verdicts |-> 0],
                site |-> Showtimes!NoTally, failures |-> 0, aborted |-> FALSE]
      /\ batch = [b \in ShowtimeBatches |-> Showtimes!NewBatch(b)]
      /\ final = "dispatch"
  BY <1>1 DEF Showtimes!Init, Showtimes!Batches
<1>3. \A b \in ShowtimeBatches : /\ Showtimes!NewBatch(b) \in BatchTasks
                                 /\ Showtimes!NewBatch(b).step = "waiting"
                                 /\ Showtimes!NewBatch(b).rows \in [ShowingsOf[b] -> Marks]
                                 /\ Showtimes!NewBatch(b).tally = Showtimes!NoTally
                                 /\ \A r \in ShowingsOf[b] : Showtimes!NewBatch(b).rows[r].site = "U"
  <2> SUFFICES ASSUME NEW b \in ShowtimeBatches
               PROVE  /\ Showtimes!NewBatch(b) \in BatchTasks
                      /\ Showtimes!NewBatch(b).step = "waiting"
                      /\ Showtimes!NewBatch(b).rows \in [ShowingsOf[b] -> Marks]
                      /\ Showtimes!NewBatch(b).tally = Showtimes!NoTally
                      /\ \A r \in ShowingsOf[b] : Showtimes!NewBatch(b).rows[r].site = "U"
    OBVIOUS
  <2>1. PICK rows \in [ShowingsOf[b] -> Marks] : rows = Showtimes!NoVerdicts(b)
    BY UnsureIsAMark
  <2>2. rows \in UNION {[ShowingsOf[c] -> Marks] : c \in ShowtimeBatches}
    OBVIOUS
  <2>3. PICK tally \in Tallies : tally = Showtimes!NoTally
    BY UnsureIsAMark
  <2>4. \A r \in ShowingsOf[b] : rows[r].site = "U"
    BY <2>1, UnsureIsAMark
  <2> QED BY <2>1, <2>2, <2>3, <2>4 DEF Showtimes!NewBatch, BatchTasks, BatchSteps, Paths
<1>4. ShowtimesTyped
  BY <1>2, <1>3, UnsureIsAMark DEF ShowtimesTyped, ShowtimeJobs, Finals
<1>5. \A b \in ShowtimeBatches : batch[b].step = "waiting"
  BY <1>2, <1>3
<1>6. PhaseInv /\ \A b \in ShowtimeBatches : PathOK(b)
  BY <1>2, <1>3, <1>5 DEF PhaseInv, ReportStep, PathOK
<1>10. TalliesFit
  <2>1. ASSUME NEW b \in ShowtimeBatches, NEW v \in {"T", "F"}
        PROVE  batch[b].tally[v] = Cardinality({r \in ShowingsOf[b] : batch[b].rows[r].site = v})
    <3>1. batch[b].tally[v] = 0 /\ {r \in ShowingsOf[b] : batch[b].rows[r].site = v} = {}
      BY <1>2, <1>3, UnsureIsAMark
    <3> QED BY <3>1, FS_EmptySet
  <2> QED BY <2>1 DEF TalliesFit, Fits
<1>7. \A marks : Told(marks) = {}
  BY <1>2, <1>5 DEF Told, Tells, MissingTold, AfterCount
<1>8. CountersRight
  BY <1>2, <1>7, FS_EmptySet, UnsureIsAMark DEF CountersRight
<1>9. StoredRight /\ WrittenRight
  BY <1>2, <1>5 DEF StoredRight, WrittenRight, AfterStore, AfterCount
<1> QED BY <1>4, <1>6, <1>8, <1>9, <1>10 DEF ShowtimesBody

-----------------------------------------------------------------------------
(* What a step of one batch leaves alone.                                  *)

OnlyBatch(b) == \A c \in ShowtimeBatches : c # b => batch'[c] = batch[c]

LEMMA BatchSet ==
  ASSUME ShowtimesTyped, NEW b \in ShowtimeBatches, NEW new \in BatchTasks, batch' = [batch EXCEPT ![b] = new]
  PROVE  batch' \in [ShowtimeBatches -> BatchTasks] /\ OnlyBatch(b) /\ batch'[b] = new
BY DEF ShowtimesTyped, OnlyBatch

\* Batches that keep step, path and rows keep what the invariant says.
LEMMA Unmoved ==
  ASSUME ShowtimesBody, UNCHANGED <<job, result, final, output, skewed, astray>>,
         batch' \in [ShowtimeBatches -> BatchTasks],
         \A b \in ShowtimeBatches : /\ batch'[b].step = batch[b].step /\ batch'[b].path = batch[b].path
                                    /\ batch'[b].rows = batch[b].rows /\ batch'[b].tally = batch[b].tally
  PROVE  ShowtimesBody'
<1>1. ShowtimesTyped'
  BY DEF ShowtimesBody, ShowtimesTyped
<1>2. PhaseInv' /\ \A b \in ShowtimeBatches : PathOK(b)'
  BY DEF ShowtimesBody, PhaseInv, ReportStep, PathOK
<1>3. \A b \in ShowtimeBatches : (AfterCount(b)' <=> AfterCount(b)) /\ (AfterStore(b)' <=> AfterStore(b))
  BY DEF AfterCount, AfterStore
<1>4. \A r, m : Tells(r, m)' <=> Tells(r, m)
  BY <1>3 DEF Tells, MissingTold
<1>5. \A marks : Told(marks)' = Told(marks)
  BY <1>4 DEF Told
<1>6. (CountersRight => CountersRight') /\ (StoredRight => StoredRight') /\ (WrittenRight => WrittenRight')
  BY <1>3, <1>5 DEF CountersRight, StoredRight, WrittenRight, Kept
<1>7. Sound' => Sound
  BY DEF Sound, Broken
<1>8. \A b \in ShowtimeBatches : Fits(b, batch[b]) => Fits(b, batch'[b])
  BY DEF Fits
<1>9. TalliesFit'
  BY <1>8 DEF ShowtimesBody, TalliesFit, Fits
<1> QED BY <1>1, <1>2, <1>6, <1>7, <1>9 DEF ShowtimesBody

\* A step of a batch that is under way.
LEMMA BatchMoves ==
  ASSUME ShowtimesBody, NEW b \in ShowtimeBatches, batch[b].step \notin {"waiting", "done"},
         batch' \in [ShowtimeBatches -> BatchTasks], OnlyBatch(b), batch'[b].rows \in [ShowingsOf[b] -> Marks],
         PathOK(b)', job' \in ShowtimeJobs, job'.status = job.status, UNCHANGED <<final, output>>,
         Sound' => Sound, Sound' => CountersRight',
         skewed' = {} /\ astray' = {} => skewed = {} /\ astray = {} /\ Fits(b, batch'[b]),
         \A r \in Showings : r \notin ShowingsOf[b] => result'[r] = result[r],
         Sound' /\ Kept /\ AfterStore(b)' => \A r \in ShowingsOf[b] : result'[r] = batch'[b].rows[r]
  PROVE  ShowtimesBody'
<1>1. ShowtimesTyped'
  <2>1. ASSUME NEW c \in ShowtimeBatches
        PROVE  batch'[c].rows \in [ShowingsOf[c] -> Marks]
    BY DEF ShowtimesBody, ShowtimesTyped, OnlyBatch
  <2>2. final' \in Finals
    BY DEF ShowtimesBody, ShowtimesTyped
  <2> QED BY <2>1, <2>2 DEF ShowtimesTyped
<1>2. ~ReportStep /\ final \notin {"dispatch", "missing", "store missing", "publish"}
  BY DEF ShowtimesBody, PhaseInv
<1>3. PhaseInv'
  <2>1. ~ReportStep'
    BY <1>2 DEF ReportStep
  <2> QED BY <1>2, <2>1 DEF ShowtimesBody, PhaseInv
<1>4. ASSUME NEW c \in ShowtimeBatches
      PROVE  PathOK(c)'
  BY DEF ShowtimesBody, PathOK, OnlyBatch
<1>5. WrittenRight'
  BY <1>2 DEF WrittenRight, ReportStep
<1>6. ASSUME Sound'
      PROVE  StoredRight'
  <2>1. StoredRight
    BY <1>6 DEF ShowtimesBody
  <2>2. SUFFICES ASSUME Kept
                 PROVE  /\ final \in {"publish", "chord", "write"} =>
                             \A r \in Showtimes!Missing : result'[r] = Showtimes!Unsure
                        /\ \A c \in ShowtimeBatches :
                             AfterStore(c)' => \A r \in ShowingsOf[c] : result'[r] = batch'[c].rows[r]
    BY DEF StoredRight, Kept
  <2>3. \A r \in Showtimes!Missing : result'[r] = result[r]
    BY ShowtimesConstants
  <2>4. ASSUME NEW c \in ShowtimeBatches, AfterStore(c)', NEW r \in ShowingsOf[c]
        PROVE  result'[r] = batch'[c].rows[r]
    <3>1. CASE c = b
      BY <1>6, <2>2, <2>4, <3>1
    <3>2. CASE c # b
      <4>1. batch'[c] = batch[c] /\ r \notin ShowingsOf[b] /\ r \in Showings
        BY <2>4, <3>2, ShowtimesConstants DEF OnlyBatch
      <4>2. AfterStore(c)
        BY <2>4, <4>1 DEF AfterStore, AfterCount
      <4>3. result[r] = batch[c].rows[r]
        BY <2>1, <2>2, <2>4, <4>2 DEF StoredRight
      <4> QED BY <4>1, <4>3
    <3> QED BY <3>1, <3>2
  <2> QED BY <2>1, <2>2, <2>3, <2>4 DEF StoredRight
<1>7. TalliesFit'
  <2>1. ASSUME skewed' = {}, astray' = {}, NEW c \in ShowtimeBatches
        PROVE  Fits(c, batch'[c])
    <3>1. CASE c = b
      BY <2>1, <3>1
    <3>2. CASE c # b
      <4>1. batch'[c] = batch[c] /\ Fits(c, batch[c])
        BY <2>1, <3>2 DEF ShowtimesBody, TalliesFit, OnlyBatch
      <4> QED BY <4>1
    <3> QED BY <3>1, <3>2
  <2> QED BY <2>1 DEF TalliesFit, Fits
<1> QED BY <1>1, <1>3, <1>4, <1>5, <1>6, <1>7 DEF ShowtimesBody

\* A tally fits the rows as long as neither changes.
LEMMA FitsKept ==
  ASSUME ShowtimesBody, skewed = {}, astray = {}, NEW b \in ShowtimeBatches, NEW new, new.tally = batch[b].tally,
         \A r \in ShowingsOf[b] : new.rows[r].site = batch[b].rows[r].site
  PROVE  Fits(b, new)
<1>1. Fits(b, batch[b])
  BY DEF ShowtimesBody, TalliesFit
<1>2. \A v : {r \in ShowingsOf[b] : new.rows[r].site = v} = {r \in ShowingsOf[b] : batch[b].rows[r].site = v}
  OBVIOUS
<1> QED BY <1>1, <1>2 DEF Fits

\* The counters of a step that tells the job nothing new.
LEMMA CountersRest ==
  ASSUME CountersRight, NEW b \in ShowtimeBatches, OnlyBatch(b), UNCHANGED final, astray' = {} => astray = {},
         job'.processed = job.processed, job'.count = job.count, job'.site = job.site,
         AfterCount(b)' <=> AfterCount(b), AfterCount(b) => batch'[b].rows = batch[b].rows
  PROVE  CountersRight'
<1>1. ASSUME NEW c \in ShowtimeBatches
      PROVE  (AfterCount(c)' <=> AfterCount(c)) /\ (AfterCount(c) => batch'[c].rows = batch[c].rows)
  BY DEF OnlyBatch, AfterCount
<1>2. \A r, m : Tells(r, m)' <=> Tells(r, m)
  BY <1>1 DEF Tells, MissingTold
<1>3. \A marks : Told(marks)' = Told(marks)
  BY <1>2 DEF Told
<1> QED BY <1>3 DEF CountersRight

\* A step that tells the counters nothing new.
LEMMA PlainMoves ==
  ASSUME ShowtimesBody, NEW b \in ShowtimeBatches, batch[b].step \notin {"waiting", "done"},
         NEW new \in BatchTasks, batch' = [batch EXCEPT ![b] = new], new.rows \in [ShowingsOf[b] -> Marks],
         new.step \in {"acquire", "search", "decide", "site"} => new.path = "normal",
         new.step \in NotChecked => new.tally = Showtimes!NoTally,
         new.step \in {"record", "judge"} => new.path \in {"normal", "rescue"},
         new.step = "abort" => new.path # "skipped",
         job' \in ShowtimeJobs, job'.status = job.status,
         job'.processed = job.processed, job'.count = job.count, job'.site = job.site,
         UNCHANGED <<final, output>>, skewed' = {} => skewed = {}, astray' = {} => astray = {},
         skewed' = {} /\ astray' = {} => Fits(b, new),
         Broken(b) => new.step \in {"killed", "raised", "failing"},
         \A r \in Showings : r \notin ShowingsOf[b] => result'[r] = result[r],
         Sound' => (AfterCount(b)' <=> AfterCount(b)) /\ (AfterCount(b) => new.rows = batch[b].rows),
         Sound' /\ Kept /\ AfterStore(b)' => \A r \in ShowingsOf[b] : result'[r] = new.rows[r]
  PROVE  ShowtimesBody'
<1>1. batch' \in [ShowtimeBatches -> BatchTasks] /\ OnlyBatch(b) /\ batch'[b] = new
  BY BatchSet DEF ShowtimesBody
<1>2. PathOK(b)'
  BY <1>1 DEF PathOK
<1>3. Sound' => Sound
  BY <1>1 DEF Sound, Broken, OnlyBatch
<1>4. Sound' => CountersRight'
  BY <1>1, <1>3, CountersRest DEF ShowtimesBody
<1> QED BY <1>1, <1>2, <1>3, <1>4, BatchMoves

\* What the batch has stored is still there.
LEMMA StoredStays ==
  ASSUME ShowtimesBody, NEW b \in ShowtimeBatches, Sound, Kept, AfterStore(b), result' = result
  PROVE  \A r \in ShowingsOf[b] : result'[r] = batch[b].rows[r]
BY DEF ShowtimesBody, StoredRight

LEMMA TaskOf ==
  ASSUME ShowtimesBody, NEW b \in ShowtimeBatches
  PROVE  /\ batch[b] \in BatchTasks /\ batch[b].rows \in [ShowingsOf[b] -> Marks] /\ PathOK(b)
         /\ job \in ShowtimeJobs /\ batch \in [ShowtimeBatches -> BatchTasks]
<1> QED BY DEF ShowtimesBody, ShowtimesTyped

\* A batch marks its rows undetermined: they keep what a site said of them.
LEMMA UndeterminedIs ==
  ASSUME ShowtimesBody, NEW b \in ShowtimeBatches
  PROVE  /\ Showtimes!Undetermined(b) \in [ShowingsOf[b] -> Marks]
         /\ \A r \in ShowingsOf[b] : Showtimes!Undetermined(b)[r].site = batch[b].rows[r].site
<1>1. ASSUME NEW r \in ShowingsOf[b]
      PROVE  [batch[b].rows[r] EXCEPT !.verdict = "U"] \in Marks
             /\ [batch[b].rows[r] EXCEPT !.verdict = "U"].site = batch[b].rows[r].site
  <2>1. batch[b].rows[r] \in Marks
    BY TaskOf
  <2> QED BY <2>1 DEF Marks, Showtimes!Verdicts
<1> QED BY <1>1 DEF Showtimes!Undetermined

\* A batch goes to another step, its path and rows as they were.
LEMMA GoMoves ==
  ASSUME ShowtimesBody, NEW b \in ShowtimeBatches, batch[b].step \notin {"waiting", "done"},
         NEW step \in BatchSteps, Showtimes!Go(b, step), UNCHANGED <<result, final, output, skewed, astray>>,
         step \notin NotChecked \cup {"record", "judge"},
         step = "abort" => batch[b].path # "skipped",
         job' \in ShowtimeJobs, job'.status = job.status,
         job'.processed = job.processed, job'.count = job.count, job'.site = job.site,
         Broken(b) => step \in {"killed", "raised", "failing"},
         step \in {"killed", "raised", "failing"} \/ (AfterCount(b) /\ step \in {"release", "done"})
           \/ (AfterCount(b) /\ step = "abort" /\ batch[b].path # "exhausted")
  PROVE  ShowtimesBody'
<1>1. PICK old \in BatchTasks : old = batch[b] /\ old.rows \in [ShowingsOf[b] -> Marks]
  BY TaskOf
<1>2. PICK new : new = [old EXCEPT !.step = step]
  OBVIOUS
<1>3. new \in BatchTasks /\ new.step = step /\ new.path = old.path /\ new.rows = old.rows /\ new.tally = old.tally
  BY <1>1, <1>2 DEF BatchTasks
<1>4. batch' = [batch EXCEPT ![b] = new]
  BY <1>1, <1>2, TaskOf DEF Showtimes!Go
<1>5. batch'[b] = new /\ OnlyBatch(b)
  BY <1>3, <1>4, BatchSet DEF ShowtimesBody
<1>6. step \in {"killed", "raised", "failing"} => ~Sound'
  BY <1>3, <1>5 DEF Sound, Broken
<1>7. Sound' => AfterCount(b) /\ AfterCount(b)' /\ AfterStore(b)
  BY <1>1, <1>3, <1>5, <1>6 DEF AfterCount, AfterStore
<1>8. Sound' => Sound
  BY <1>3, <1>5 DEF Sound, Broken, OnlyBatch
<1>9. Sound' /\ Kept => \A r \in ShowingsOf[b] : result'[r] = new.rows[r]
  BY <1>1, <1>3, <1>7, <1>8, StoredStays
<1>10. skewed = {} /\ astray = {} => Fits(b, new)
  BY <1>1, <1>3, FitsKept
<1>11. step \notin {"acquire", "search", "decide", "site", "record", "judge"}
  BY DEF NotChecked
<1> QED BY <1>1, <1>3, <1>4, <1>7, <1>9, <1>10, <1>11, PlainMoves

LEMMA EndOfBatch ==
  ASSUME ShowtimesBody, NEW b \in ShowtimeBatches,
         \/ Showtimes!Judge(b) \/ Showtimes!Release(b) \/ Showtimes!Killed(b)
         \/ (Showtimes!MarkAborted(b) /\ batch[b].path # "exhausted")
  PROVE  ShowtimesBody'
<1>1. PathOK(b) /\ job \in ShowtimeJobs
  BY TaskOf
<1>2. CASE Showtimes!Judge(b)
  <2>1. PICK step \in {"abort", "release"} : Showtimes!Go(b, step)
    BY <1>2 DEF Showtimes!Judge
  <2>2. batch[b].step = "judge" /\ UNCHANGED <<job, result, final, output, skewed, astray>>
    BY <1>2 DEF Showtimes!Judge
  <2>3. AfterCount(b) /\ ~Broken(b) /\ batch[b].path \in {"normal", "rescue"} /\ step \in BatchSteps
        /\ step \notin NotChecked
    BY <1>1, <2>1, <2>2 DEF AfterCount, Broken, PathOK, BatchSteps, Showtimes!Fallible, NotChecked
  <2> QED BY <1>1, <2>1, <2>2, <2>3, GoMoves
<1>3. CASE Showtimes!Release(b)
  <2>1. batch[b].step \in {"release", "failing"} /\ UNCHANGED <<job, result, final, output, skewed, astray>>
    BY <1>3 DEF Showtimes!Release
  <2>2. PICK old \in BatchTasks : old = batch[b] /\ old.rows \in [ShowingsOf[b] -> Marks]
    BY TaskOf
  <2>3. PICK step \in {"raised", "done"} : step = IF old.step = "failing" THEN "raised" ELSE "done"
    OBVIOUS
  <2>4. PICK new : new = [old EXCEPT !.step = step, !.holder = "none"]
    OBVIOUS
  <2>5. new \in BatchTasks /\ new.step = step /\ new.path = old.path /\ new.rows = old.rows
        /\ new.tally = old.tally /\ new.step \notin NotChecked
    BY <2>2, <2>3, <2>4 DEF BatchTasks, BatchSteps, NotChecked
  <2>6. batch' = [batch EXCEPT ![b] = new]
    BY <1>3, <2>2, <2>3, <2>4, TaskOf DEF Showtimes!Release
  <2>7. batch'[b] = new /\ OnlyBatch(b)
    BY <2>5, <2>6, BatchSet DEF ShowtimesBody
  <2>8. (step = "raised" => ~Sound') /\ (Sound' => Sound)
    BY <2>1, <2>2, <2>3, <2>5, <2>7 DEF Sound, Broken, OnlyBatch
  <2>9. Sound' => AfterCount(b) /\ AfterCount(b)' /\ AfterStore(b)
    BY <2>1, <2>2, <2>3, <2>5, <2>7, <2>8 DEF AfterCount, AfterStore
  <2>10. Sound' /\ Kept => \A r \in ShowingsOf[b] : result'[r] = new.rows[r]
    BY <2>1, <2>2, <2>5, <2>8, <2>9, StoredStays
  <2>11. Broken(b) => step = "raised"
    BY <2>1, <2>2, <2>3 DEF Broken
  <2>12. skewed = {} /\ astray = {} => Fits(b, new)
    BY <2>2, <2>5, FitsKept
  <2> QED BY <1>1, <2>1, <2>2, <2>3, <2>5, <2>6, <2>9, <2>10, <2>11, <2>12, PlainMoves
<1>4. CASE Showtimes!Killed(b)
  <2>1. batch[b].step \notin {"waiting", "done"} /\ UNCHANGED <<job, result, final, output, skewed, astray>>
        /\ Showtimes!Go(b, "killed")
    BY <1>4 DEF Showtimes!Killed, Showtimes!Fallible
  <2>2. "killed" \in BatchSteps /\ "killed" \notin NotChecked
    BY DEF BatchSteps, NotChecked
  <2> QED BY <1>1, <2>1, <2>2, GoMoves
<1>5. CASE Showtimes!MarkAborted(b) /\ batch[b].path # "exhausted"
  <2>1. batch[b].step = "abort" /\ UNCHANGED <<result, final, output, skewed, astray>> /\ Showtimes!Go(b, "release")
        /\ job' = [job EXCEPT !.aborted = TRUE]
    BY <1>5 DEF Showtimes!MarkAborted
  <2>2. /\ job' \in ShowtimeJobs /\ job'.status = job.status
        /\ job'.processed = job.processed /\ job'.count = job.count /\ job'.site = job.site
    BY <1>1, <2>1 DEF ShowtimeJobs
  <2>3. AfterCount(b) /\ ~Broken(b) /\ "release" \in BatchSteps /\ "release" \notin NotChecked
    BY <1>5, <2>1 DEF AfterCount, Broken, BatchSteps, NotChecked
  <2> QED BY <2>1, <2>2, <2>3, GoMoves
<1> QED BY <1>2, <1>3, <1>4, <1>5

\* A step of a batch that is before its count, and stays there.
LEMMA EarlyMoves ==
  ASSUME ShowtimesBody, NEW b \in ShowtimeBatches, batch[b].step \notin {"waiting", "done"}, ~Broken(b),
         ~AfterCount(b), NEW new \in BatchTasks, batch' = [batch EXCEPT ![b] = new],
         new.rows \in [ShowingsOf[b] -> Marks],
         new.step \in {"acquire", "search", "decide", "site"} => new.path = "normal",
         new.step \in NotChecked => new.tally = Showtimes!NoTally,
         new.step \in {"acquire", "search", "decide", "site", "store"} \/ (new.step = "abort" /\ new.path = "exhausted"),
         job' \in ShowtimeJobs, job'.status = job.status,
         job'.processed = job.processed, job'.count = job.count, job'.site = job.site,
         UNCHANGED <<result, final, output, skewed>>, astray' = {} => astray = {},
         skewed = {} /\ astray' = {} => Fits(b, new)
  PROVE  ShowtimesBody'
<1>1. batch'[b] = new
  BY BatchSet DEF ShowtimesBody
<1>2. ~AfterCount(b)' /\ ~AfterStore(b)'
  BY <1>1 DEF AfterCount, AfterStore
<1> QED BY <1>2, PlainMoves

\* The rescue of a batch.
LEMMA RescuedIs ==
  ASSUME ShowtimesBody, NEW b \in ShowtimeBatches
  PROVE  /\ Showtimes!Rescued(b) \in BatchTasks /\ Showtimes!Rescued(b).step = "store"
         /\ Showtimes!Rescued(b).path = "rescue" /\ Showtimes!Rescued(b).rows \in [ShowingsOf[b] -> Marks]
         /\ Showtimes!Rescued(b).tally = Showtimes!NoTally
         /\ \A r \in ShowingsOf[b] : Showtimes!Rescued(b).rows[r].site = batch[b].rows[r].site
<1>1. PICK rows : rows = Showtimes!Undetermined(b)
  OBVIOUS
<1>2. rows \in [ShowingsOf[b] -> Marks] /\ \A r \in ShowingsOf[b] : rows[r].site = batch[b].rows[r].site
  BY <1>1, UndeterminedIs
<1>3. rows \in UNION {[ShowingsOf[c] -> Marks] : c \in ShowtimeBatches}
  BY <1>2
<1>4. PICK tally \in Tallies : tally = Showtimes!NoTally
  BY UnsureIsAMark
<1>5. PICK old \in BatchTasks : old = batch[b]
  BY TaskOf
<1>6. Showtimes!Rescued(b) = [old EXCEPT !.path = "rescue", !.step = "store", !.ok = FALSE, !.rows = rows, !.tally = tally]
  BY <1>1, <1>4, <1>5 DEF Showtimes!Rescued
<1>7. PICK new : new = Showtimes!Rescued(b)
  OBVIOUS
<1>8. new \in BatchTasks /\ new.step = "store" /\ new.path = "rescue" /\ new.rows = rows /\ new.tally = tally
  BY <1>3, <1>4, <1>6, <1>7 DEF BatchTasks, BatchSteps, Paths, Showtimes!Fallible
<1> QED BY <1>2, <1>4, <1>7, <1>8

\* From the queue to the decision.
LEMMA SearchMoves ==
  ASSUME ShowtimesBody, NEW b \in ShowtimeBatches,
         \/ Showtimes!Read(b) \/ Showtimes!Acquire(b) \/ Showtimes!AcquireOpen(b)
         \/ Showtimes!Answer(b) \/ Showtimes!Exhausted(b)
  PROVE  ShowtimesBody'
<1>1. PICK old \in BatchTasks : old = batch[b] /\ old.rows \in [ShowingsOf[b] -> Marks]
  BY TaskOf
<1>2. PathOK(b) /\ job \in ShowtimeJobs /\ batch \in [ShowtimeBatches -> BatchTasks]
  BY TaskOf
<1>7. ASSUME NEW new, new.tally = old.tally, new.rows = old.rows
      PROVE  skewed = {} /\ astray = {} => Fits(b, new)
  BY <1>1, <1>7, FitsKept
<1>8. old.step \in {"queued", "acquire", "search"} => old.tally = Showtimes!NoTally
  BY <1>1, <1>2 DEF PathOK, NotChecked
<1>3. CASE Showtimes!Read(b)
  <2>1. old.step = "queued" /\ UNCHANGED <<job, result, final, output, skewed, astray>>
    BY <1>1, <1>3 DEF Showtimes!Read
  <2>2. PICK step, path : /\ step = IF job.aborted THEN "store" ELSE "acquire"
                          /\ path = IF job.aborted THEN "skipped" ELSE "normal"
    OBVIOUS
  <2>3. PICK new : new = [old EXCEPT !.step = step, !.path = path]
    OBVIOUS
  <2>4. batch' = [batch EXCEPT ![b] = new]
    BY <1>1, <1>2, <1>3, <2>2, <2>3 DEF Showtimes!Read
  <2>5. /\ step \in {"store", "acquire"} /\ path \in {"skipped", "normal"}
        /\ step = "acquire" => path = "normal"
    BY <2>2
  <2>6. new \in BatchTasks /\ new.step = step /\ new.path = path /\ new.rows = old.rows /\ new.tally = old.tally
    BY <2>3, <2>5 DEF BatchTasks, BatchSteps, Paths, Showtimes!Fallible
  <2>7. ~Broken(b) /\ ~AfterCount(b)
    BY <1>1, <2>1 DEF Broken, AfterCount
  <2>8. skewed = {} /\ astray = {} => Fits(b, new)
    BY <1>7, <2>6
  <2>9. new.tally = Showtimes!NoTally
    BY <1>8, <2>1, <2>6
  <2> QED BY <1>1, <1>2, <2>1, <2>4, <2>5, <2>6, <2>7, <2>8, <2>9, EarlyMoves
<1>4. CASE Showtimes!Acquire(b) \/ Showtimes!AcquireOpen(b)
  <2>1. /\ old.step = "acquire" /\ UNCHANGED <<job, result, final, output, skewed, astray>>
        /\ \/ \E holder \in {"held", "open"} :
                batch' = [batch EXCEPT ![b].step = "search", ![b].holder = holder]
           \/ batch' = [batch EXCEPT ![b] = Showtimes!OnError(b)]
    BY <1>1, <1>4 DEF Showtimes!Acquire, Showtimes!AcquireOpen
  <2>2. old.path = "normal" /\ ~Broken(b) /\ ~AfterCount(b)
    BY <1>1, <1>2, <2>1 DEF PathOK, Broken, AfterCount
  <2>3. CASE batch' = [batch EXCEPT ![b] = Showtimes!OnError(b)]
    <3>1. Showtimes!OnError(b) = Showtimes!Rescued(b)
      BY <1>1, <2>2 DEF Showtimes!OnError
    <3>2. PICK new : new = Showtimes!Rescued(b)
      OBVIOUS
    <3>3. /\ new \in BatchTasks /\ new.step = "store" /\ new.path = "rescue" /\ new.rows \in [ShowingsOf[b] -> Marks]
          /\ new.tally = Showtimes!NoTally /\ \A r \in ShowingsOf[b] : new.rows[r].site = batch[b].rows[r].site
      BY <3>2, RescuedIs
    <3>4. batch' = [batch EXCEPT ![b] = new]
      BY <2>3, <3>1, <3>2
    <3>5. skewed = {} /\ astray = {} => Fits(b, new)
      BY <1>1, <1>8, <2>1, <3>3, FitsKept
    <3> QED BY <1>1, <1>2, <2>1, <2>2, <3>3, <3>4, <3>5, EarlyMoves
  <2>4. ASSUME NEW holder \in {"held", "open"}, batch' = [batch EXCEPT ![b].step = "search", ![b].holder = holder]
        PROVE  ShowtimesBody'
    <3>1. PICK new : new = [old EXCEPT !.step = "search", !.holder = holder]
      OBVIOUS
    <3>2. batch' = [batch EXCEPT ![b] = new]
      BY <1>1, <1>2, <2>4, <3>1
    <3>3. /\ new \in BatchTasks /\ new.step = "search" /\ new.path = old.path /\ new.rows = old.rows
          /\ new.tally = old.tally
      BY <3>1 DEF BatchTasks, BatchSteps, Showtimes!Fallible
    <3>4. (skewed = {} /\ astray = {} => Fits(b, new)) /\ new.tally = Showtimes!NoTally
      BY <1>7, <1>8, <2>1, <3>3
    <3> QED BY <1>1, <1>2, <2>1, <2>2, <3>2, <3>3, <3>4, EarlyMoves
  <2> QED BY <2>1, <2>3, <2>4
<1>5. CASE Showtimes!Answer(b)
  <2>1. old.step = "search" /\ UNCHANGED <<job, result, final, output, skewed, astray>>
    BY <1>1, <1>5 DEF Showtimes!Answer, Showtimes!Searching
  <2>2. PICK again \in BOOLEAN, ok \in BOOLEAN :
          batch' = [batch EXCEPT ![b].asked = IF again THEN @ + 1 ELSE @, ![b].ok = ok,
                                 ![b].step = IF again THEN @ ELSE "decide"]
    <3>1. PICK got : \E x \in BOOLEAN :
            batch' = [batch EXCEPT ![b].asked = IF x THEN @ + 1 ELSE @, ![b].ok = (got = "listing"),
                                   ![b].step = IF x THEN @ ELSE "decide"]
      <4>1. PICK got \in {"listing", "retryable", "miss"} :
              LET again == IF batch[b].asked = 0 THEN got = "retryable" /\ Ladder > 0
                           ELSE got # "listing" /\ batch[b].asked < Ladder
              IN batch' = [batch EXCEPT ![b].asked = IF again THEN @ + 1 ELSE @,
                                        ![b].ok = got = "listing",
                                        ![b].step = IF again THEN @ ELSE "decide"]
        BY <1>5 DEF Showtimes!Answer
      <4>2. PICK x \in BOOLEAN : x <=> IF batch[b].asked = 0 THEN got = "retryable" /\ Ladder > 0
                                       ELSE got # "listing" /\ batch[b].asked < Ladder
        OBVIOUS
      <4> QED BY <4>1, <4>2
    <3> QED BY <3>1
  <2>3. PICK asked, step : asked = (IF again THEN old.asked + 1 ELSE old.asked)
                           /\ step = IF again THEN "search" ELSE "decide"
    OBVIOUS
  <2>4. asked \in Int /\ step \in {"search", "decide"}
    BY <2>3 DEF BatchTasks
  <2>5. PICK new : new = [old EXCEPT !.asked = asked, !.ok = ok, !.step = step]
    OBVIOUS
  <2>6. batch' = [batch EXCEPT ![b] = new]
    BY <1>1, <1>2, <2>1, <2>2, <2>3, <2>5
  <2>7. new \in BatchTasks /\ new.step = step /\ new.path = old.path /\ new.rows = old.rows /\ new.tally = old.tally
    BY <2>4, <2>5 DEF BatchTasks, BatchSteps, Showtimes!Fallible
  <2>8. old.path = "normal" /\ ~Broken(b) /\ ~AfterCount(b)
    BY <1>1, <1>2, <2>1 DEF PathOK, Broken, AfterCount
  <2>9. (skewed = {} /\ astray = {} => Fits(b, new)) /\ new.tally = Showtimes!NoTally
    BY <1>7, <1>8, <2>1, <2>7
  <2> QED BY <1>1, <1>2, <2>1, <2>4, <2>6, <2>7, <2>8, <2>9, EarlyMoves
<1>6. CASE Showtimes!Exhausted(b)
  <2>1. old.step = "search" /\ UNCHANGED <<job, result, final, output, skewed, astray>>
        /\ batch' = [batch EXCEPT ![b].step = "abort", ![b].path = "exhausted"]
    BY <1>1, <1>6 DEF Showtimes!Exhausted, Showtimes!Searching
  <2>2. PICK new : new = [old EXCEPT !.step = "abort", !.path = "exhausted"]
    OBVIOUS
  <2>3. batch' = [batch EXCEPT ![b] = new]
    BY <1>1, <1>2, <2>1, <2>2
  <2>4. /\ new \in BatchTasks /\ new.step = "abort" /\ new.path = "exhausted" /\ new.rows = old.rows
        /\ new.tally = old.tally
    BY <2>2 DEF BatchTasks, BatchSteps, Paths, Showtimes!Fallible
  <2>5. ~Broken(b) /\ ~AfterCount(b)
    BY <1>1, <2>1 DEF Broken, AfterCount
  <2>6. (skewed = {} /\ astray = {} => Fits(b, new)) /\ new.tally = Showtimes!NoTally
    BY <1>7, <1>8, <2>1, <2>4
  <2> QED BY <1>1, <1>2, <2>1, <2>3, <2>4, <2>5, <2>6, EarlyMoves
<1> QED BY <1>3, <1>4, <1>5, <1>6

\* decide_rows, and the end of a batch without keys: other verdicts, the site
\* verdicts and their tally as they were.
LEMMA DecideMoves ==
  ASSUME ShowtimesBody, NEW b \in ShowtimeBatches,
         Showtimes!Decide(b) \/ (Showtimes!MarkAborted(b) /\ batch[b].path = "exhausted")
  PROVE  ShowtimesBody'
<1>1. PICK old \in BatchTasks : old = batch[b] /\ old.rows \in [ShowingsOf[b] -> Marks]
  BY TaskOf
<1>2. PathOK(b) /\ job \in ShowtimeJobs /\ batch \in [ShowtimeBatches -> BatchTasks]
  BY TaskOf
<1>3. /\ old.step \in {"decide", "abort"} /\ (old.step = "abort" => old.path = "exhausted")
      /\ UNCHANGED <<result, final, output, skewed, astray>>
      /\ job' = job \/ job' = [job EXCEPT !.aborted = TRUE]
  BY <1>1 DEF Showtimes!Decide, Showtimes!MarkAborted
<1>4. PICK rows \in [ShowingsOf[b] -> Marks], step \in {"site", "store"} :
        /\ batch' = [batch EXCEPT ![b].step = step, ![b].rows = rows]
        /\ \A r \in ShowingsOf[b] : rows[r].site = old.rows[r].site
        /\ step = "site" => old.step = "decide"
  <2>1. CASE Showtimes!Decide(b)
    <3>1. PICK google \in [ShowingsOf[b] -> IF batch[b].ok THEN GoogleSays ELSE {"U"}] :
            batch' = [batch EXCEPT ![b].step = "site",
                        ![b].rows = [r \in ShowingsOf[b] |-> [batch[b].rows[r] EXCEPT !.verdict = google[r]]]]
      BY <2>1 DEF Showtimes!Decide
    <3>2. GoogleSays \subseteq Showtimes!Verdicts /\ "U" \in Showtimes!Verdicts
      BY SideAssumption DEF SideAssumption, Showtimes!JobAssumption, Showtimes!Verdicts
    <3>3. ASSUME NEW r \in ShowingsOf[b]
          PROVE  /\ [batch[b].rows[r] EXCEPT !.verdict = google[r]] \in Marks
                 /\ [batch[b].rows[r] EXCEPT !.verdict = google[r]].site = old.rows[r].site
      <4>1. google[r] \in Showtimes!Verdicts /\ batch[b].rows[r] \in Marks
        BY <1>1, <3>2
      <4> QED BY <1>1, <4>1 DEF Marks
    <3>4. PICK rows : rows = [r \in ShowingsOf[b] |-> [batch[b].rows[r] EXCEPT !.verdict = google[r]]]
      OBVIOUS
    <3>5. rows \in [ShowingsOf[b] -> Marks] /\ \A r \in ShowingsOf[b] : rows[r].site = old.rows[r].site
      BY <3>3, <3>4
    <3>6. batch' = [batch EXCEPT ![b].step = "site", ![b].rows = rows] /\ old.step = "decide"
      BY <1>1, <2>1, <3>1, <3>4 DEF Showtimes!Decide
    <3> QED BY <3>5, <3>6
  <2>2. CASE Showtimes!MarkAborted(b) /\ batch[b].path = "exhausted"
    <3>1. PICK rows : rows = Showtimes!Undetermined(b)
      OBVIOUS
    <3>2. rows \in [ShowingsOf[b] -> Marks] /\ \A r \in ShowingsOf[b] : rows[r].site = old.rows[r].site
      BY <1>1, <3>1, UndeterminedIs
    <3>3. batch' = [batch EXCEPT ![b].step = "store", ![b].rows = rows]
      BY <2>2, <3>1 DEF Showtimes!MarkAborted
    <3> QED BY <3>2, <3>3
  <2> QED BY <2>1, <2>2
<1>5. PICK new : new = [old EXCEPT !.step = step, !.rows = rows]
  OBVIOUS
<1>6. batch' = [batch EXCEPT ![b] = new]
  BY <1>1, <1>2, <1>4, <1>5
<1>7. new \in BatchTasks /\ new.step = step /\ new.path = old.path /\ new.rows = rows /\ new.tally = old.tally
  <2>1. rows \in UNION {[ShowingsOf[c] -> Marks] : c \in ShowtimeBatches}
    OBVIOUS
  <2>2. step \in BatchSteps
    BY DEF BatchSteps, Showtimes!Fallible
  <2> QED BY <1>5, <2>1, <2>2 DEF BatchTasks
<1>8. ~Broken(b) /\ ~AfterCount(b)
  BY <1>1, <1>3 DEF Broken, AfterCount
<1>9. /\ job' \in ShowtimeJobs /\ job'.status = job.status
      /\ job'.processed = job.processed /\ job'.count = job.count /\ job'.site = job.site
  BY <1>2, <1>3 DEF ShowtimeJobs
<1>10. skewed = {} /\ astray = {} => Fits(b, new)
  BY <1>1, <1>4, <1>7, FitsKept
<1>11. step = "site" => new.path = "normal" /\ new.tally = Showtimes!NoTally
  BY <1>1, <1>2, <1>4, <1>7 DEF PathOK, NotChecked
<1>12. step \in {"acquire", "search", "decide", "site"} \/ step \in NotChecked => step = "site"
  BY DEF NotChecked
<1> QED BY <1>1, <1>3, <1>6, <1>7, <1>8, <1>9, <1>10, <1>11, <1>12, EarlyMoves

\* The site check: the tally is that of the rows, unless it breaks.
LEMMA SiteMoves ==
  ASSUME ShowtimesBody, NEW b \in ShowtimeBatches, Showtimes!SiteCheck(b) \/ Showtimes!SiteBreaks(b)
  PROVE  ShowtimesBody'
<1>1. PICK old \in BatchTasks : old = batch[b] /\ old.rows \in [ShowingsOf[b] -> Marks]
  BY TaskOf
<1>2. PathOK(b) /\ job \in ShowtimeJobs /\ batch \in [ShowtimeBatches -> BatchTasks]
  BY TaskOf
<1>3. old.step = "site" /\ UNCHANGED <<job, result, final, output, skewed>>
  BY <1>1 DEF Showtimes!SiteCheck, Showtimes!SiteBreaks
<1>4. PICK rows \in [ShowingsOf[b] -> Marks], tally \in Tallies :
        /\ batch' = [batch EXCEPT ![b].step = "store", ![b].tally = tally, ![b].rows = rows]
        /\ astray' = astray \cup {b} \/ (/\ astray' = astray
             /\ \A v \in {"T", "F"} : tally[v] = Cardinality({r \in ShowingsOf[b] : rows[r].site = v}))
  <2>1. SiteSays \subseteq Showtimes!Verdicts
    BY SideAssumption DEF SideAssumption, Showtimes!JobAssumption, Showtimes!Verdicts
  <2>2. ASSUME NEW r \in ShowingsOf[b]
        PROVE  batch[b].rows[r] \in Marks /\ batch[b].rows[r].verdict \in Showtimes!Verdicts
    <3>1. batch[b].rows[r] \in Marks
      BY <1>1
    <3> QED BY <3>1 DEF Marks
  <2>3. ASSUME NEW site \in [ShowingsOf[b] -> SiteSays], NEW some \in SUBSET ShowingsOf[b]
        PROVE  Showtimes!Tally(site, some) \in Tallies
    <3>1. ASSUME NEW v \in {"T", "F"}
          PROVE  Cardinality({r \in some : site[r] = v}) \in Nat
      <4>1. {r \in some : site[r] = v} \in SUBSET Showings
        BY ShowtimesConstants
      <4> QED BY <4>1, ShowtimesConstants, FS_Subset, FS_CardinalityType
    <3> QED BY <3>1 DEF Showtimes!Tally, Tallies, Cardinality, Showtimes!Cardinality
  <2>4. CASE Showtimes!SiteCheck(b)
    <3>1. PICK site \in [ShowingsOf[b] -> SiteSays] :
            batch' = [batch EXCEPT ![b].step = "store", ![b].tally = Showtimes!Tally(site, ShowingsOf[b]),
                        ![b].rows = [r \in ShowingsOf[b] |->
                          [verdict |-> Showtimes!Overruled(batch[b].rows[r].verdict, site[r]), site |-> site[r]]]]
      BY <2>4 DEF Showtimes!SiteCheck
    <3>2. PICK rows, tally :
            /\ tally = Showtimes!Tally(site, ShowingsOf[b])
            /\ rows = [r \in ShowingsOf[b] |->
                        [verdict |-> Showtimes!Overruled(batch[b].rows[r].verdict, site[r]), site |-> site[r]]]
      OBVIOUS
    <3>3. tally \in Tallies
      BY <2>3, <3>2
    <3>4. ASSUME NEW r \in ShowingsOf[b]
          PROVE  rows[r] \in Marks /\ rows[r].site = site[r]
      <4>1. site[r] \in Showtimes!Verdicts
        BY <2>1
      <4>2. Showtimes!Overruled(batch[b].rows[r].verdict, site[r]) \in Showtimes!Verdicts
        BY <2>2, <4>1 DEF Showtimes!Overruled
      <4> QED BY <3>2, <4>1, <4>2 DEF Marks
    <3>5. rows \in [ShowingsOf[b] -> Marks]
      BY <3>2, <3>4
    <3>6. ASSUME NEW v \in {"T", "F"}
          PROVE  tally[v] = Cardinality({r \in ShowingsOf[b] : rows[r].site = v})
      <4>1. {r \in ShowingsOf[b] : rows[r].site = v} = {r \in ShowingsOf[b] : site[r] = v}
        BY <3>4
      <4> QED BY <3>2, <4>1 DEF Showtimes!Tally, Cardinality, Showtimes!Cardinality
    <3>7. astray' = astray
      BY <2>4 DEF Showtimes!SiteCheck
    <3> QED BY <3>1, <3>2, <3>3, <3>5, <3>6, <3>7
  <2>5. CASE Showtimes!SiteBreaks(b)
    <3>1. PICK site \in [ShowingsOf[b] -> SiteSays], some \in SUBSET ShowingsOf[b],
               tallied \in SUBSET ShowingsOf[b] :
            batch' = [batch EXCEPT ![b].step = "store", ![b].tally = Showtimes!Tally(site, tallied),
                        ![b].rows = [r \in ShowingsOf[b] |->
                          [batch[b].rows[r] EXCEPT !.verdict =
                             IF r \in some THEN Showtimes!Overruled(@, site[r]) ELSE @]]]
      <4>1. PICK site \in [ShowingsOf[b] -> SiteSays], some \in SUBSET ShowingsOf[b] :
              \E tallied \in {some} \cup {some \ {r} : r \in some} :
                batch' = [batch EXCEPT ![b].step = "store", ![b].tally = Showtimes!Tally(site, tallied),
                            ![b].rows = [r \in ShowingsOf[b] |->
                              [batch[b].rows[r] EXCEPT !.verdict =
                                 IF r \in some THEN Showtimes!Overruled(@, site[r]) ELSE @]]]
        BY <2>5 DEF Showtimes!SiteBreaks
      <4>2. {some} \cup {some \ {r} : r \in some} \subseteq SUBSET ShowingsOf[b]
        OBVIOUS
      <4> QED BY <4>1, <4>2
    <3>2. PICK rows, tally :
            /\ tally = Showtimes!Tally(site, tallied)
            /\ rows = [r \in ShowingsOf[b] |->
                        [batch[b].rows[r] EXCEPT !.verdict =
                           IF r \in some THEN Showtimes!Overruled(@, site[r]) ELSE @]]
      OBVIOUS
    <3>3. tally \in Tallies
      BY <2>3, <3>2
    <3>4. ASSUME NEW r \in ShowingsOf[b]
          PROVE  rows[r] \in Marks
      <4>1. PICK mark \in Marks : mark = batch[b].rows[r]
        BY <2>2
      <4>2. PICK verdict :
              verdict = IF r \in some THEN Showtimes!Overruled(mark.verdict, site[r]) ELSE mark.verdict
        OBVIOUS
      <4>3. verdict \in Showtimes!Verdicts
        BY <2>1, <2>2, <4>1, <4>2 DEF Showtimes!Overruled
      <4>4. rows[r] = [mark EXCEPT !.verdict = verdict]
        BY <3>2, <4>1, <4>2
      <4> QED BY <4>3, <4>4 DEF Marks
    <3>5. rows \in [ShowingsOf[b] -> Marks]
      BY <3>2, <3>4
    <3>6. astray' = astray \cup {b}
      BY <2>5 DEF Showtimes!SiteBreaks
    <3> QED BY <3>1, <3>2, <3>3, <3>5, <3>6
  <2> QED BY <2>4, <2>5
<1>5. PICK new : new = [old EXCEPT !.step = "store", !.tally = tally, !.rows = rows]
  OBVIOUS
<1>6. batch' = [batch EXCEPT ![b] = new]
  BY <1>1, <1>2, <1>4, <1>5
<1>7. new \in BatchTasks /\ new.step = "store" /\ new.path = old.path /\ new.rows = rows /\ new.tally = tally
  <2>1. rows \in UNION {[ShowingsOf[c] -> Marks] : c \in ShowtimeBatches}
    OBVIOUS
  <2> QED BY <1>5, <2>1 DEF BatchTasks, BatchSteps, Showtimes!Fallible
<1>8. ~Broken(b) /\ ~AfterCount(b)
  BY <1>1, <1>3 DEF Broken, AfterCount
<1>9. (astray' = {} => astray = {}) /\ (astray' = {} => Fits(b, new))
  BY <1>4, <1>7 DEF Fits
<1>10. "store" \notin NotChecked
  BY DEF NotChecked
<1>11. /\ batch[b].step \notin {"waiting", "done"} /\ new.rows \in [ShowingsOf[b] -> Marks]
       /\ job' \in ShowtimeJobs /\ UNCHANGED <<job, result, final, output, skewed>>
  BY <1>1, <1>2, <1>3, <1>7
<1> QED BY <1>6, <1>7, <1>8, <1>9, <1>10, <1>11, EarlyMoves

LEMMA StoreMoves ==
  ASSUME ShowtimesBody, NEW b \in ShowtimeBatches, Showtimes!Store(b)
  PROVE  ShowtimesBody'
<1>1. PICK old \in BatchTasks : old = batch[b] /\ old.rows \in [ShowingsOf[b] -> Marks]
  BY TaskOf
<1>2. PathOK(b) /\ job \in ShowtimeJobs /\ batch \in [ShowtimeBatches -> BatchTasks]
  BY TaskOf
<1>3. /\ old.step = "store" /\ UNCHANGED <<job, final, output, skewed, astray>>
      /\ result' = [r \in Showings |-> IF r \in ShowingsOf[b] THEN old.rows[r] ELSE result[r]]
      /\ batch' = [batch EXCEPT ![b].step = "count"]
  BY <1>1 DEF Showtimes!Store, Showtimes!Go
<1>4. PICK new : new = [old EXCEPT !.step = "count"]
  OBVIOUS
<1>5. batch' = [batch EXCEPT ![b] = new]
  BY <1>1, <1>2, <1>3, <1>4
<1>6. new \in BatchTasks /\ new.step = "count" /\ new.path = old.path /\ new.rows = old.rows /\ new.tally = old.tally
  BY <1>4 DEF BatchTasks, BatchSteps, Showtimes!Fallible
<1>7. batch'[b] = new
  BY <1>5, <1>6, BatchSet DEF ShowtimesBody
<1>8. ~Broken(b) /\ ~AfterCount(b) /\ ~AfterCount(b)'
  BY <1>1, <1>3, <1>6, <1>7 DEF Broken, AfterCount
<1>9. /\ \A r \in Showings : r \notin ShowingsOf[b] => result'[r] = result[r]
      /\ \A r \in ShowingsOf[b] : result'[r] = new.rows[r]
  BY <1>3, <1>6, ShowtimesConstants
<1>10. (skewed = {} /\ astray = {} => Fits(b, new)) /\ "count" \notin NotChecked
  BY <1>1, <1>6, FitsKept DEF NotChecked
<1>11. /\ batch[b].step \notin {"waiting", "done"} /\ new.rows \in [ShowingsOf[b] -> Marks]
       /\ job' \in ShowtimeJobs /\ UNCHANGED <<job, final, output, skewed, astray>>
       /\ new.step \notin {"acquire", "search", "decide", "site", "record", "judge", "abort"} \cup NotChecked
  BY <1>1, <1>2, <1>3, <1>6, <1>10
<1> QED BY <1>5, <1>6, <1>8, <1>9, <1>10, <1>11, PlainMoves

LEMMA RecordMoves ==
  ASSUME ShowtimesBody, NEW b \in ShowtimeBatches, Showtimes!Record(b)
  PROVE  ShowtimesBody'
<1>1. PICK old \in BatchTasks : old = batch[b] /\ old.rows \in [ShowingsOf[b] -> Marks]
  BY TaskOf
<1>2. PathOK(b) /\ job \in ShowtimeJobs /\ batch \in [ShowtimeBatches -> BatchTasks]
  BY TaskOf
<1>3. PICK step \in {"release", "judge"} :
        /\ old.step = "record" /\ UNCHANGED <<result, final, output, skewed, astray>>
        /\ batch' = [batch EXCEPT ![b].step = step]
  BY <1>1 DEF Showtimes!Record, Showtimes!Go
<1>4. PICK new : new = [old EXCEPT !.step = step]
  OBVIOUS
<1>5. batch' = [batch EXCEPT ![b] = new]
  BY <1>1, <1>2, <1>3, <1>4
<1>6. new \in BatchTasks /\ new.step = step /\ new.path = old.path /\ new.rows = old.rows /\ new.tally = old.tally
  BY <1>3, <1>4 DEF BatchTasks, BatchSteps, Showtimes!Fallible
<1>7. batch'[b] = new /\ OnlyBatch(b)
  BY <1>5, <1>6, BatchSet DEF ShowtimesBody
<1>8. ~Broken(b) /\ AfterCount(b) /\ AfterCount(b)' /\ AfterStore(b) /\ old.path \in {"normal", "rescue"}
  BY <1>1, <1>2, <1>3, <1>6, <1>7 DEF Broken, AfterCount, AfterStore, PathOK
<1>9. /\ job' \in ShowtimeJobs /\ job'.status = job.status
      /\ job'.processed = job.processed /\ job'.count = job.count /\ job'.site = job.site
  <2>1. PICK n : n = (IF batch[b].ok THEN 0 ELSE IF job.failures < AbortAfter THEN job.failures + 1 ELSE job.failures)
    OBVIOUS
  <2>2. n \in Int
    BY <1>2, <2>1 DEF ShowtimeJobs
  <2>3. job' = [job EXCEPT !.failures = n]
    BY <1>2, <2>1 DEF Showtimes!Record, ShowtimeJobs
  <2> QED BY <1>2, <2>2, <2>3 DEF ShowtimeJobs
<1>10. Sound' => Sound
  BY <1>3, <1>7, <1>8, <1>9 DEF Sound, OnlyBatch, Broken
<1>11. Sound' /\ Kept => \A r \in ShowingsOf[b] : result'[r] = new.rows[r]
  BY <1>1, <1>3, <1>6, <1>8, <1>10, StoredStays
<1>12. (skewed = {} /\ astray = {} => Fits(b, new)) /\ step \notin NotChecked
  BY <1>1, <1>6, FitsKept DEF NotChecked
<1> QED BY <1>1, <1>3, <1>5, <1>6, <1>8, <1>9, <1>11, <1>12, PlainMoves

\* An error in a batch: rescued, let go, or the end of the chord.
LEMMA FailsMoves ==
  ASSUME ShowtimesBody, NEW b \in ShowtimeBatches, Showtimes!Fails(b)
  PROVE  ShowtimesBody'
<1>1. PICK old \in BatchTasks : old = batch[b] /\ old.rows \in [ShowingsOf[b] -> Marks]
  BY TaskOf
<1>2. PathOK(b) /\ job \in ShowtimeJobs /\ batch \in [ShowtimeBatches -> BatchTasks]
  BY TaskOf
<1>3. /\ old.step \in Showtimes!Fallible /\ UNCHANGED <<job, final, output>>
      /\ batch' = [batch EXCEPT ![b] = Showtimes!OnError(b)]
      /\ skewed' = IF Showtimes!Skews(b) THEN skewed \cup {b} ELSE skewed
      /\ astray' = IF old.tally = Showtimes!NoTally THEN astray ELSE astray \cup {b}
      /\ \E some \in IF old.step = "store" THEN SUBSET ShowingsOf[b] ELSE {{}} :
           result' = [r \in Showings |-> IF r \in some THEN old.rows[r] ELSE result[r]]
  BY <1>1 DEF Showtimes!Fails
<1>4. PICK some \in SUBSET ShowingsOf[b] :
        /\ result' = [r \in Showings |-> IF r \in some THEN old.rows[r] ELSE result[r]]
        /\ old.step # "store" => some = {}
  BY <1>3
<1>5. \A r \in Showings : r \notin ShowingsOf[b] => result'[r] = result[r]
  BY <1>4
<1>6. ~Broken(b) /\ batch[b].step \notin {"waiting", "done"}
  BY <1>1, <1>3 DEF Broken, Showtimes!Fallible
<1>7. /\ skewed' = {} => skewed = {} /\ ~Showtimes!Skews(b)
      /\ astray' = {} => astray = {} /\ old.tally = Showtimes!NoTally
  BY <1>3
<1>11. ASSUME NEW new, new.tally \in {old.tally, Showtimes!NoTally},
              \A r \in ShowingsOf[b] : new.rows[r].site = old.rows[r].site
       PROVE  skewed' = {} /\ astray' = {} => Fits(b, new)
  BY <1>1, <1>7, <1>11, FitsKept
<1>12. {"release", "failing", "store"} \cap NotChecked = {}
  BY DEF NotChecked
<1>8. CASE old.path = "rescue"
  <2>1. PICK new : new = [old EXCEPT !.step = "release"]
    OBVIOUS
  <2>2. batch' = [batch EXCEPT ![b] = new]
    BY <1>1, <1>3, <1>8, <2>1 DEF Showtimes!OnError
  <2>3. new \in BatchTasks /\ new.step = "release" /\ new.path = "rescue" /\ new.rows = old.rows /\ new.tally = old.tally
    BY <1>8, <2>1 DEF BatchTasks, BatchSteps
  <2>4. batch'[b] = new /\ OnlyBatch(b)
    BY <2>2, <2>3, BatchSet DEF ShowtimesBody
  <2>5. skewed' = {} => old.step \in {"record", "judge", "abort"}
    BY <1>1, <1>2, <1>3, <1>7, <1>8 DEF Showtimes!Skews, PathOK, Showtimes!Fallible
  <2>6. Sound' => Sound /\ AfterCount(b) /\ AfterStore(b) /\ AfterCount(b)' /\ some = {}
    BY <1>1, <1>3, <1>4, <1>6, <1>7, <1>8, <2>3, <2>4, <2>5 DEF Sound, AfterCount, AfterStore, OnlyBatch, Broken
  <2>7. ASSUME Sound', Kept
        PROVE  \A r \in ShowingsOf[b] : result'[r] = new.rows[r]
    <3>1. \A r \in ShowingsOf[b] : result[r] = batch[b].rows[r]
      BY <2>6, <2>7 DEF ShowtimesBody, StoredRight
    <3>2. \A r \in ShowingsOf[b] : result'[r] = result[r]
      BY <1>4, <2>6, <2>7, ShowtimesConstants
    <3> QED BY <1>1, <2>3, <3>1, <3>2
  <2>8. (skewed' = {} /\ astray' = {} => Fits(b, new)) /\ new.step \notin NotChecked
    BY <1>11, <1>12, <2>3
  <2> QED BY <1>1, <1>2, <1>3, <1>5, <1>6, <1>7, <2>2, <2>3, <2>6, <2>7, <2>8, PlainMoves
<1>9. CASE old.path = "exhausted"
  <2>1. PICK new : new = [old EXCEPT !.step = "failing"]
    OBVIOUS
  <2>2. batch' = [batch EXCEPT ![b] = new]
    BY <1>1, <1>3, <1>9, <2>1 DEF Showtimes!OnError
  <2>3. new \in BatchTasks /\ new.step = "failing" /\ new.path = "exhausted" /\ new.rows = old.rows /\ new.tally = old.tally
    BY <1>9, <2>1 DEF BatchTasks, BatchSteps
  <2>4. batch'[b] = new
    BY <2>2, <2>3, BatchSet DEF ShowtimesBody
  <2>5. ~Sound'
    BY <2>3, <2>4 DEF Sound, Broken
  <2>6. (skewed' = {} /\ astray' = {} => Fits(b, new)) /\ new.step \notin NotChecked
    BY <1>11, <1>12, <2>3
  <2> QED BY <1>1, <1>2, <1>3, <1>5, <1>6, <1>7, <2>2, <2>3, <2>5, <2>6, PlainMoves
<1>10. CASE old.path \notin {"rescue", "exhausted"}
  <2>1. Showtimes!OnError(b) = Showtimes!Rescued(b)
    BY <1>1, <1>10 DEF Showtimes!OnError
  <2>2. PICK new : new = Showtimes!Rescued(b)
    OBVIOUS
  <2>3. /\ new \in BatchTasks /\ new.step = "store" /\ new.path = "rescue" /\ new.rows \in [ShowingsOf[b] -> Marks]
        /\ new.tally = Showtimes!NoTally /\ \A r \in ShowingsOf[b] : new.rows[r].site = batch[b].rows[r].site
    BY <2>2, RescuedIs
  <2>4. batch' = [batch EXCEPT ![b] = new]
    BY <1>3, <2>1, <2>2
  <2>5. batch'[b] = new
    BY <2>3, <2>4, BatchSet DEF ShowtimesBody
  <2>6. skewed' = {} => old.step \notin {"record", "judge", "abort"}
    BY <1>1, <1>2, <1>7, <1>10 DEF Showtimes!Skews, PathOK, BatchTasks, Paths
  <2>7. Sound' => ~AfterCount(b)
    BY <1>1, <1>3, <2>6 DEF Sound, AfterCount, Showtimes!Fallible
  <2>8. ~AfterCount(b)' /\ ~AfterStore(b)'
    BY <2>3, <2>5 DEF AfterCount, AfterStore
  <2>9. (skewed' = {} /\ astray' = {} => Fits(b, new)) /\ new.step \notin NotChecked
    BY <1>1, <1>11, <1>12, <2>3
  <2> QED BY <1>1, <1>2, <1>3, <1>5, <1>6, <1>7, <2>3, <2>4, <2>7, <2>8, <2>9, PlainMoves
<1> QED BY <1>8, <1>9, <1>10

-----------------------------------------------------------------------------
(* The counts.                                                             *)

LEMMA Disjoint ==
  ASSUME NEW A \in SUBSET Showings, NEW B \in SUBSET Showings, A \cap B = {}
  PROVE  /\ Cardinality(A) \in Nat /\ Cardinality(B) \in Nat
         /\ Cardinality(A \cup B) = Cardinality(A) + Cardinality(B)
<1>1. IsFiniteSet(A) /\ IsFiniteSet(B)
  BY ShowtimesConstants, FS_Subset
<1>2. Cardinality(A \cap B) = 0
  BY FS_EmptySet
<1>3. Cardinality(A) \in Nat /\ Cardinality(B) \in Nat
  BY <1>1, FS_CardinalityType
<1>4. Cardinality(A \cup B) = Cardinality(A) + Cardinality(B) - Cardinality(A \cap B)
  BY <1>1, FS_Union
<1> QED BY <1>2, <1>3, <1>4

Gains(b, marks) == {r \in ShowingsOf[b] : batch[b].rows[r] \in marks}

\* A batch is counted, for the first time.
LEMMA BatchTold ==
  ASSUME NEW b \in ShowtimeBatches, ~AfterCount(b), AfterCount(b)', OnlyBatch(b), final' = final,
         batch'[b].rows = batch[b].rows, NEW marks
  PROVE  /\ Cardinality(Told(marks)) \in Nat /\ Cardinality(Gains(b, marks)) \in Nat
         /\ Cardinality(Told(marks)') = Cardinality(Told(marks)) + Cardinality(Gains(b, marks))
<1>1. \A c \in ShowtimeBatches : c # b => (AfterCount(c)' <=> AfterCount(c)) /\ batch'[c] = batch[c]
  BY DEF OnlyBatch, AfterCount
<1>2. \A r, m : Tells(r, m)' <=> Tells(r, m) \/ (r \in ShowingsOf[b] /\ m = batch[b].rows[r])
  BY <1>1 DEF Tells, MissingTold
<1>3. \A r \in ShowingsOf[b] : \A m : ~Tells(r, m)
  <2> SUFFICES ASSUME NEW r \in ShowingsOf[b], NEW m, Tells(r, m)
               PROVE  FALSE
    OBVIOUS
  <2>1. r \notin Showtimes!Missing
    BY ShowtimesConstants
  <2>2. PICK c \in ShowtimeBatches : r \in ShowingsOf[c] /\ AfterCount(c)
    BY <2>1 DEF Tells
  <2>3. c # b /\ r \in ShowingsOf[c] \cap ShowingsOf[b]
    BY <2>2
  <2> QED BY <2>3, ShowtimesConstants
<1>4. Told(marks)' = Told(marks) \cup Gains(b, marks)
  <2>1. \A r : r \in Told(marks)' <=> r \in Showings /\ \E m \in marks : Tells(r, m)'
    BY DEF Told
  <2>2. \A r : r \in Told(marks) <=> r \in Showings /\ \E m \in marks : Tells(r, m)
    BY DEF Told
  <2>3. \A r : r \in Gains(b, marks) <=> r \in ShowingsOf[b] /\ batch[b].rows[r] \in marks
    BY DEF Gains
  <2>4. \A r : r \in ShowingsOf[b] => r \in Showings
    BY ShowtimesConstants
  <2>5. \A r : r \in Told(marks)' <=> r \in Told(marks) \/ r \in Gains(b, marks)
    BY <1>2, <2>1, <2>2, <2>3, <2>4
  <2> QED BY <2>5
<1>5. Told(marks) \in SUBSET Showings /\ Gains(b, marks) \in SUBSET Showings
  BY ShowtimesConstants DEF Told, Gains
<1>6. Told(marks) \cap Gains(b, marks) = {}
  BY <1>3 DEF Told, Gains
<1> QED BY <1>4, <1>5, <1>6, Disjoint

LEMMA BumpMovesShowtimes ==
  ASSUME ShowtimesBody, NEW b \in ShowtimeBatches, Showtimes!Bump(b)
  PROVE  ShowtimesBody'
<1>1. PICK old \in BatchTasks : old = batch[b] /\ old.rows \in [ShowingsOf[b] -> Marks]
  BY TaskOf
<1>2. PathOK(b) /\ job \in ShowtimeJobs /\ batch \in [ShowtimeBatches -> BatchTasks]
  BY TaskOf
<1>3. PICK step \in {"release", "record"} :
        /\ step = IF old.path \in {"skipped", "exhausted"} THEN "release" ELSE "record"
        /\ old.step = "count" /\ UNCHANGED <<result, final, output, skewed, astray>>
        /\ batch' = [batch EXCEPT ![b].step = step]
  BY <1>1 DEF Showtimes!Bump, Showtimes!Go
<1>4. PICK new : new = [old EXCEPT !.step = step]
  OBVIOUS
<1>5. batch' = [batch EXCEPT ![b] = new]
  BY <1>1, <1>2, <1>3, <1>4
<1>6. new \in BatchTasks /\ new.step = step /\ new.path = old.path /\ new.rows = old.rows /\ new.tally = old.tally
  BY <1>3, <1>4 DEF BatchTasks, BatchSteps, Showtimes!Fallible
<1>7. batch'[b] = new /\ OnlyBatch(b) /\ batch' \in [ShowtimeBatches -> BatchTasks]
  BY <1>5, <1>6, BatchSet DEF ShowtimesBody
<1>8. ~Broken(b) /\ ~AfterCount(b) /\ AfterCount(b)' /\ AfterStore(b)
  BY <1>1, <1>3, <1>6, <1>7 DEF Broken, AfterCount, AfterStore
<1>9. PathOK(b)'
  BY <1>3, <1>6, <1>7 DEF PathOK, BatchTasks, Paths, NotChecked
<1>10. PICK processed, count, site :
         /\ processed = job.processed + Showtimes!Cardinality(ShowingsOf[b])
         /\ count = [v \in Showtimes!Verdicts |-> job.count[v] + Showtimes!RowsWith(b, v)]
         /\ site = [v \in {"T", "F"} |-> job.site[v] + old.tally[v]]
  OBVIOUS
<1>11. job' = [job EXCEPT !.processed = processed, !.count = count, !.site = site]
  BY <1>1, <1>2, <1>10 DEF Showtimes!Bump, ShowtimeJobs
<1>12. /\ ShowingsOf[b] = Gains(b, Marks)
       /\ \A v \in Showtimes!Verdicts : Showtimes!RowsWith(b, v) = Cardinality(Gains(b, With(v)))
       /\ skewed = {} /\ astray = {} => \A v \in {"T", "F"} : old.tally[v] = Cardinality(Gains(b, SiteWith(v)))
  <2>1. \A r \in ShowingsOf[b] : batch[b].rows[r] \in Marks
    BY <1>1
  <2>2. ShowingsOf[b] = Gains(b, Marks)
    BY <2>1 DEF Gains
  <2>3. \A v : {r \in ShowingsOf[b] : batch[b].rows[r].verdict = v} = Gains(b, With(v))
    BY <2>1 DEF Gains, With
  <2>4. \A v : {r \in ShowingsOf[b] : batch[b].rows[r].site = v} = Gains(b, SiteWith(v))
    BY <2>1 DEF Gains, SiteWith
  <2>5. \A v : Showtimes!RowsWith(b, v) = Cardinality(Gains(b, With(v)))
    BY <2>3 DEF Showtimes!RowsWith, Showtimes!Cardinality, Cardinality
  <2>6. skewed = {} /\ astray = {} => \A v \in {"T", "F"} : old.tally[v] = Cardinality(Gains(b, SiteWith(v)))
    BY <1>1, <2>4 DEF ShowtimesBody, TalliesFit, Fits
  <2> QED BY <2>2, <2>5, <2>6
<1>13. processed = job.processed + Cardinality(Gains(b, Marks))
  BY <1>10, <1>12 DEF Showtimes!Cardinality, Cardinality
<1>14. ASSUME NEW marks
       PROVE  /\ Cardinality(Told(marks)) \in Nat /\ Cardinality(Gains(b, marks)) \in Nat
              /\ Cardinality(Told(marks)') = Cardinality(Told(marks)) + Cardinality(Gains(b, marks))
  BY <1>1, <1>3, <1>6, <1>7, <1>8, BatchTold
<1>15. /\ job.processed \in Nat /\ job.count \in [Showtimes!Verdicts -> Nat] /\ job.site \in Tallies
       /\ old.tally \in Tallies
  BY <1>1, <1>2 DEF ShowtimeJobs, BatchTasks
<1>16. processed \in Nat /\ count \in [Showtimes!Verdicts -> Nat] /\ site \in Tallies
  <2>1. processed \in Nat
    BY <1>13, <1>14, <1>15
  <2>2. \A v \in Showtimes!Verdicts : job.count[v] + Showtimes!RowsWith(b, v) \in Nat
    BY <1>12, <1>14, <1>15
  <2>3. \A v \in {"T", "F"} : job.site[v] + old.tally[v] \in Nat
    BY <1>15 DEF Tallies
  <2> QED BY <1>10, <2>1, <2>2, <2>3 DEF Tallies
<1>17. /\ job' \in ShowtimeJobs /\ job'.status = job.status
       /\ job'.processed = processed /\ job'.count = count /\ job'.site = site
  BY <1>2, <1>11, <1>16 DEF ShowtimeJobs
<1>18. Sound' => Sound
  BY <1>3, <1>7, <1>8, <1>17 DEF Sound, OnlyBatch, Broken
<1>19. ASSUME Sound'
       PROVE  CountersRight'
  <2>1. CountersRight
    BY <1>18, <1>19 DEF ShowtimesBody
  <2>2. processed = Cardinality(Told(Marks)')
    BY <1>13, <1>14, <2>1 DEF CountersRight
  <2>3. ASSUME NEW v \in Showtimes!Verdicts
        PROVE  count[v] = Cardinality(Told(With(v))')
    <3>1. count[v] = job.count[v] + Cardinality(Gains(b, With(v)))
      BY <1>10, <1>12
    <3>2. job.count[v] = Cardinality(Told(With(v)))
      BY <2>1 DEF CountersRight
    <3> QED BY <1>14, <3>1, <3>2
  <2>4. ASSUME astray = {}, NEW v \in {"T", "F"}
        PROVE  site[v] = Cardinality(Told(SiteWith(v))')
    <3>1. site[v] = job.site[v] + Cardinality(Gains(b, SiteWith(v)))
      BY <1>10, <1>12, <1>18, <1>19, <2>4 DEF Sound
    <3>2. job.site[v] = Cardinality(Told(SiteWith(v)))
      BY <2>1, <2>4 DEF CountersRight
    <3> QED BY <1>14, <3>1, <3>2
  <2> QED BY <1>3, <1>17, <2>2, <2>3, <2>4 DEF CountersRight
<1>20. ASSUME Sound', Kept
       PROVE  \A r \in ShowingsOf[b] : result'[r] = batch'[b].rows[r]
  BY <1>1, <1>3, <1>6, <1>7, <1>8, <1>18, <1>20, StoredStays
<1>21. skewed = {} /\ astray = {} => Fits(b, batch'[b])
  BY <1>1, <1>6, <1>7, FitsKept
<1> QED BY <1>1, <1>3, <1>6, <1>7, <1>9, <1>17, <1>18, <1>19, <1>20, <1>21, BatchMoves

-----------------------------------------------------------------------------
(* dispatch_job and finalize_job.                                          *)

\* The batches stay, or are published.
LEMMA Published ==
  ASSUME ShowtimesTyped, NEW some \in SUBSET ShowtimeBatches,
         \A b \in some : batch[b].step = "waiting",
         batch' = [b \in ShowtimeBatches |-> IF b \in some THEN [batch[b] EXCEPT !.step = "queued"] ELSE batch[b]]
  PROVE  /\ batch' \in [ShowtimeBatches -> BatchTasks]
         /\ \A b \in ShowtimeBatches : batch'[b].rows \in [ShowingsOf[b] -> Marks]
         /\ \A b \in ShowtimeBatches : b \notin some => batch'[b] = batch[b]
         /\ \A b \in some : batch'[b].step = "queued"
         /\ \A b \in ShowtimeBatches : batch'[b].tally = batch[b].tally /\ batch'[b].rows = batch[b].rows
<1>1. \A b \in ShowtimeBatches : batch[b] \in BatchTasks /\ batch[b].rows \in [ShowingsOf[b] -> Marks]
  BY DEF ShowtimesTyped
<1>2. ASSUME NEW b \in ShowtimeBatches
      PROVE  LET new == [batch[b] EXCEPT !.step = "queued"]
             IN new \in BatchTasks /\ new.step = "queued" /\ new.rows = batch[b].rows /\ new.tally = batch[b].tally
  <2>1. PICK old \in BatchTasks : old = batch[b]
    BY <1>1
  <2>2. [old EXCEPT !.step = "queued"] \in BatchTasks /\ [old EXCEPT !.step = "queued"].step = "queued"
        /\ [old EXCEPT !.step = "queued"].rows = old.rows /\ [old EXCEPT !.step = "queued"].tally = old.tally
    BY DEF BatchTasks, BatchSteps
  <2> QED BY <2>1, <2>2
<1>3. ASSUME NEW b \in ShowtimeBatches
      PROVE  /\ batch'[b] \in BatchTasks /\ batch'[b].rows \in [ShowingsOf[b] -> Marks]
             /\ b \notin some => batch'[b] = batch[b]
             /\ b \in some => batch'[b].step = "queued"
             /\ batch'[b].tally = batch[b].tally /\ batch'[b].rows = batch[b].rows
  <2>1. CASE b \in some
    <3>1. batch'[b] = [batch[b] EXCEPT !.step = "queued"]
      BY <2>1
    <3> QED BY <1>1, <1>2, <2>1, <3>1
  <2>2. CASE b \notin some
    BY <1>1, <2>2
  <2> QED BY <2>1, <2>2
<1> QED BY <1>3

\* While the batches wait, or stay as they are, their tallies do.
LEMMA TalliesStay ==
  ASSUME ShowtimesBody, UNCHANGED <<skewed, astray>>,
         \A b \in ShowtimeBatches : batch'[b].tally = batch[b].tally /\ batch'[b].rows = batch[b].rows
  PROVE  TalliesFit'
<1>1. \A b \in ShowtimeBatches : Fits(b, batch[b]) => Fits(b, batch'[b])
  BY DEF Fits
<1> QED BY <1>1 DEF ShowtimesBody, TalliesFit, Fits

\* While the batches wait, nothing but the missing rows is told or stored.
LEMMA WaitingTold ==
  ASSUME \A b \in ShowtimeBatches : batch[b].step \in {"waiting", "queued"}
  PROVE  /\ \A b \in ShowtimeBatches : ~AfterCount(b) /\ ~AfterStore(b) /\ ~Broken(b)
         /\ \A marks : Told(marks) = IF MissingTold /\ Showtimes!Unsure \in marks THEN Showtimes!Missing ELSE {}
<1>1. \A b \in ShowtimeBatches : ~AfterCount(b) /\ ~AfterStore(b) /\ ~Broken(b)
  BY DEF AfterCount, AfterStore, Broken
<1>2. \A r, m : Tells(r, m) <=> r \in Showtimes!Missing /\ MissingTold /\ m = Showtimes!Unsure
  BY <1>1 DEF Tells
<1>3. ASSUME NEW marks
      PROVE  Told(marks) = IF MissingTold /\ Showtimes!Unsure \in marks THEN Showtimes!Missing ELSE {}
  BY <1>2, ShowtimesConstants DEF Told
<1> QED BY <1>1, <1>3

LEMMA DispatchMovesShowtimes ==
  ASSUME ShowtimesBody, Showtimes!Dispatch
  PROVE  ShowtimesBody'
<1>1. /\ ShowtimesTyped /\ job \in ShowtimeJobs /\ job.status # "failed" /\ job.status # "completed"
      /\ final \in {"dispatch", "missing", "store missing", "publish"}
      /\ \A b \in ShowtimeBatches : batch[b].step = "waiting"
  BY DEF ShowtimesBody, ShowtimesTyped, PhaseInv, Showtimes!Dispatch, Showtimes!DispatchMark,
         Showtimes!CountMissing, Showtimes!StoreMissing, Showtimes!Publish
<1>2. /\ \A b \in ShowtimeBatches : ~AfterCount(b) /\ ~AfterStore(b) /\ ~Broken(b)
      /\ \A marks : Told(marks) = IF MissingTold /\ Showtimes!Unsure \in marks THEN Showtimes!Missing ELSE {}
  BY <1>1, WaitingTold
<1>11. \A b \in ShowtimeBatches : PathOK(b) /\ batch[b].tally = Showtimes!NoTally
  BY <1>1 DEF ShowtimesBody, PathOK, NotChecked
<1>3. Sound <=> skewed = {}
  BY <1>1, <1>2 DEF Sound
<1>4. UNCHANGED <<output, skewed, astray>>
  BY DEF Showtimes!Dispatch, Showtimes!DispatchMark, Showtimes!CountMissing, Showtimes!StoreMissing, Showtimes!Publish
<1>5. CASE UNCHANGED batch /\ final' \in {"missing", "store missing", "publish"}
           /\ job' \in ShowtimeJobs /\ job'.status \notin {"completed", "failed"}
           /\ (Sound => CountersRight' /\ StoredRight')
  <2>1. ShowtimesTyped'
    BY <1>1, <1>5 DEF ShowtimesTyped, Finals
  <2>2. PhaseInv' /\ WrittenRight'
    BY <1>1, <1>5 DEF PhaseInv, ReportStep, WrittenRight
  <2>3. \A b \in ShowtimeBatches : PathOK(b)'
    BY <1>5, <1>11 DEF PathOK
  <2>4. Sound' => Sound
    BY <1>3, <1>4 DEF Sound
  <2>5. TalliesFit'
    BY <1>4, <1>5, TalliesStay
  <2> QED BY <1>5, <2>1, <2>2, <2>3, <2>4, <2>5 DEF ShowtimesBody
<1>6. ASSUME UNCHANGED batch
      PROVE  /\ \A b \in ShowtimeBatches : ~AfterStore(b)'
             /\ \A marks : Told(marks)' = IF MissingTold' /\ Showtimes!Unsure \in marks THEN Showtimes!Missing ELSE {}
  <2>1. \A b \in ShowtimeBatches : ~AfterStore(b)' /\ ~AfterCount(b)'
    BY <1>1, <1>6 DEF AfterStore, AfterCount
  <2>2. \A r, m : Tells(r, m)' <=> r \in Showtimes!Missing /\ MissingTold' /\ m = Showtimes!Unsure
    BY <2>1 DEF Tells
  <2>3. ASSUME NEW marks
        PROVE  Told(marks)' = IF MissingTold' /\ Showtimes!Unsure \in marks THEN Showtimes!Missing ELSE {}
    BY <2>2, ShowtimesConstants DEF Told
  <2> QED BY <2>1, <2>3
<1>7. CASE Showtimes!DispatchMark
  <2>1. /\ final = "dispatch" /\ UNCHANGED <<batch, result>> /\ job' = [job EXCEPT !.status = "processing"]
        /\ final' = IF Showtimes!Missing = {} THEN "publish" ELSE "missing"
    BY <1>7 DEF Showtimes!DispatchMark
  <2>2. /\ job' \in ShowtimeJobs /\ job'.status = "processing"
        /\ job'.processed = job.processed /\ job'.count = job.count /\ job'.site = job.site
    BY <1>1, <2>1 DEF ShowtimeJobs
  <2>3. \A marks : Told(marks) = {} /\ Told(marks)' = {}
    BY <1>2, <1>6, <2>1 DEF MissingTold
  <2>4. CountersRight => CountersRight'
    BY <1>4, <2>2, <2>3 DEF CountersRight
  <2>5. StoredRight'
    BY <1>6, <2>1 DEF StoredRight
  <2>6. final' \in {"missing", "publish"}
    BY <2>1
  <2> QED BY <1>5, <2>1, <2>2, <2>4, <2>5, <2>6 DEF ShowtimesBody
<1>8. CASE Showtimes!CountMissing
  <2>1. PICK n : n = Cardinality(Showtimes!Missing)
    OBVIOUS
  <2>2. n \in Nat
    BY <2>1, ShowtimesConstants, FS_Subset, FS_CardinalityType
  <2>3. PICK old \in ShowtimeJobs : old = job
    BY <1>1
  <2>4. /\ final = "missing" /\ final' = "store missing" /\ UNCHANGED <<batch, result>>
        /\ job' = [old EXCEPT !.processed = @ + n, !.count["U"] = @ + n]
    BY <1>8, <2>1, <2>3 DEF Showtimes!CountMissing, Showtimes!Cardinality, Cardinality
  <2>5. PICK processed, count : processed = old.processed + n /\ count = [old.count EXCEPT !["U"] = @ + n]
    OBVIOUS
  <2>6. old.processed \in Nat /\ old.count \in [Showtimes!Verdicts -> Nat] /\ "U" \in Showtimes!Verdicts
    BY <2>3 DEF ShowtimeJobs, Showtimes!Verdicts
  <2>7. /\ processed \in Nat /\ count \in [Showtimes!Verdicts -> Nat] /\ count["U"] = old.count["U"] + n
        /\ \A v \in Showtimes!Verdicts : v # "U" => count[v] = old.count[v]
    BY <2>2, <2>5, <2>6
  <2>8. job' = [old EXCEPT !.processed = processed, !.count = count]
    BY <2>3, <2>4, <2>5 DEF ShowtimeJobs
  <2>9. /\ job' \in ShowtimeJobs /\ job'.processed = processed /\ job'.count = count /\ job'.site = old.site
        /\ job'.status = old.status
    BY <2>3, <2>7, <2>8 DEF ShowtimeJobs
  <2>11. \A marks : Told(marks) = {} /\ Told(marks)' = IF Showtimes!Unsure \in marks THEN Showtimes!Missing ELSE {}
    BY <1>2, <1>6, <2>4 DEF MissingTold
  <2>12. ASSUME CountersRight
         PROVE  CountersRight'
    <3>1. old.processed = 0 /\ \A v \in Showtimes!Verdicts : old.count[v] = 0
      BY <2>3, <2>11, <2>12, FS_EmptySet DEF CountersRight
    <3>2. astray = {} => \A v \in {"T", "F"} : old.site[v] = 0
      BY <2>3, <2>11, <2>12, FS_EmptySet DEF CountersRight
    <3>3. /\ Told(Marks)' = Showtimes!Missing /\ Told(With("U"))' = Showtimes!Missing
          /\ \A v \in Showtimes!Verdicts : v # "U" => Told(With(v))' = {}
          /\ \A v \in {"T", "F"} : Told(SiteWith(v))' = {}
      BY <2>11, UnsureIsAMark DEF With, SiteWith
    <3>4. processed = n /\ count["U"] = n /\ \A v \in Showtimes!Verdicts : v # "U" => count[v] = 0
      BY <2>2, <2>5, <2>6, <2>7, <3>1
    <3> QED BY <1>4, <2>1, <2>9, <3>2, <3>3, <3>4, FS_EmptySet DEF CountersRight
  <2>13. StoredRight'
    BY <1>6, <2>4 DEF StoredRight
  <2>14. job'.status \notin {"completed", "failed"}
    BY <1>1, <2>3, <2>9
  <2> QED BY <1>5, <2>4, <2>9, <2>12, <2>13, <2>14 DEF ShowtimesBody
<1>9. CASE Showtimes!StoreMissing
  <2>1. /\ final = "store missing" /\ final' = "publish" /\ UNCHANGED <<job, batch>>
        /\ result' = [r \in Showings |-> IF r \in Showtimes!Missing THEN Showtimes!Unsure ELSE result[r]]
    BY <1>9 DEF Showtimes!StoreMissing
  <2>2. \A marks : Told(marks)' = Told(marks)
    BY <1>2, <1>6, <2>1 DEF MissingTold
  <2>3. CountersRight => CountersRight'
    BY <1>4, <2>1, <2>2 DEF CountersRight
  <2>4. \A r \in Showtimes!Missing : result'[r] = Showtimes!Unsure
    BY <2>1, ShowtimesConstants
  <2>5. StoredRight'
    BY <1>6, <2>1, <2>4 DEF StoredRight
  <2> QED BY <1>1, <1>5, <2>1, <2>3, <2>5 DEF ShowtimesBody
<1>10. CASE Showtimes!Publish
  <2>1. /\ final = "publish" /\ final' = "chord" /\ UNCHANGED <<job, result>>
        /\ batch' = [b \in ShowtimeBatches |-> [batch[b] EXCEPT !.step = "queued"]]
    BY <1>10 DEF Showtimes!Publish, Showtimes!Batches
  <2>2. batch' = [b \in ShowtimeBatches |-> IF b \in ShowtimeBatches THEN [batch[b] EXCEPT !.step = "queued"] ELSE batch[b]]
    BY <2>1
  <2>3. /\ batch' \in [ShowtimeBatches -> BatchTasks]
        /\ \A b \in ShowtimeBatches : batch'[b].rows \in [ShowingsOf[b] -> Marks]
        /\ \A b \in ShowtimeBatches : batch'[b].step = "queued"
        /\ \A b \in ShowtimeBatches : batch'[b].tally = batch[b].tally /\ batch'[b].rows = batch[b].rows
    BY <1>1, <2>2, Published
  <2>4. ShowtimesTyped'
    BY <1>1, <2>1, <2>3 DEF ShowtimesTyped, Finals
  <2>5. PhaseInv' /\ WrittenRight'
    BY <1>1, <2>1 DEF PhaseInv, ReportStep, WrittenRight
  <2>6. \A b \in ShowtimeBatches : ~AfterCount(b)' /\ ~AfterStore(b)' /\ PathOK(b)'
    BY <1>11, <2>3 DEF AfterCount, AfterStore, PathOK
  <2>7. \A r, m : Tells(r, m)' <=> Tells(r, m)
    BY <1>2, <2>1, <2>6 DEF Tells, MissingTold
  <2>8. \A marks : Told(marks)' = Told(marks)
    BY <2>7 DEF Told
  <2>9. CountersRight => CountersRight'
    BY <1>4, <2>1, <2>8 DEF CountersRight
  <2>10. StoredRight => StoredRight'
    BY <2>1, <2>6 DEF StoredRight, Kept
  <2>11. Sound' => Sound
    BY <1>3, <1>4 DEF Sound
  <2>12. TalliesFit'
    BY <1>4, <2>3, TalliesStay
  <2> QED BY <2>4, <2>5, <2>6, <2>9, <2>10, <2>11, <2>12 DEF ShowtimesBody
<1> QED BY <1>7, <1>8, <1>9, <1>10 DEF Showtimes!Dispatch

LEMMA DispatchFailsMoves ==
  ASSUME ShowtimesBody, Showtimes!DispatchFails
  PROVE  ShowtimesBody'
<1>1. /\ ShowtimesTyped /\ final' = "none" /\ job' = [job EXCEPT !.status = "failed"]
      /\ UNCHANGED <<skewed, astray>> /\ \A b \in ShowtimeBatches : batch[b].step = "waiting"
  BY DEF ShowtimesBody, PhaseInv, Showtimes!DispatchFails
<1>2. PICK some \in SUBSET ShowtimeBatches :
        batch' = [b \in ShowtimeBatches |-> IF b \in some THEN [batch[b] EXCEPT !.step = "queued"] ELSE batch[b]]
  BY DEF Showtimes!DispatchFails, Showtimes!Batches
<1>3. /\ batch' \in [ShowtimeBatches -> BatchTasks]
      /\ \A b \in ShowtimeBatches : batch'[b].rows \in [ShowingsOf[b] -> Marks]
      /\ \A b \in ShowtimeBatches : batch'[b].step \in {"waiting", "queued"}
      /\ \A b \in ShowtimeBatches : batch'[b].tally = batch[b].tally /\ batch'[b].rows = batch[b].rows
  BY <1>1, <1>2, Published
<1>4. job' \in ShowtimeJobs /\ job'.status = "failed"
  BY <1>1 DEF ShowtimesTyped, ShowtimeJobs
<1>5. ShowtimesTyped'
  BY <1>1, <1>3, <1>4 DEF ShowtimesTyped, Finals
<1>6. PhaseInv' /\ ~Sound'
  BY <1>1, <1>4 DEF PhaseInv, ReportStep, Sound
<1>7. \A b \in ShowtimeBatches : batch[b].tally = Showtimes!NoTally
  BY <1>1 DEF ShowtimesBody, PathOK, NotChecked
<1>8. \A b \in ShowtimeBatches : PathOK(b)'
  BY <1>3, <1>7 DEF PathOK
<1>9. TalliesFit'
  BY <1>1, <1>3, TalliesStay
<1> QED BY <1>5, <1>6, <1>8, <1>9 DEF ShowtimesBody

LEMMA FinalizeMoves ==
  ASSUME ShowtimesBody, Showtimes!Finalize \/ Showtimes!FinalizeFails
  PROVE  ShowtimesBody'
<1>1. /\ ShowtimesTyped /\ PhaseInv /\ (\A b \in ShowtimeBatches : PathOK(b)) /\ job \in ShowtimeJobs
      /\ final \in {"chord", "write", "complete"} /\ UNCHANGED <<batch, skewed, astray>>
      /\ job.status \notin {"completed", "failed"}
  BY DEF ShowtimesBody, ShowtimesTyped, PhaseInv, Showtimes!Finalize, Showtimes!FinalizeStart,
         Showtimes!FinalizeWrite, Showtimes!FinalizeComplete, Showtimes!FinalizeFails
<1>2. PICK status \in {"queued", "processing", "completed", "failed"} :
        job' = [job EXCEPT !.status = status]
        /\ (final = "chord" => (status = "failed" /\ final' = "none") \/ (status = job.status /\ final' = "write"))
        /\ (final = "write" => status = job.status /\ final' \in {"complete", "lost"})
        /\ (final = "complete" => (status = job.status /\ final' = "lost") \/ (status = "completed" /\ final' = "none"))
  <2>1. job = [job EXCEPT !.status = job.status] /\ job.status \in {"queued", "processing", "completed", "failed"}
    BY <1>1 DEF ShowtimeJobs
  <2>2. CASE Showtimes!FinalizeStart
    BY <1>1, <2>1, <2>2 DEF Showtimes!FinalizeStart, Showtimes!Terminal
  <2>3. CASE Showtimes!FinalizeWrite
    BY <2>1, <2>3 DEF Showtimes!FinalizeWrite
  <2>4. CASE Showtimes!FinalizeComplete
    BY <2>4 DEF Showtimes!FinalizeComplete
  <2>5. CASE Showtimes!FinalizeFails
    BY <2>1, <2>5 DEF Showtimes!FinalizeFails
  <2> QED BY <2>2, <2>3, <2>4, <2>5 DEF Showtimes!Finalize
<1>3. /\ job' \in ShowtimeJobs /\ job'.status = status /\ job'.aborted = job.aborted
      /\ job'.processed = job.processed /\ job'.count = job.count /\ job'.site = job.site
  BY <1>1, <1>2 DEF ShowtimeJobs
<1>4. ShowtimesTyped'
  BY <1>1, <1>2, <1>3 DEF ShowtimesTyped, Finals
<1>5. \A b \in ShowtimeBatches : /\ PathOK(b)' /\ (Broken(b)' <=> Broken(b))
                                 /\ (AfterCount(b)' <=> AfterCount(b)) /\ (AfterStore(b)' <=> AfterStore(b))
  BY <1>1 DEF PathOK, Broken, AfterCount, AfterStore
<1>6. \A b \in ShowtimeBatches : batch[b].step = "done"
  BY <1>1 DEF PhaseInv, ReportStep, Showtimes!Finalize, Showtimes!FinalizeStart, Showtimes!FinalizeWrite,
              Showtimes!FinalizeComplete, Showtimes!FinalizeFails, Showtimes!Batches
<1>7. PhaseInv'
  <2>1. final' \in {"write", "complete"} \/ status = "completed" => ~job.aborted
    <3>1. CASE final = "chord"
      BY <1>1, <1>2, <3>1 DEF Showtimes!Finalize, Showtimes!FinalizeStart, Showtimes!FinalizeWrite,
                              Showtimes!FinalizeComplete, Showtimes!FinalizeFails
    <3>2. CASE final # "chord"
      BY <1>1, <3>2 DEF PhaseInv, ReportStep
    <3> QED BY <3>1, <3>2
  <2>2. status \in {"completed", "failed"} => final' = "none"
    BY <1>1, <1>2
  <2>3. final' \notin {"dispatch", "missing", "store missing", "publish"}
    BY <1>1, <1>2
  <2> QED BY <1>1, <1>3, <1>6, <2>1, <2>2, <2>3 DEF PhaseInv, ReportStep
<1>8. ASSUME Sound'
      PROVE  CountersRight' /\ StoredRight' /\ WrittenRight'
  <2>1. Sound
    BY <1>1, <1>5, <1>8 DEF Sound
  <2>2. CountersRight /\ StoredRight /\ WrittenRight
    BY <2>1 DEF ShowtimesBody
  <2>3. \A r, m : Tells(r, m)' <=> Tells(r, m)
    BY <1>1, <1>2, <1>5 DEF Tells, MissingTold
  <2>4. \A marks : Told(marks)' = Told(marks)
    BY <2>3 DEF Told
  <2>5. CountersRight'
    BY <1>1, <1>3, <2>2, <2>4 DEF CountersRight
  <2>6. status # "failed"
    BY <1>3, <1>8 DEF Sound
  <2>7. CASE final = "chord"
    <3>1. final' = "write" /\ UNCHANGED result /\ status # "completed"
      BY <1>1, <1>2, <2>6, <2>7 DEF Showtimes!Finalize, Showtimes!FinalizeStart, Showtimes!FinalizeWrite,
                                    Showtimes!FinalizeComplete, Showtimes!FinalizeFails
    <3>2. StoredRight'
      BY <1>1, <1>5, <2>2, <2>7, <3>1 DEF StoredRight, Kept
    <3>3. WrittenRight'
      BY <1>3, <3>1 DEF WrittenRight
    <3> QED BY <2>5, <3>2, <3>3
  <2>8. CASE final = "write"
    <3>1. StoredRight'
      BY <1>2, <2>8 DEF StoredRight, Kept
    <3>2. CASE final' = "lost"
      BY <1>1, <1>2, <1>3, <2>5, <2>8, <3>1, <3>2 DEF WrittenRight
    <3>3. CASE final' = "complete"
      <4>1. output' = [r \in Showings |-> IF result[r] = Showtimes!NotStored THEN Showtimes!Unsure ELSE result[r]]
        BY <2>8, <3>3 DEF Showtimes!Finalize, Showtimes!FinalizeStart, Showtimes!FinalizeWrite,
                          Showtimes!FinalizeComplete, Showtimes!FinalizeFails
      <4>2. \A b \in ShowtimeBatches : AfterStore(b)
        BY <1>6 DEF AfterStore, AfterCount
      <4>3. /\ \A r \in Showtimes!Missing : result[r] = Showtimes!Unsure
            /\ \A b \in ShowtimeBatches : \A r \in ShowingsOf[b] : result[r] = batch[b].rows[r]
        BY <2>2, <2>8, <4>2 DEF StoredRight, Kept
      <4>4. \A r \in Showtimes!Missing : output'[r] = Showtimes!Unsure
        BY <4>1, <4>3, ShowtimesConstants
      <4>5. ASSUME NEW b \in ShowtimeBatches, NEW r \in ShowingsOf[b]
            PROVE  output'[r] = batch'[b].rows[r]
        <5>1. r \in Showings /\ batch[b].rows[r] \in Marks
          BY <1>1, ShowtimesConstants DEF ShowtimesTyped
        <5>2. result[r] # Showtimes!NotStored
          BY <4>3, <5>1, UnsureIsAMark
        <5> QED BY <1>1, <4>1, <4>3, <5>1, <5>2
      <4> QED BY <2>5, <3>1, <4>4, <4>5 DEF WrittenRight
    <3> QED BY <1>2, <2>8, <3>2, <3>3
  <2>9. CASE final = "complete"
    <3>1. StoredRight'
      BY <1>2, <2>9 DEF StoredRight, Kept
    <3>2. output' = output
      BY <1>1, <2>9 DEF Showtimes!Finalize, Showtimes!FinalizeStart, Showtimes!FinalizeWrite,
                        Showtimes!FinalizeComplete, Showtimes!FinalizeFails
    <3>3. WrittenRight'
      BY <1>1, <2>2, <2>9, <3>2 DEF WrittenRight
    <3> QED BY <2>5, <3>1, <3>3
  <2> QED BY <1>1, <2>7, <2>8, <2>9
<1>9. TalliesFit'
  BY <1>1, TalliesStay
<1> QED BY <1>4, <1>5, <1>7, <1>8, <1>9 DEF ShowtimesBody

LEMMA ShowtimesMoves ==
  ASSUME ShowtimesInv, Next
  PROVE  ShowtimesInv'
<1>1. SUFFICES ASSUME service' = "showtimes"
               PROVE  ShowtimesBody'
  BY DEF ShowtimesInv
<1>2. service = "showtimes" /\ Showtimes!Next
  BY <1>1 DEF Next, OnlyShowtimes, OnlyLobby, OnlySync, OnlyCalendar, OnlyEmpty
<1>3. ShowtimesBody /\ batch \in [ShowtimeBatches -> BatchTasks]
  BY <1>2 DEF ShowtimesInv, ShowtimesBody, ShowtimesTyped
<1>4. ASSUME UNCHANGED <<job, result, batch, final, output, skewed, astray>>
      PROVE  ShowtimesBody'
  BY <1>3, <1>4, Unmoved
<1>5. ASSUME NEW b \in ShowtimeBatches, Showtimes!Lapse(b)
      PROVE  ShowtimesBody'
  <2>1. PICK old \in BatchTasks : old = batch[b]
    BY <1>3
  <2>2. PICK new : new = [old EXCEPT !.holder = "lapsed"]
    OBVIOUS
  <2>3. /\ UNCHANGED <<job, result, final, output, skewed, astray>>
        /\ batch' = [batch EXCEPT ![b] = new]
    BY <1>3, <1>5, <2>1, <2>2 DEF Showtimes!Lapse
  <2>4. new \in BatchTasks /\ new.step = old.step /\ new.path = old.path /\ new.rows = old.rows /\ new.tally = old.tally
    BY <2>2 DEF BatchTasks
  <2> QED BY <1>3, <2>1, <2>3, <2>4, Unmoved
<1>6. ASSUME NEW b \in ShowtimeBatches, Showtimes!ProcessBatch(b)
      PROVE  ShowtimesBody'
  <2>1. CASE Showtimes!Ask(b) \/ Showtimes!TryKey(b) \/ Showtimes!MarkKey(b)
    <3>1. UNCHANGED <<job, result, batch, final, output, skewed, astray>>
      BY <2>1 DEF Showtimes!Ask, Showtimes!TryKey, Showtimes!MarkKey, Showtimes!jobVars
    <3> QED BY <1>4, <3>1
  <2>2. CASE Showtimes!Write(b)
    BY <1>3, <2>2, StoreMoves, BumpMovesShowtimes, RecordMoves, EndOfBatch, DecideMoves DEF Showtimes!Write
  <2>3. CASE Showtimes!Read(b) \/ Showtimes!Acquire(b) \/ Showtimes!Answer(b) \/ Showtimes!Exhausted(b)
           \/ Showtimes!Decide(b) \/ Showtimes!SiteCheck(b)
    BY <1>3, <2>3, SearchMoves, DecideMoves, SiteMoves
  <2> QED BY <1>6, <2>1, <2>2, <2>3 DEF Showtimes!ProcessBatch, Showtimes!Search
<1>7. CASE Showtimes!Faulty
  BY <1>3, <1>7, DispatchFailsMoves, FinalizeMoves, SearchMoves, SiteMoves, FailsMoves, EndOfBatch
     DEF Showtimes!Faulty, Showtimes!Batches
<1>8. CASE Showtimes!Surroundings /\ UNCHANGED Showtimes!jobVars
  BY <1>4, <1>8 DEF Showtimes!jobVars
<1>9. CASE Showtimes!Dispatch \/ Showtimes!Finalize
  BY <1>3, <1>9, DispatchMovesShowtimes, FinalizeMoves
<1> QED BY <1>2, <1>5, <1>6, <1>7, <1>8, <1>9 DEF Showtimes!Next, Showtimes!Batches

\* A completed job has done every batch, and told every row.
LEMMA ShowtimesReport ==
  ASSUME ShowtimesBody
  PROVE  Showtimes!ReportAgreesWithCounters
<1>1. SUFFICES ASSUME job.status = "completed"
               PROVE  /\ ~job.aborted
                      /\ skewed = {} =>
                           /\ job.processed = Cardinality(Showings)
                           /\ \A v \in Showtimes!Verdicts :
                                job.count[v] = Cardinality({r \in Showings : output[r].verdict = v})
                           /\ astray = {} => \A v \in {"T", "F"} :
                                job.site[v] = Cardinality({r \in Showings : output[r].site = v})
  BY DEF Showtimes!ReportAgreesWithCounters, Showtimes!SitesAgree, Cardinality, Showtimes!Cardinality
<1>2. PhaseInv /\ ShowtimesTyped /\ (Sound => CountersRight /\ WrittenRight)
  BY DEF ShowtimesBody
<1>3. ~job.aborted /\ final = "none" /\ \A b \in ShowtimeBatches : batch[b].step = "done"
  BY <1>1, <1>2 DEF PhaseInv, ReportStep
<1>4. SUFFICES ASSUME skewed = {}
               PROVE  /\ job.processed = Cardinality(Showings)
                      /\ \A v \in Showtimes!Verdicts :
                           job.count[v] = Cardinality({r \in Showings : output[r].verdict = v})
                      /\ astray = {} => \A v \in {"T", "F"} :
                           job.site[v] = Cardinality({r \in Showings : output[r].site = v})
  BY <1>3
<1>5. Sound
  BY <1>1, <1>3, <1>4 DEF Sound, Broken
<1>6. MissingTold /\ \A b \in ShowtimeBatches : AfterCount(b)
  BY <1>3 DEF MissingTold, AfterCount
<1>7. ASSUME NEW r \in Showings
      PROVE  output[r] \in Marks /\ \A m : Tells(r, m) <=> m = output[r]
  <2>1. CASE r \in Showtimes!Missing
    <3>1. output[r] = Showtimes!Unsure
      BY <1>1, <1>2, <1>5, <2>1 DEF WrittenRight
    <3>2. \A b \in ShowtimeBatches : r \notin ShowingsOf[b]
      BY <2>1, ShowtimesConstants
    <3> QED BY <1>6, <2>1, <3>1, <3>2, UnsureIsAMark DEF Tells
  <2>2. CASE r \notin Showtimes!Missing
    <3>1. PICK b \in ShowtimeBatches : r \in ShowingsOf[b]
      BY <2>2, ShowtimesConstants
    <3>2. \A c \in ShowtimeBatches : r \in ShowingsOf[c] => c = b
      BY <3>1, ShowtimesConstants
    <3>3. output[r] = batch[b].rows[r] /\ batch[b].rows[r] \in Marks
      BY <1>1, <1>2, <1>5, <3>1 DEF WrittenRight, ShowtimesTyped
    <3> QED BY <1>6, <2>2, <3>1, <3>2, <3>3 DEF Tells
  <2> QED BY <2>1, <2>2
<1>8. \A marks : Told(marks) = {r \in Showings : output[r] \in marks}
  BY <1>7 DEF Told
<1>9. Told(Marks) = Showings
  BY <1>7, <1>8
<1>10. \A v : Told(With(v)) = {r \in Showings : output[r].verdict = v}
  BY <1>7, <1>8 DEF With
<1>11. \A v : Told(SiteWith(v)) = {r \in Showings : output[r].site = v}
  BY <1>7, <1>8 DEF SiteWith
<1> QED BY <1>2, <1>5, <1>9, <1>10, <1>11 DEF CountersRight

LEMMA ShowtimesKept == ShowtimesInv /\ [Next]_vars => ShowtimesInv'
<1> SUFFICES ASSUME ShowtimesInv, [Next]_vars
             PROVE  ShowtimesInv'
  OBVIOUS
<1>1. CASE Next
  BY <1>1, ShowtimesMoves
<1>2. CASE UNCHANGED vars
  <2>1. UNCHANGED <<service, job, result, batch, final, output, skewed, astray>>
    BY <1>2 DEF vars, showtimeVars
  <2>2. ShowtimesBody => ShowtimesBody'
    <3> SUFFICES ASSUME ShowtimesBody
                 PROVE  ShowtimesBody'
      OBVIOUS
    <3>1. batch' \in [ShowtimeBatches -> BatchTasks]
      BY <2>1 DEF ShowtimesBody, ShowtimesTyped
    <3> QED BY <2>1, <3>1, Unmoved
  <2> QED BY <2>1, <2>2 DEF ShowtimesInv
<1> QED BY <1>1, <1>2

(***************************************************************************)
(* The counters and the report of a completed deleted-showtimes job say    *)
(* the same of every row, for any rows, batches, caps, fallback ladders,   *)
(* verdicts and faults (deleted_showtime_task.py).                         *)
(***************************************************************************)
THEOREM ReportAgreesWithCountersHolds == FairSpec => []ReportAgreesWithCounters
<1>1. Init => ShowtimesInv
  BY ShowtimesStart
<1>2. ShowtimesInv /\ [Next]_vars => ShowtimesInv'
  BY ShowtimesKept
<1>3. ShowtimesInv => ReportAgreesWithCounters
  BY ShowtimesReport DEF ShowtimesInv, ReportAgreesWithCounters
<1> QED BY <1>1, <1>2, <1>3, PTL DEF FairSpec

-----------------------------------------------------------------------------
(* The types of the lobby check.                                           *)

\* The counters never run ahead of the rows that ended and are in nobody's
\* hands, also after the second error, which CountInv says nothing of.
Behind ==
  /\ job.processed <= Cardinality(Counted(Outcomes))
  /\ job.succeeded + job.failed = job.processed
  /\ errors <= MaxErrors
LobbyBehind == service = "lobby" => Behind

\* A task that works on a row after its step did so before, or took the row
\* from the queue.
LEMMA WorkComesFrom ==
  ASSUME LobbyBody, NEW t \in LobbyTakers,
         Lobby!LobbyStep(t) \/ Lobby!ExtractAgain(t) \/ Lobby!LobbyFault(t)
  PROVE  /\ Only(t)
         /\ taker'[t].step \in WorkSteps =>
              \/ taker[t].step \in WorkSteps /\ taker'[t].row = taker[t].row
              \/ \E m \in queue : m.step = "load" /\ m.row = taker'[t].row
<1>1. LobbyTyped
  BY DEF LobbyBody
<1>2. taker \in [LobbyTakers -> Tasks] /\ taker[t] \in Tasks /\ queue \subseteq RowMsgs \cup JobMsgs
  BY <1>1 DEF LobbyTyped
<1>3. PICK free : free = Lobby!Free
  OBVIOUS
<1>4. free \in Tasks /\ free.step = "free"
  BY <1>3 DEF Lobby!Free, Tasks, LobbySteps, WorkSteps
<1>5. ASSUME Lobby!Done(t)
      PROVE  Only(t) /\ taker'[t].step \notin WorkSteps
  BY <1>2, <1>3, <1>4, <1>5 DEF Lobby!Done, Only, WorkSteps
<1>6. ASSUME NEW step, Lobby!Goto(t, step)
      PROVE  Only(t) /\ taker'[t].step = step /\ taker'[t].row = taker[t].row
  BY <1>2, <1>6 DEF Lobby!Goto, Only, Tasks
<1>7. ASSUME NEW limit, Lobby!Fill(t, limit)
      PROVE  Only(t) /\ taker'[t].step = "select"
  BY <1>2, <1>7 DEF Lobby!Fill, Only, Tasks
<1>8. CASE Lobby!Take(t)
  <2>1. PICK m \in queue : taker' = [taker EXCEPT ![t] = [free EXCEPT !.step = m.step, !.row = m.row, !.tries = m.tries]]
    BY <1>3, <1>8 DEF Lobby!Take
  <2>2. PICK task : task = [free EXCEPT !.step = m.step, !.row = m.row, !.tries = m.tries]
    OBVIOUS
  <2>3. task.step = m.step /\ task.row = m.row
    BY <1>4, <2>2 DEF Tasks
  <2>4. taker' = [taker EXCEPT ![t] = task]
    BY <2>1, <2>2
  <2>5. m.step \in {"load", "dispatch", "finalize"}
    BY <1>2, <2>1 DEF RowMsgs, JobMsgs
  <2> QED BY <1>2, <2>3, <2>4, <2>5 DEF Only, WorkSteps
<1>9. CASE Lobby!Dispatch(t)
  BY <1>6, <1>7, <1>9 DEF Lobby!Dispatch, WorkSteps
<1>10. CASE Lobby!Extract(t)
  <2>1. PICK outcome \in {"completed", "failed"} :
          taker' = [taker EXCEPT ![t].step = "commit", ![t].outcome = outcome]
    BY <1>10 DEF Lobby!Extract
  <2>2. taker[t].step = "load"
    BY <1>10 DEF Lobby!Extract
  <2> QED BY <1>2, <2>1, <2>2 DEF Only, Tasks, WorkSteps
<1>11. CASE Lobby!CommitImage(t)
  BY <1>6, <1>11 DEF Lobby!CommitImage, WorkSteps
<1>12. CASE Lobby!Bump(t)
  BY <1>6, <1>12 DEF Lobby!Bump, WorkSteps
<1>13. CASE Lobby!Settle(t) \/ Lobby!Claim(t)
  BY <1>6, <1>7, <1>13 DEF Lobby!Settle, Lobby!Claim, WorkSteps
<1>14. CASE Lobby!PublishFinalize(t) \/ Lobby!PublishRows(t) \/ Lobby!Finalize(t) \/ Lobby!MarkFailed(t)
            \/ Lobby!ExtractAgain(t) \/ Lobby!FollowUpLost(t) \/ Lobby!MarkFails(t)
  BY <1>5, <1>14 DEF Lobby!PublishFinalize, Lobby!PublishRows, Lobby!Finalize, Lobby!ExtractAgain, Lobby!FollowUpLost,
                     Lobby!MarkFailed, Lobby!MarkFails
<1>15. CASE Lobby!Select(t)
  <2>1. CASE Lobby!Done(t)
    BY <1>5, <2>1
  <2>2. CASE ~Lobby!Done(t)
    <3>1. PICK rows : taker' = [taker EXCEPT ![t].step = "claim rows", ![t].rows = rows]
      BY <1>15, <2>2 DEF Lobby!Select
    <3> QED BY <1>2, <3>1 DEF Only, Tasks, WorkSteps
  <2> QED BY <2>1, <2>2
<1>16. CASE Lobby!ClaimRows(t)
  <2>1. PICK rows : taker' = [taker EXCEPT ![t].step = "publish rows", ![t].rows = rows]
    BY <1>16 DEF Lobby!ClaimRows
  <2> QED BY <1>2, <2>1 DEF Only, Tasks, WorkSteps
<1>17. CASE Lobby!RowBreaks(t)
  <2>1. taker[t].step \in WorkSteps
    BY <1>17 DEF Lobby!RowBreaks, WorkSteps
  <2>2. CASE taker' = [taker EXCEPT ![t] = Lobby!Free]
    BY <1>5, <2>2 DEF Lobby!Done
  <2>3. CASE taker' = [taker EXCEPT ![t].step = "commit", ![t].outcome = "failed", ![t].rescue = TRUE]
    BY <1>2, <2>1, <2>3 DEF Only, Tasks, WorkSteps
  <2> QED BY <1>17, <2>2, <2>3 DEF Lobby!RowBreaks, Lobby!Rescue
<1>18. CASE Lobby!DispatchFails(t)
  BY <1>6, <1>18 DEF Lobby!DispatchFails, WorkSteps
<1> QED BY <1>8, <1>9, <1>10, <1>11, <1>12, <1>13, <1>14, <1>15, <1>16, <1>17, <1>18
        DEF Lobby!LobbyStep, Lobby!LobbyFault

\* A counted row stays counted.
LEMMA CountedStays ==
  ASSUME LobbyBody, NEW t \in LobbyTakers,
         Lobby!LobbyStep(t) \/ Lobby!ExtractAgain(t) \/ Lobby!LobbyFault(t)
  PROVE  Counted(Outcomes) \subseteq Counted(Outcomes)'
<1>1. SUFFICES ASSUME NEW i \in Counted(Outcomes)
               PROVE  i \in Counted(Outcomes)'
  OBVIOUS
<1>2. i \in Images /\ image[i] \in Outcomes /\ \A u \in LobbyTakers : ~Works(u, i)
  BY DEF Counted
<1>3. LobbyTyped /\ RowToken(i)
  BY <1>2 DEF LobbyBody
<1>4. image \in [Images -> {"pending", "dispatched", "completed", "failed"}] /\ taker[t] \in Tasks
  BY <1>3 DEF LobbyTyped
<1>5. \A m \in queue : ~(m.step = "load" /\ m.row = i)
  BY <1>2, <1>3 DEF RowToken, MsgsOf, Outcomes
<1>6. \A u \in LobbyTakers : ~Works(u, i)'
  <2>1. ~Works(t, i)'
    BY <1>2, <1>5, WorkComesFrom DEF Works
  <2>2. \A u \in LobbyTakers : u # t => ~Works(u, i)'
    BY <1>2, WorkComesFrom DEF Only, Works
  <2> QED BY <2>1, <2>2
<1>7. image'[i] \in Outcomes
  <2>1. CASE UNCHANGED image
    BY <1>2, <2>1
  <2>2. CASE Lobby!CommitImage(t)
    <3>1. taker[t].row # i
      BY <1>2, <2>2 DEF Works, WorkSteps, Lobby!CommitImage
    <3> QED BY <1>2, <1>4, <2>2, <3>1 DEF Lobby!CommitImage
  <2>3. CASE Lobby!ClaimRows(t)
    <3>1. i \notin Lobby!Won(taker[t].rows)
      BY <1>2 DEF Lobby!Won, Lobby!Pending, Outcomes
    <3> QED BY <1>2, <2>3, <3>1 DEF Lobby!ClaimRows
  <2> QED BY <2>1, <2>2, <2>3
        DEF Lobby!LobbyStep, Lobby!Take, Lobby!Dispatch, Lobby!Extract, Lobby!Bump, Lobby!Settle, Lobby!Claim,
            Lobby!PublishFinalize, Lobby!Select, Lobby!PublishRows, Lobby!Finalize, Lobby!ExtractAgain,
            Lobby!LobbyFault, Lobby!RowBreaks, Lobby!FollowUpLost, Lobby!DispatchFails, Lobby!MarkFailed, Lobby!MarkFails
<1> QED BY <1>2, <1>6, <1>7 DEF Counted

LEMMA CountedIsFinite ==
  /\ IsFiniteSet(Counted(Outcomes)) /\ Cardinality(Counted(Outcomes)) \in Nat
  /\ Cardinality(Counted(Outcomes)) <= Cardinality(Images) /\ Cardinality(Images) \in Nat
<1>1. Counted(Outcomes) \subseteq Images
  BY DEF Counted
<1> QED BY <1>1, LobbyConstants, FS_Subset, FS_CardinalityType

LEMMA BehindStart == Init => LobbyBehind
<1> SUFFICES ASSUME Init, service = "lobby" PROVE Behind
  BY DEF LobbyBehind
<1>1. /\ job = [phase |-> "queued", claimed |-> FALSE, processed |-> 0, succeeded |-> 0, failed |-> 0] /\ errors = 0
  BY DEF Init, Lobby!LobbyInit
<1>2. job.processed = 0 /\ job.succeeded = 0 /\ job.failed = 0
  BY <1>1
<1> QED BY <1>1, <1>2, CountedIsFinite, LobbyConstants DEF Behind

LEMMA BehindStep ==
  ASSUME LobbyInv, LobbyInv', LobbyBehind, Next
  PROVE  LobbyBehind'
<1>1. SUFFICES ASSUME service' = "lobby"
               PROVE  Behind'
  BY DEF LobbyBehind
<1>2. service = "lobby" /\ Lobby!LobbyNext
  BY <1>1 DEF Next, OnlyShowtimes, OnlyLobby, OnlySync, OnlyCalendar, OnlyEmpty
<1>3. LobbyBody /\ Behind
  BY <1>2 DEF LobbyInv, LobbyBehind
<1>4. PICK t \in LobbyTakers : Lobby!LobbyStep(t) \/ Lobby!ExtractAgain(t) \/ Lobby!LobbyFault(t)
  BY <1>2 DEF Lobby!LobbyNext
<1>5. job \in LobbyJobs /\ errors \in Nat
  BY <1>3 DEF LobbyBody, LobbyTyped
<1>6. job.processed \in Nat /\ job.succeeded \in Nat /\ job.failed \in Nat
  BY <1>5 DEF LobbyJobs
<1>7. errors' <= MaxErrors
  <2>1. CASE Lobby!LobbyFault(t)
    <3>1. errors < MaxErrors /\ errors' = errors + 1
      BY <2>1 DEF Lobby!LobbyFault, Lobby!RowBreaks, Lobby!FollowUpLost, Lobby!DispatchFails, Lobby!MarkFails, Lobby!Error
    <3> QED BY <1>5, <3>1, LobbyConstants
  <2>2. CASE Lobby!LobbyStep(t) \/ Lobby!ExtractAgain(t)
    <3>1. errors' = errors
      BY <2>2
         DEF Lobby!LobbyStep, Lobby!Take, Lobby!Dispatch, Lobby!Extract, Lobby!CommitImage, Lobby!Bump, Lobby!Settle,
             Lobby!Claim, Lobby!PublishFinalize, Lobby!Select, Lobby!ClaimRows, Lobby!PublishRows, Lobby!Finalize,
             Lobby!MarkFailed, Lobby!ExtractAgain
    <3>2. errors <= MaxErrors
      BY <1>3 DEF Behind
    <3> QED BY <3>1, <3>2
  <2> QED BY <1>4, <2>1, <2>2
<1>8. Cardinality(Counted(Outcomes)) <= Cardinality(Counted(Outcomes)') /\ Cardinality(Counted(Outcomes)') \in Nat
  <2>1. Counted(Outcomes)' \subseteq Images
    BY DEF Counted
  <2>2. IsFiniteSet(Counted(Outcomes)') /\ Cardinality(Counted(Outcomes)') \in Nat
    BY <2>1, LobbyConstants, FS_Subset, FS_CardinalityType
  <2> QED BY <1>3, <1>4, <2>2, CountedStays, FS_Subset
<1>9. CASE Lobby!Bump(t)
  <2>1. /\ taker[t].step = "bump" /\ UNCHANGED image /\ Lobby!Goto(t, "settle")
        /\ job' = [job EXCEPT !.processed = @ + 1,
                              !.succeeded = IF taker[t].outcome = "completed" THEN @ + 1 ELSE @,
                              !.failed = IF taker[t].outcome = "failed" THEN @ + 1 ELSE @]
    BY <1>9 DEF Lobby!Bump
  <2>2. taker' \in [LobbyTakers -> Tasks] /\ Only(t) /\ taker'[t].step = "settle"
    BY <1>3, <2>1, GotoMoves DEF Moved, LobbySteps, LobbyBody
  <2>3. \A i \in Images : ~Works(t, i)'
    BY <2>2 DEF Works, WorkSteps
  <2>4. taker[t].outcome \in Outcomes
    BY <1>3, <2>1, RowInHand DEF WorkSteps
  <2>5. Cardinality(Counted(Outcomes)') = Cardinality(Counted(Outcomes)) + 1
    <3>1. Outcomes \in SUBSET Outcomes
      OBVIOUS
    <3> QED BY <1>3, <2>1, <2>2, <2>3, <2>4, <3>1, CountedGains
  <2>6. PICK s, f : /\ s = IF taker[t].outcome = "completed" THEN job.succeeded + 1 ELSE job.succeeded
                    /\ f = IF taker[t].outcome = "failed" THEN job.failed + 1 ELSE job.failed
    OBVIOUS
  <2>7. job'.processed = job.processed + 1 /\ job'.succeeded = s /\ job'.failed = f
    BY <1>5, <2>1, <2>6 DEF LobbyJobs
  <2>8. s + f = job.succeeded + job.failed + 1
    BY <1>6, <2>4, <2>6 DEF Outcomes
  <2> QED BY <1>3, <1>6, <1>7, <2>5, <2>7, <2>8, CountedIsFinite DEF Behind
<1>10. CASE ~Lobby!Bump(t)
  <2>1. job'.processed = job.processed /\ job'.succeeded = job.succeeded /\ job'.failed = job.failed
    BY <1>4, <1>5, <1>10
       DEF Lobby!LobbyStep, Lobby!Take, Lobby!Dispatch, Lobby!Extract, Lobby!CommitImage, Lobby!Settle,
           Lobby!Claim, Lobby!PublishFinalize, Lobby!Select, Lobby!ClaimRows, Lobby!PublishRows,
           Lobby!Finalize, Lobby!MarkFailed, Lobby!ExtractAgain, Lobby!LobbyFault, Lobby!RowBreaks,
           Lobby!FollowUpLost, Lobby!DispatchFails, Lobby!MarkFails, LobbyJobs
  <2> QED BY <1>3, <1>6, <1>7, <1>8, <2>1, CountedIsFinite DEF Behind
<1> QED BY <1>9, <1>10

LEMMA LobbyTypes == LobbyInv /\ LobbyBehind /\ service = "lobby" => Lobby!LobbyTypeOK
<1> SUFFICES ASSUME LobbyTyped, Behind PROVE Lobby!LobbyTypeOK
  BY DEF LobbyInv, LobbyBehind, LobbyBody
<1>1. /\ job \in LobbyJobs /\ queue \subseteq RowMsgs \cup JobMsgs /\ taker \in [LobbyTakers -> Tasks]
      /\ image \in [Images -> {"pending", "dispatched", "completed", "failed"}]
      /\ errors \in Nat /\ dropped \in BOOLEAN
  BY DEF LobbyTyped
<1>2. job.phase \in Lobby!Finished \cup {"queued", "processing"}
  BY <1>1 DEF LobbyJobs, Lobby!Finished
<1>3. Lobby!Cardinality(Images) = Cardinality(Images)
  BY DEF Lobby!Cardinality, Cardinality
<1>4. {job.processed, job.succeeded, job.failed} \subseteq 0 .. Lobby!Cardinality(Images)
  <2>1. job.processed \in Nat /\ job.succeeded \in Nat /\ job.failed \in Nat
    BY <1>1 DEF LobbyJobs
  <2>2. job.processed <= Cardinality(Images) /\ job.succeeded + job.failed = job.processed
    <3>1. job.processed <= Cardinality(Counted(Outcomes)) /\ job.succeeded + job.failed = job.processed
      BY DEF Behind
    <3> QED BY <2>1, <3>1, CountedIsFinite
  <2>3. /\ job.processed \in 0 .. Cardinality(Images) /\ job.succeeded \in 0 .. Cardinality(Images)
        /\ job.failed \in 0 .. Cardinality(Images)
    BY <2>1, <2>2, CountedIsFinite
  <2> QED BY <1>3, <2>3
<1>5. \A m \in queue : m.step \in {"dispatch", "load", "finalize"} /\ m.tries \in 0 .. Attempts - 1
  <2>1. 0 \in 0 .. Attempts - 1
    BY LobbyConstants
  <2> QED BY <1>1, <2>1 DEF RowMsgs, JobMsgs
<1>6. \A t \in LobbyTakers : taker[t].rows \subseteq Images /\ taker[t].row \in Images \cup {0}
  BY <1>1 DEF Tasks
<1>7. errors \in 0 .. MaxErrors
  BY <1>1, LobbyConstants DEF Behind
<1> QED BY <1>1, <1>2, <1>4, <1>5, <1>6, <1>7 DEF Lobby!LobbyTypeOK

-----------------------------------------------------------------------------
(* The types of the calendar.                                              *)

CalendarSmall ==
  /\ calendar.attempt \in 0 .. 2
  /\ calendar.step = "call" => calendar.attempt \in 0 .. 1
  /\ calendar.good + calendar.skipped <= calendar.chunks
CalendarTyped == service = "calendar" => CalendarSmall

LEMMA CalendarTypedStart == Init => CalendarTyped
<1> SUFFICES ASSUME Init, service = "calendar" PROVE CalendarSmall
  BY DEF CalendarTyped
<1>1. Calendar!CalendarInit /\ MaxChunks \in Nat
  BY SideAssumption DEF Init, SideAssumption, Calendar!CalendarAssumption
<1>2. PICK chunks \in 1 .. MaxChunks :
        calendar = [status |-> "queued", step |-> "queued", purpose |-> "classify",
                    chunks |-> chunks, good |-> 0, skipped |-> 0, rows |-> FALSE,
                    attempt |-> 0, temperature |-> TRUE, sheet |-> FALSE, note |-> FALSE]
  BY <1>1 DEF Calendar!CalendarInit
<1> QED BY <1>1, <1>2 DEF CalendarSmall

LEMMA CalendarTypedStep == CalendarInv /\ CalendarTyped /\ [Next]_vars => CalendarTyped'
<1> SUFFICES ASSUME CalendarInv, CalendarTyped, [Next]_vars, service' = "calendar" PROVE CalendarSmall'
  BY DEF CalendarTyped
<1>1. service = "calendar" /\ (UNCHANGED calendar \/ Calendar!CalendarNext)
  BY DEF Next, vars, OnlyShowtimes, OnlyLobby, OnlySync, OnlyCalendar, OnlyEmpty
<1>2. PICK c \in Calendars : c = calendar
  BY <1>1 DEF CalendarInv, CalendarBody
<1>3. /\ c.attempt \in 0 .. 2 /\ (c.step = "call" => c.attempt \in 0 .. 1)
      /\ c.good + c.skipped <= c.chunks
      /\ c.step \in {"queued", "text", "call", "parsed", "raised"} => c.good + c.skipped < c.chunks
  BY <1>1, <1>2 DEF CalendarTyped, CalendarSmall, CalendarInv, CalendarBody
\* Steps that leave the chunks and the attempts alone, or start a call.
<1>4. ASSUME NEW new, calendar' = new, new.good = c.good, new.skipped = c.skipped, new.chunks = c.chunks,
             (new.attempt = c.attempt /\ new.step # "call") \/ new.attempt = 0
      PROVE  CalendarSmall'
  BY <1>3, <1>4 DEF CalendarSmall
<1>5. \A d \in Calendars, purpose \in {"classify", "rows"} :
        /\ Calendar!NewCall(d, purpose).attempt = 0
        /\ Calendar!NewCall(d, purpose).good = d.good /\ Calendar!NewCall(d, purpose).skipped = d.skipped
        /\ Calendar!NewCall(d, purpose).chunks = d.chunks
  BY DEF Calendar!NewCall, Calendars
<1>6. \A status \in {"rejected", "failed"} :
        /\ Calendar!Ended(c, status).attempt = c.attempt /\ Calendar!Ended(c, status).step = "end"
        /\ Calendar!Ended(c, status).good = c.good /\ Calendar!Ended(c, status).skipped = c.skipped
        /\ Calendar!Ended(c, status).chunks = c.chunks
  BY DEF Calendar!Ended, Calendars
<1>7. ASSUME NEW verdict \in BOOLEAN, calendar' = Calendar!Accepted(verdict)
      PROVE  CalendarSmall'
  <2>1. PICK d \in Calendars : d = [c EXCEPT !.status = "processing"]
    BY DEF Calendars
  <2>2. d.good = c.good /\ d.skipped = c.skipped /\ d.chunks = c.chunks
    BY <2>1 DEF Calendars
  <2>3. CASE verdict = TRUE
    <3>1. calendar' = Calendar!NewCall(d, "rows")
      BY <1>2, <1>7, <2>1, <2>3 DEF Calendar!Accepted
    <3> QED BY <1>4, <1>5, <2>2, <3>1
  <2>4. CASE verdict = FALSE
    <3>1. calendar' = Calendar!Ended(c, "rejected")
      BY <1>2, <1>7, <2>4 DEF Calendar!Accepted
    <3> QED BY <1>4, <1>6, <3>1
  <2> QED BY <2>3, <2>4
<1>8. ASSUME NEW d \in Calendars, c.step = "call", d.attempt = c.attempt, d.good = c.good, d.skipped = c.skipped,
             d.chunks = c.chunks, calendar' = Calendar!NextAttempt(d)
      PROVE  CalendarSmall'
  <2>1. PICK step : step = IF d.attempt = 1 THEN "raised" ELSE "call"
    OBVIOUS
  <2>2. PICK n \in Nat : n = d.attempt + 1
    BY DEF Calendars
  <2>3. calendar' = [d EXCEPT !.attempt = n, !.step = step]
    BY <1>8, <2>1, <2>2 DEF Calendar!NextAttempt
  <2>4. calendar'.attempt = n /\ calendar'.step = step /\ calendar'.good = d.good
        /\ calendar'.skipped = d.skipped /\ calendar'.chunks = d.chunks
    BY <2>3 DEF Calendars
  <2>5. n \in 1 .. 2 /\ (step = "call" => n \in 0 .. 1)
    BY <1>3, <1>8, <2>1, <2>2
  <2> QED BY <1>3, <1>8, <2>4, <2>5 DEF CalendarSmall
<1>9. ASSUME NEW d \in Calendars, d.good + d.skipped <= d.chunks, d.step \in {"parsed", "raised"},
             d.attempt \in 0 .. 2, calendar' = Calendar!AfterChunk(d)
      PROVE  CalendarSmall'
  <2>1. CASE d.good + d.skipped = d.chunks
    <3>1. calendar' = [d EXCEPT !.step = "sheet"]
      BY <1>9, <2>1 DEF Calendar!AfterChunk
    <3>2. calendar'.attempt = d.attempt /\ calendar'.step = "sheet" /\ calendar'.good = d.good
          /\ calendar'.skipped = d.skipped /\ calendar'.chunks = d.chunks
      BY <3>1 DEF Calendars
    <3> QED BY <1>9, <3>2 DEF CalendarSmall
  <2>2. CASE d.good + d.skipped # d.chunks
    <3>1. calendar' = Calendar!NewCall(d, "rows")
      BY <1>9, <2>2 DEF Calendar!AfterChunk
    <3> QED BY <1>5, <1>9, <3>1 DEF CalendarSmall
  <2> QED BY <2>1, <2>2
<1>10. ASSUME c.step \in {"parsed", "raised"}, calendar' = Calendar!SkipChunk
       PROVE  CalendarSmall'
  <2>1. PICK n \in Nat : n = c.skipped + 1
    BY DEF Calendars
  <2>2. PICK d : d = [c EXCEPT !.skipped = n]
    OBVIOUS
  <2>3. d \in Calendars /\ d.good = c.good /\ d.skipped = n /\ d.chunks = c.chunks /\ d.attempt = c.attempt
        /\ d.step = c.step
    BY <2>2 DEF Calendars
  <2>4. calendar' = Calendar!AfterChunk(d)
    BY <1>2, <1>10, <2>1, <2>2 DEF Calendar!SkipChunk
  <2>5. c.good \in Nat /\ c.skipped \in Nat /\ c.chunks \in Nat
    BY DEF Calendars
  <2>6. d.good + d.skipped <= d.chunks
    BY <1>3, <1>10, <2>1, <2>3, <2>5
  <2> QED BY <1>3, <1>9, <1>10, <2>3, <2>4, <2>6
<1>11. CASE Calendar!Start
  <2>1. c.step = "queued" /\ calendar' = [c EXCEPT !.step = "text", !.status = "classifying"]
    BY <1>2, <1>11 DEF Calendar!Start
  <2>2. calendar'.attempt = c.attempt /\ calendar'.step = "text" /\ calendar'.good = c.good
        /\ calendar'.skipped = c.skipped /\ calendar'.chunks = c.chunks
    BY <2>1 DEF Calendars
  <2> QED BY <1>4, <2>2
<1>12. CASE Calendar!ClassifyStageA
  <2>1. calendar' = Calendar!NewCall(c, "classify") => CalendarSmall'
    BY <1>4, <1>5
  <2> QED BY <1>2, <1>7, <1>12, <2>1 DEF Calendar!ClassifyStageA
<1>13. CASE Calendar!TemperatureRefusal \/ Calendar!ParseFails
  <2>1. PICK d \in Calendars : d = [c EXCEPT !.temperature = FALSE]
    BY DEF Calendars
  <2>2. d.attempt = c.attempt /\ d.good = c.good /\ d.skipped = c.skipped /\ d.chunks = c.chunks
    BY <2>1 DEF Calendars
  <2>3. c.step = "call" /\ (calendar' = Calendar!NextAttempt(d) \/ calendar' = Calendar!NextAttempt(c))
    BY <1>2, <1>13, <2>1 DEF Calendar!TemperatureRefusal, Calendar!ParseFails
  <2> QED BY <1>8, <2>2, <2>3
<1>14. ASSUME NEW step \in {"raised", "parsed", "except", "lost"}, calendar' = [c EXCEPT !.step = step]
       PROVE  CalendarSmall'
  <2>1. calendar'.attempt = c.attempt /\ calendar'.step = step /\ calendar'.good = c.good
        /\ calendar'.skipped = c.skipped /\ calendar'.chunks = c.chunks
    BY <1>14 DEF Calendars
  <2> QED BY <1>4, <2>1
<1>15. CASE Calendar!CallRaises \/ Calendar!CallConverseJson \/ Calendar!Raises \/ Calendar!Lost
  BY <1>2, <1>14, <1>15 DEF Calendar!CallRaises, Calendar!CallConverseJson, Calendar!Raises, Calendar!Lost
<1>16. CASE Calendar!ClassifyStageB
  BY <1>7, <1>16 DEF Calendar!ClassifyStageB
<1>17. CASE Calendar!Raised
  <2>1. c.step = "raised" /\ (calendar' = Calendar!SkipChunk \/ calendar' = [c EXCEPT !.step = "except"])
    BY <1>2, <1>17 DEF Calendar!Raised
  <2> QED BY <1>10, <1>14, <2>1
<1>18. CASE Calendar!ExtractCalendarRows
  <2>1. c.step = "parsed"
        /\ (calendar' = Calendar!SkipChunk
            \/ \E some \in BOOLEAN :
                 calendar' = Calendar!AfterChunk([c EXCEPT !.good = @ + 1, !.rows = @ \/ some]))
    BY <1>2, <1>18 DEF Calendar!ExtractCalendarRows
  <2>2. ASSUME NEW some \in BOOLEAN,
               calendar' = Calendar!AfterChunk([c EXCEPT !.good = @ + 1, !.rows = @ \/ some])
        PROVE  CalendarSmall'
    <3>1. PICK n \in Nat : n = c.good + 1
      BY DEF Calendars
    <3>2. PICK rows \in BOOLEAN : rows = (c.rows \/ some)
      OBVIOUS
    <3>3. PICK d : d = [c EXCEPT !.good = n, !.rows = rows]
      OBVIOUS
    <3>4. d \in Calendars /\ d.good = n /\ d.skipped = c.skipped /\ d.chunks = c.chunks /\ d.attempt = c.attempt
          /\ d.step = c.step
      BY <3>3 DEF Calendars
    <3>5. calendar' = Calendar!AfterChunk(d)
      BY <2>2, <3>1, <3>2, <3>3
    <3>6. c.good \in Nat /\ c.skipped \in Nat /\ c.chunks \in Nat
      BY DEF Calendars
    <3>7. d.good + d.skipped <= d.chunks
      <4>1. c.good + c.skipped < c.chunks
        BY <1>3, <2>1
      <4> QED BY <3>1, <3>4, <3>6, <4>1
    <3> QED BY <1>3, <1>9, <2>1, <3>4, <3>5, <3>7
  <2> QED BY <1>10, <2>1, <2>2
<1>19. CASE Calendar!StoreSheet
  <2>1. PICK note : note = (c.skipped > 0)
    OBVIOUS
  <2>2. \/ calendar' = [[c EXCEPT !.step = "end", !.status = "completed"] EXCEPT !.sheet = TRUE, !.note = note]
        \/ calendar' = Calendar!Ended(c, "failed")
    BY <1>2, <1>19, <2>1 DEF Calendar!StoreSheet, Calendar!Ended
  <2>3. ASSUME calendar' = [[c EXCEPT !.step = "end", !.status = "completed"] EXCEPT !.sheet = TRUE, !.note = note]
        PROVE  CalendarSmall'
    <3>1. calendar'.attempt = c.attempt /\ calendar'.step = "end" /\ calendar'.good = c.good
          /\ calendar'.skipped = c.skipped /\ calendar'.chunks = c.chunks
      BY <2>3 DEF Calendars
    <3> QED BY <1>4, <3>1
  <2> QED BY <1>4, <1>6, <2>2, <2>3
<1>20. CASE Calendar!ExceptBranch
  <2>1. calendar' = Calendar!Ended(c, "failed")
    BY <1>2, <1>20 DEF Calendar!ExceptBranch
  <2> QED BY <1>4, <1>6, <2>1
<1>21. CASE UNCHANGED calendar
  BY <1>2, <1>3, <1>21 DEF CalendarSmall
<1> QED BY <1>1, <1>11, <1>12, <1>13, <1>15, <1>16, <1>17, <1>18, <1>19, <1>20, <1>21
        DEF Calendar!CalendarNext, Calendar!ProcessCalendarJob

LEMMA CalendarTypes == CalendarInv /\ CalendarTyped /\ service = "calendar" => Calendar!CalendarTypeOK
<1> SUFFICES ASSUME NEW c \in Calendars, c = calendar, CalendarSmall PROVE Calendar!CalendarTypeOK
  BY DEF CalendarInv, CalendarTyped, CalendarBody
<1>1. c.good + c.skipped \in 0 .. c.chunks /\ c.attempt \in 0 .. 2
  BY DEF CalendarSmall, Calendars
<1>2. /\ c.status \in {"queued", "classifying", "processing", "rejected", "failed", "completed"}
      /\ c.step \in {"queued", "text", "call", "parsed", "raised", "sheet", "except", "end", "lost"}
  BY DEF Calendars
<1> QED BY <1>1, <1>2 DEF Calendar!CalendarTypeOK

-----------------------------------------------------------------------------
(* The types of the master sync.                                           *)

SyncJobTypes ==
  [status : {"none", "queued", "processing", "completed", "failed"}, age : 0 .. 1, turn : Int]
SyncTaskTypes ==
  [step : {"start", "rows", "build", "over"}, left : SUBSET SyncFilms, inserted : BOOLEAN, updated : BOOLEAN]
SyncRequests == [step : {"free", "create"}, stale : SUBSET SyncJobs]
SyncBuilds == [step : {"idle", "feed"}, rows : SUBSET SyncFilms]

\* A build waits for each slot of the queue, or comes back by a fault.
SyncBody ==
  /\ master \subseteq SyncFilms /\ index \subseteq master
  /\ job \in [SyncJobs -> SyncJobTypes]
  /\ sync \in [SyncJobs -> SyncTaskTypes]
  /\ request \in [{"r"} -> SyncRequests]
  /\ builder \in [{"b"} -> SyncBuilds]
  /\ builder["b"].rows \subseteq master
  /\ faults \in 0 .. 1
  /\ queue \in 0 .. 1 + faults

SyncTyped == service = "sync" => SyncBody

LEMMA SyncTypedStart == Init => SyncTyped
<1> SUFFICES ASSUME Init, service = "sync" PROVE SyncBody
  BY DEF SyncTyped
<1>1. Sync!SyncInit
  BY DEF Init
<1>2. PICK j, t, r, b : j = Sync!NoJob /\ t = Sync!NoTask /\ r = Sync!NoRequest /\ b = Sync!NoBuild
  OBVIOUS
<1>3. j \in SyncJobTypes /\ t \in SyncTaskTypes /\ r \in SyncRequests /\ b \in SyncBuilds /\ b.rows = {}
  BY <1>2 DEF Sync!NoJob, Sync!NoTask, Sync!NoRequest, Sync!NoBuild, SyncJobTypes, SyncTaskTypes, SyncRequests,
              SyncBuilds
<1>4. /\ job = [i \in SyncJobs |-> j] /\ sync = [i \in SyncJobs |-> t] /\ request = [i \in {"r"} |-> r]
      /\ builder = [i \in {"b"} |-> b] /\ master = {} /\ index = {} /\ queue = 0 /\ faults = 0
  BY <1>1, <1>2 DEF Sync!SyncInit
<1> QED BY <1>3, <1>4 DEF SyncBody

\* The instance has a Cardinality of its own.
LEMMA SyncCounts == \A S : Sync!Cardinality(S) = Cardinality(S)
BY DEF Sync!Cardinality, Cardinality

LEMMA SyncTypedStep == SyncTyped /\ [Next]_vars => SyncTyped'
<1> SUFFICES ASSUME SyncTyped, [Next]_vars, service' = "sync" PROVE SyncBody'
  BY DEF SyncTyped
<1>1. service = "sync" /\ (UNCHANGED <<master, index, job, sync, request, builder, faults, queue>> \/ Sync!SyncNext)
  BY DEF Next, vars, syncVars, OnlyShowtimes, OnlyLobby, OnlySync, OnlyCalendar, OnlyEmpty
<1>2. SyncBody
  BY <1>1 DEF SyncTyped
<1>3. /\ job \in [SyncJobs -> SyncJobTypes] /\ sync \in [SyncJobs -> SyncTaskTypes]
      /\ request \in [{"r"} -> SyncRequests] /\ builder \in [{"b"} -> SyncBuilds]
      /\ master \subseteq SyncFilms /\ index \subseteq master /\ builder["b"].rows \subseteq master
      /\ faults \in 0 .. 1 /\ queue \in 0 .. 1 + faults
  BY <1>2 DEF SyncBody
<1>4. PICK over \in SyncTaskTypes : over = Sync!NoTask
  BY DEF Sync!NoTask, SyncTaskTypes
<1>5. PICK start \in SyncTaskTypes : start = [Sync!NoTask EXCEPT !.step = "start"]
  BY DEF Sync!NoTask, SyncTaskTypes
<1>6. PICK idle : idle = Sync!NoBuild /\ idle \in SyncBuilds /\ idle.rows = {}
  <2>1. PICK idle : idle = [step |-> "idle", rows |-> {}]
    OBVIOUS
  <2>2. idle \in SyncBuilds /\ idle.rows = {}
    BY <2>1 DEF SyncBuilds
  <2> QED BY <2>1, <2>2 DEF Sync!NoBuild
\* A change of one job, of one task, of the builder.
<1>7. ASSUME NEW j \in SyncJobs, NEW status \in {"processing", "completed", "failed"},
             job' = [job EXCEPT ![j].status = status]
      PROVE  job' \in [SyncJobs -> SyncJobTypes]
  <2>1. PICK new : new = [job[j] EXCEPT !.status = status]
    OBVIOUS
  <2>2. new \in SyncJobTypes
    BY <1>3, <2>1 DEF SyncJobTypes
  <2>3. job' = [job EXCEPT ![j] = new]
    BY <1>7, <2>1
  <2> QED BY <1>3, <2>2, <2>3
<1>8. ASSUME NEW j \in SyncJobs, NEW new \in SyncTaskTypes, sync' = [sync EXCEPT ![j] = new]
      PROVE  sync' \in [SyncJobs -> SyncTaskTypes]
  BY <1>3, <1>8
<1>9. ASSUME NEW new \in SyncBuilds, new.rows \subseteq master, builder' = [builder EXCEPT !["b"] = new]
      PROVE  builder' \in [{"b"} -> SyncBuilds] /\ builder'["b"].rows \subseteq master
  BY <1>3, <1>9
<1>10. Sync!Fault => faults' \in 0 .. 1 /\ faults' = faults + 1
  BY <1>3 DEF Sync!Fault
<1>11. CASE Sync!Tick
  <2>1. job' = [j \in SyncJobs |-> IF job[j].age < 1 THEN [job[j] EXCEPT !.age = @ + 1] ELSE job[j]]
        /\ UNCHANGED <<master, sync, request, queue, builder, index, faults>>
    BY <1>11 DEF Sync!Tick
  <2>2. ASSUME NEW j \in SyncJobs
        PROVE  (IF job[j].age < 1 THEN [job[j] EXCEPT !.age = @ + 1] ELSE job[j]) \in SyncJobTypes
    <3>1. PICK old \in SyncJobTypes : old = job[j]
      BY <1>3
    <3>2. CASE old.age < 1
      <4>1. PICK n \in 0 .. 1 : n = old.age + 1
        BY <3>2 DEF SyncJobTypes
      <4>2. [old EXCEPT !.age = n] \in SyncJobTypes
        BY DEF SyncJobTypes
      <4> QED BY <3>1, <3>2, <4>1, <4>2
    <3>3. CASE ~(old.age < 1)
      BY <3>1, <3>3
    <3> QED BY <3>2, <3>3
  <2>3. job' \in [SyncJobs -> SyncJobTypes]
    BY <2>1, <2>2
  <2> QED BY <1>3, <2>1, <2>3 DEF SyncBody
<1>12. ASSUME NEW r \in {"r"}, Sync!LookUp(r)
       PROVE  SyncBody'
  <2>1. UNCHANGED <<master, job, sync, queue, builder, index, faults>>
    BY <1>12 DEF Sync!LookUp
  <2>2. PICK newest \in SUBSET SyncJobs :
          request' = [request EXCEPT ![r] = [step |-> "create", stale |-> newest]]
    <3>1. PICK newest : newest = {j \in Sync!InFlight : \A i \in Sync!InFlight : job[i].turn <= job[j].turn}
      OBVIOUS
    <3>2. newest \subseteq SyncJobs
      BY <3>1 DEF Sync!InFlight
    <3>3. \/ request' = [request EXCEPT ![r] = [step |-> "create", stale |-> {}]]
          \/ request' = [request EXCEPT ![r] = [step |-> "create", stale |-> newest]]
      BY <1>12, <3>1 DEF Sync!LookUp
    <3> QED BY <3>2, <3>3
  <2>3. PICK new \in SyncRequests : new = [step |-> "create", stale |-> newest]
    BY DEF SyncRequests
  <2>4. request' \in [{"r"} -> SyncRequests]
    BY <1>3, <2>2, <2>3
  <2> QED BY <1>3, <2>1, <2>4 DEF SyncBody
<1>13. ASSUME NEW r \in {"r"}, Sync!Create(r)
       PROVE  SyncBody'
  <2>1. PICK j \in Sync!Room :
          /\ job' = [i \in SyncJobs |->
                       IF i = j THEN [status |-> "queued", age |-> 0, turn |-> Sync!Turn(j)]
                       ELSE [job[i] EXCEPT !.status = IF i \in request[r].stale THEN "failed" ELSE @,
                                           !.turn = IF @ > job[j].turn THEN @ - 1 ELSE @]]
          /\ sync' = [sync EXCEPT ![j] = [Sync!NoTask EXCEPT !.step = "start"]]
    BY <1>13 DEF Sync!Create
  <2>2. j \in SyncJobs
    BY DEF Sync!Room
  <2>3. PICK turn \in Int : turn = Sync!Turn(j)
    <3>1. PICK others : others = {i \in SyncJobs \ {j} : job[i].status # "none"}
      OBVIOUS
    <3>2. IsFiniteSet(others)
      <4>1. IsFiniteSet({}) /\ IsFiniteSet({} \cup {1}) /\ IsFiniteSet(({} \cup {1}) \cup {2})
        BY FS_EmptySet, FS_AddElement
      <4>2. others \subseteq ({} \cup {1}) \cup {2}
        BY <3>1 DEF SyncJobs
      <4> QED BY <4>1, <4>2, FS_Subset
    <3>3. Sync!Turn(j) = Cardinality(others)
      BY <3>1, SyncCounts DEF Sync!Turn
    <3> QED BY <3>2, <3>3, FS_CardinalityType
  <2>4. ASSUME NEW i \in SyncJobs
        PROVE  job'[i] \in SyncJobTypes
    <3>1. CASE i = j
      <4>1. job'[i] = [status |-> "queued", age |-> 0, turn |-> turn]
        BY <2>1, <2>3, <3>1
      <4> QED BY <4>1 DEF SyncJobTypes
    <3>2. CASE i # j
      <4>1. PICK old \in SyncJobTypes : old = job[i]
        BY <1>3
      <4>2. job[j].turn \in Int
        BY <1>3, <2>2 DEF SyncJobTypes
      <4>3. PICK status \in {"none", "queued", "processing", "completed", "failed"} :
              status = IF i \in request[r].stale THEN "failed" ELSE old.status
        BY <4>1 DEF SyncJobTypes
      <4>4. PICK n \in Int : n = IF old.turn > job[j].turn THEN old.turn - 1 ELSE old.turn
        BY <4>1, <4>2 DEF SyncJobTypes
      <4>5. job'[i] = [old EXCEPT !.status = status, !.turn = n]
        BY <2>1, <3>2, <4>1, <4>3, <4>4
      <4> QED BY <4>1, <4>5 DEF SyncJobTypes
    <3> QED BY <3>1, <3>2
  <2>5. job' \in [SyncJobs -> SyncJobTypes]
    <3>1. job' = [i \in SyncJobs |-> job'[i]]
      BY <2>1
    <3> QED BY <2>4, <3>1
  <2>6. sync' \in [SyncJobs -> SyncTaskTypes]
    BY <1>5, <1>8, <2>1, <2>2
  <2>7. UNCHANGED <<master, queue, builder, index, faults>> /\ request' = [request EXCEPT ![r] = Sync!NoRequest]
    BY <1>13 DEF Sync!Create
  <2>8. request' \in [{"r"} -> SyncRequests]
    <3>1. PICK none \in SyncRequests : none = Sync!NoRequest
      BY DEF SyncRequests, Sync!NoRequest
    <3> QED BY <1>3, <2>7, <3>1
  <2> QED BY <1>3, <2>5, <2>6, <2>7, <2>8 DEF SyncBody
<1>14. ASSUME NEW j \in SyncJobs, Sync!SyncStart(j)
       PROVE  SyncBody'
  <2>1. PICK new \in SyncTaskTypes : new = [Sync!NoTask EXCEPT !.step = "rows", !.left = SyncFilms]
    BY DEF Sync!NoTask, SyncTaskTypes
  <2>2. /\ job' = [job EXCEPT ![j].status = "processing"] /\ sync' = [sync EXCEPT ![j] = new]
        /\ UNCHANGED <<master, request, queue, builder, index, faults>>
    BY <1>14, <2>1 DEF Sync!SyncStart
  <2>3. job' \in [SyncJobs -> SyncJobTypes] /\ sync' \in [SyncJobs -> SyncTaskTypes]
    BY <1>7, <1>8, <2>2
  <2> QED BY <1>3, <2>2, <2>3 DEF SyncBody
<1>15. ASSUME NEW j \in SyncJobs, Sync!SyncChunk(j)
       PROVE  SyncBody'
  <2>1. PICK old \in SyncTaskTypes : old = sync[j]
    BY <1>3
  <2>2. PICK chunk \in SUBSET old.left :
          /\ master' = master \cup chunk
          /\ sync' = [sync EXCEPT ![j].left = @ \ chunk,
                                  ![j].inserted = @ \/ ~(chunk \subseteq master),
                                  ![j].updated = @ \/ chunk \cap master # {}]
    BY <1>15, <2>1 DEF Sync!SyncChunk
  <2>3. PICK inserted \in BOOLEAN, updated \in BOOLEAN :
          /\ inserted = (old.inserted \/ ~(chunk \subseteq master))
          /\ updated = (old.updated \/ chunk \cap master # {})
    OBVIOUS
  <2>4. PICK new : new = [old EXCEPT !.left = @ \ chunk, !.inserted = inserted, !.updated = updated]
    OBVIOUS
  <2>5. new \in SyncTaskTypes
    BY <2>1, <2>4 DEF SyncTaskTypes
  <2>6. sync' = [sync EXCEPT ![j] = new]
    BY <1>3, <2>1, <2>2, <2>3, <2>4
  <2>7. chunk \subseteq SyncFilms
    BY <2>1 DEF SyncTaskTypes
  <2>8. sync' \in [SyncJobs -> SyncTaskTypes]
    BY <1>8, <2>5, <2>6
  <2>9. UNCHANGED <<job, request, queue, builder, index, faults>>
    BY <1>15 DEF Sync!SyncChunk
  <2> QED BY <1>3, <2>2, <2>7, <2>8, <2>9 DEF SyncBody
<1>16. ASSUME NEW j \in SyncJobs, Sync!SyncComplete(j)
       PROVE  SyncBody'
  <2>1. PICK old \in SyncTaskTypes : old = sync[j]
    BY <1>3
  <2>2. PICK new \in SyncTaskTypes :
          new = IF Sync!Touched(j) THEN [old EXCEPT !.step = "build"] ELSE Sync!NoTask
    BY <1>4, <2>1 DEF SyncTaskTypes
  <2>3. /\ job' = [job EXCEPT ![j].status = "completed"] /\ sync' = [sync EXCEPT ![j] = new]
        /\ UNCHANGED <<master, request, queue, builder, index, faults>>
    BY <1>3, <1>16, <2>1, <2>2 DEF Sync!SyncComplete
  <2>4. job' \in [SyncJobs -> SyncJobTypes] /\ sync' \in [SyncJobs -> SyncTaskTypes]
    BY <1>7, <1>8, <2>3
  <2> QED BY <1>3, <2>3, <2>4 DEF SyncBody
<1>17. ASSUME NEW j \in SyncJobs, Sync!QueueBuild(j)
       PROVE  SyncBody'
  <2>1. queue < 1 /\ queue' = queue + 1 /\ UNCHANGED <<master, job, request, builder, index, faults>>
        /\ sync' = [sync EXCEPT ![j] = over]
    BY <1>4, <1>17 DEF Sync!QueueBuild
  <2>2. sync' \in [SyncJobs -> SyncTaskTypes]
    BY <1>8, <2>1
  <2>3. queue' \in 0 .. 1 + faults'
    BY <1>3, <2>1
  <2> QED BY <1>3, <2>1, <2>2, <2>3 DEF SyncBody
<1>18. ASSUME NEW j \in SyncJobs, Sync!SyncRaises(j)
       PROVE  SyncBody'
  <2>1. /\ Sync!Fault /\ sync' = [sync EXCEPT ![j] = over]
        /\ job' = job \/ job' = [job EXCEPT ![j].status = "failed"]
        /\ UNCHANGED <<master, request, queue, builder, index>>
    BY <1>4, <1>18 DEF Sync!SyncRaises
  <2>2. job' \in [SyncJobs -> SyncJobTypes] /\ sync' \in [SyncJobs -> SyncTaskTypes]
    BY <1>3, <1>7, <1>8, <2>1
  <2>3. faults' \in 0 .. 1 /\ queue' \in 0 .. 1 + faults'
    BY <1>3, <1>10, <2>1
  <2> QED BY <1>3, <2>1, <2>2, <2>3 DEF SyncBody
<1>19. ASSUME NEW j \in SyncJobs, Sync!SyncAgain(j)
       PROVE  SyncBody'
  <2>1. /\ Sync!Fault /\ sync' = [sync EXCEPT ![j] = start]
        /\ UNCHANGED <<master, job, request, queue, builder, index>>
    BY <1>5, <1>19 DEF Sync!SyncAgain
  <2>2. sync' \in [SyncJobs -> SyncTaskTypes]
    BY <1>8, <2>1
  <2>3. faults' \in 0 .. 1 /\ queue' \in 0 .. 1 + faults'
    BY <1>3, <1>10, <2>1
  <2> QED BY <1>3, <2>1, <2>2, <2>3 DEF SyncBody
<1>20. CASE Sync!BuildStart("b")
  <2>1. PICK listed : builder' = [builder EXCEPT !["b"] = [step |-> "feed", rows |-> master \ listed]]
    BY <1>20 DEF Sync!BuildStart
  <2>2. PICK new : new = [step |-> "feed", rows |-> master \ listed]
    OBVIOUS
  <2>3. new \in SyncBuilds /\ new.rows \subseteq master
    BY <1>3, <2>2 DEF SyncBuilds
  <2>4. builder' \in [{"b"} -> SyncBuilds] /\ builder'["b"].rows \subseteq master
    BY <1>9, <2>1, <2>2, <2>3
  <2>5. queue > 0 /\ queue' = queue - 1 /\ UNCHANGED <<master, job, sync, request, index, faults>>
    BY <1>20 DEF Sync!BuildStart
  <2>6. queue' \in 0 .. 1 + faults'
    BY <1>3, <2>5
  <2> QED BY <1>3, <2>4, <2>5, <2>6 DEF SyncBody
<1>21. CASE Sync!BuildFeed("b") \/ Sync!FeedSkips("b")
  <2>1. /\ builder' = [builder EXCEPT !["b"] = idle]
        /\ UNCHANGED <<master, job, sync, request, queue>>
        /\ faults' = faults \/ Sync!Fault
    BY <1>6, <1>21 DEF Sync!BuildFeed, Sync!FeedSkips
  <2>2. PICK fed \in SUBSET builder["b"].rows : index' = index \cup fed
    BY <1>21 DEF Sync!BuildFeed, Sync!FeedSkips
  <2>3. builder' \in [{"b"} -> SyncBuilds] /\ builder'["b"].rows \subseteq master
    BY <1>6, <1>9, <2>1
  <2>4. faults' \in 0 .. 1 /\ queue' \in 0 .. 1 + faults'
    BY <1>3, <1>10, <2>1
  <2> QED BY <1>3, <2>1, <2>2, <2>3, <2>4 DEF SyncBody
<1>22. CASE Sync!BuildAgain("b")
  <2>1. /\ builder' = [builder EXCEPT !["b"] = idle] /\ Sync!Fault /\ queue' = queue + 1
        /\ UNCHANGED <<master, job, sync, request, index>>
    BY <1>6, <1>22 DEF Sync!BuildAgain
  <2>2. builder' \in [{"b"} -> SyncBuilds] /\ builder'["b"].rows \subseteq master
    BY <1>6, <1>9, <2>1
  <2>3. faults' \in 0 .. 1 /\ queue' \in 0 .. 1 + faults'
    BY <1>3, <1>10, <2>1
  <2> QED BY <1>3, <2>1, <2>2, <2>3 DEF SyncBody
<1>23. CASE UNCHANGED <<master, index, job, sync, request, builder, faults, queue>>
  BY <1>3, <1>23 DEF SyncBody
<1> QED BY <1>1, <1>11, <1>12, <1>13, <1>14, <1>15, <1>16, <1>17, <1>18, <1>19, <1>20, <1>21, <1>22, <1>23
        DEF Sync!SyncNext, Sync!SyncFault, Sync!Ask, Sync!SyncTask, Sync!Build

LEMMA SyncTypes == SyncTyped /\ service = "sync" => Sync!SyncTypeOK
<1> SUFFICES ASSUME SyncBody PROVE Sync!SyncTypeOK
  BY DEF SyncTyped
<1>1. \A j \in SyncJobs : job[j] \in SyncJobTypes /\ sync[j] \in SyncTaskTypes
  BY DEF SyncBody
<1>2. \A j \in SyncJobs : /\ job[j].status \in {"none", "queued", "processing", "completed", "failed"}
                          /\ job[j].age \in 0 .. 1
                          /\ sync[j].step \in {"start", "rows", "build", "over"}
                          /\ sync[j].left \subseteq SyncFilms
  BY <1>1 DEF SyncJobTypes, SyncTaskTypes
<1>3. request["r"].stale \subseteq SyncJobs /\ builder["b"].rows \subseteq master
  BY DEF SyncBody, SyncRequests
<1>4. queue \in 0 .. 1 + 1 /\ faults \in 0 .. 1 /\ master \subseteq SyncFilms /\ index \subseteq master
  BY DEF SyncBody
<1> QED BY <1>2, <1>3, <1>4 DEF Sync!SyncTypeOK

-----------------------------------------------------------------------------
(* The types of the batch without rows: nobody ever takes the paths of a   *)
(* row, of a window or of a tick.                                          *)

EmptyLabels ==
  {"idle", "d_load", "d_mark", "d_empty", "d_failed", "f_start", "f_load", "f_collect", "f_put", "f_complete",
   "f_clean_upload", "f_clean_results", "f_clean_rowargs"}
EmptyMsgs == {[task |-> "dispatch", row |-> 0, tries |-> 0], [task |-> "finalize", row |-> 0, tries |-> 0]}
Nothing == [task |-> "none", row |-> 0, tries |-> 0]
EmptyJobs ==
  [status : {"queued", "processing", "completed", "failed"}, dispatched : {0}, processed : {0}, matched : {0},
   no_match : {0}, failed : {0}, claimed : {FALSE}]
Files == [{} -> {"matched", "no_match", "failed", "gap"}]

EmptyData ==
  /\ job \in EmptyJobs
  /\ results = [r \in {} |-> "unset"]
  /\ rowargs = FALSE /\ upload \in BOOLEAN /\ purged \in BOOLEAN /\ counted = {}
  /\ output \subseteq Files
  /\ queue \in [EmptyMsgs -> Nat] /\ faults \in Nat
EmptyActors ==
  /\ pc \in [EmptyWorkers -> EmptyLabels]
  /\ msg \in [EmptyWorkers -> EmptyMsgs \cup {Nothing}]
  /\ rec = [a \in EmptyWorkers |-> Empty!NoRec]
  /\ stack = [a \in EmptyWorkers |-> <<>>]
  /\ cas = [a \in EmptyWorkers |-> Empty!NoCas]
  /\ tick = [a \in EmptyWorkers |-> Empty!NoTick]
  /\ buf \in [EmptyWorkers -> Files \cup {<<>>}]
  /\ \A a \in EmptyWorkers : pc[a] = "f_put" => buf[a] \in Files
EmptyBody == EmptyData /\ EmptyActors
EmptyTyped == service = "empty" => EmptyBody

LEMMA EmptyConstants ==
  /\ Empty!Rows = {} /\ Empty!Actors = EmptyWorkers
  /\ Empty!QueueMsgs = EmptyMsgs /\ Empty!NoMsg = Nothing
  /\ \A m \in EmptyMsgs : m.task \in {"dispatch", "finalize"}
<1>1. Empty!Rows = {}
  <2>1. \A r : ~(r \in 0 .. 0 - 1)
    OBVIOUS
  <2> QED BY <2>1 DEF Empty!Rows
<1>2. Empty!Actors = EmptyWorkers
  BY DEF Empty!Actors
<1>3. Empty!QueueMsgs = EmptyMsgs
  BY <1>1 DEF Empty!QueueMsgs, EmptyMsgs, Empty!DispatchMsg, Empty!FinalizeMsg
<1> QED BY <1>1, <1>2, <1>3 DEF EmptyMsgs, Empty!NoMsg, Nothing

LEMMA EmptyTypedStart == Init => EmptyTyped
<1> SUFFICES ASSUME Init, service = "empty" PROVE EmptyBody
  BY DEF EmptyTyped
<1>1. Empty!Init
  BY DEF Init
<1>2. EmptyData
  <2>1. job \in EmptyJobs
    BY <1>1 DEF Empty!Init, EmptyJobs
  <2>2. queue = [m \in EmptyMsgs |-> IF m = Empty!DispatchMsg THEN 1 ELSE 0] /\ results = [r \in {} |-> "unset"]
    BY <1>1, EmptyConstants DEF Empty!Init
  <2>3. queue \in [EmptyMsgs -> Nat]
    BY <2>2
  <2> QED BY <1>1, <2>1, <2>2, <2>3 DEF EmptyData, Empty!Init
<1>3. EmptyActors
  BY <1>1, EmptyConstants DEF Empty!Init, EmptyActors, EmptyLabels
<1> QED BY <1>2, <1>3 DEF EmptyBody

\* What an actor can do at those labels.
LEMMA EmptyMoves ==
  ASSUME EmptyBody, NEW a \in EmptyWorkers
  PROVE  /\ Empty!RowStep(a) => Empty!PublishFinalize(a) /\ pc[a] = "d_empty"
         /\ ~Empty!WindowStep(a) /\ ~Empty!TickStep(a)
         /\ ~Empty!CacheRowArgs(a)
         /\ ~Empty!Raise(a) /\ ~Empty!Crash(a) /\ ~Empty!ArgsMiss(a)
<1>1. pc[a] \in EmptyLabels
  BY DEF EmptyBody, EmptyActors
<1>2. Empty!RowStep(a) => Empty!PublishFinalize(a) /\ pc[a] = "d_empty"
  BY <1>1 DEF EmptyLabels, Empty!RowStep, Empty!MatchSucceeds, Empty!MatchRetries, Empty!MatchExhausted,
     Empty!MatchBreaks, Empty!StoreRowResult, Empty!BumpCounters, Empty!ClaimFinalize, Empty!PublishFinalize
<1>3. ~Empty!WindowStep(a) /\ ~Empty!TickStep(a) /\ ~Empty!CacheRowArgs(a)
  BY <1>1 DEF EmptyLabels, Empty!WindowStep, Empty!ReadCursor, Empty!SwapCursor, Empty!FetchRowArgs,
     Empty!PublishRow, Empty!FailUnrecoverable, Empty!WindowDone, Empty!TickStep, Empty!SweepSelect,
     Empty!SweepClaim, Empty!SweepPublish, Empty!TopUp, Empty!CacheRowArgs
<1>4. /\ \A label \in EmptyLabels : ~Empty!Fault("raise", label)
      /\ \A label : ~Empty!Fault("crash", label)
  BY DEF EmptyLabels, Empty!Fault
<1>5. ~Empty!Crash(a) /\ ~Empty!ArgsMiss(a)
  BY <1>1, <1>4 DEF EmptyLabels, Empty!Crash, Empty!ArgsMiss
<1>6. ~Empty!RaiseInRow(a) /\ ~Empty!RaiseInUnrecoverable(a) /\ ~Empty!RaiseInSettle(a) /\ ~Empty!RaiseInWindow(a)
      /\ ~Empty!RaiseInSweep(a)
  BY <1>1 DEF EmptyLabels, Empty!RaiseInRow, Empty!RaiseInUnrecoverable, Empty!RaiseInSettle, Empty!RaiseInWindow,
     Empty!RaiseInSweep
<1>7. ~Empty!RaiseInDispatch(a) /\ ~Empty!RaiseInFinalize(a)
  BY <1>1, <1>4 DEF Empty!RaiseInDispatch, Empty!RaiseInFinalize
<1> QED BY <1>2, <1>3, <1>5, <1>6, <1>7 DEF Empty!Raise

\* An actor moves on, with nothing new in hand.
LEMMA EmptyGoes ==
  ASSUME EmptyActors, NEW a \in EmptyWorkers, NEW label \in EmptyLabels, label # "f_put",
         pc' = [pc EXCEPT ![a] = label], UNCHANGED <<msg, rec, stack, cas, tick, buf>>
  PROVE  EmptyActors'
<1>1. pc' \in [EmptyWorkers -> EmptyLabels] /\ \A b \in EmptyWorkers : pc'[b] = IF b = a THEN label ELSE pc[b]
  BY DEF EmptyActors
<1> QED BY <1>1 DEF EmptyActors

LEMMA EmptyReleases ==
  ASSUME EmptyActors, NEW a \in EmptyWorkers, Empty!Release(a)
  PROVE  EmptyActors'
<1>1. PICK r, c, t : r = Empty!NoRec /\ c = Empty!NoCas /\ t = Empty!NoTick
  OBVIOUS
<1>2. /\ pc' = [pc EXCEPT ![a] = "idle"] /\ msg' = [msg EXCEPT ![a] = Nothing]
      /\ rec' = [rec EXCEPT ![a] = r] /\ stack' = [stack EXCEPT ![a] = <<>>]
      /\ cas' = [cas EXCEPT ![a] = c] /\ tick' = [tick EXCEPT ![a] = t]
      /\ buf' = [buf EXCEPT ![a] = <<>>]
  BY <1>1, EmptyConstants DEF Empty!Release, Empty!Goto
<1>3. pc' \in [EmptyWorkers -> EmptyLabels] /\ \A b \in EmptyWorkers : pc'[b] = IF b = a THEN "idle" ELSE pc[b]
  BY <1>2 DEF EmptyActors, EmptyLabels
<1>4. msg' \in [EmptyWorkers -> EmptyMsgs \cup {Nothing}]
  BY <1>2 DEF EmptyActors
<1>5. /\ rec' = [b \in EmptyWorkers |-> r] /\ stack' = [b \in EmptyWorkers |-> <<>>]
      /\ cas' = [b \in EmptyWorkers |-> c] /\ tick' = [b \in EmptyWorkers |-> t]
  BY <1>1, <1>2 DEF EmptyActors
<1>6. /\ buf' \in [EmptyWorkers -> Files \cup {<<>>}]
      /\ \A b \in EmptyWorkers : buf'[b] = IF b = a THEN <<>> ELSE buf[b]
  BY <1>2 DEF EmptyActors
<1> QED BY <1>1, <1>3, <1>4, <1>5, <1>6 DEF EmptyActors

LEMMA EmptyTypedStep == EmptyTyped /\ [Next]_vars => EmptyTyped'
<1> SUFFICES ASSUME EmptyTyped, [Next]_vars, service' = "empty" PROVE EmptyBody'
  BY DEF EmptyTyped
<1> DEFINE mine == <<job, queue, output, faults, results, rowargs, upload, counted, purged,
                     pc, msg, rec, stack, cas, tick, buf>>
<1>1. service = "empty" /\ (UNCHANGED mine \/ Empty!Next)
  BY DEF Next, vars, emptyVars, OnlyShowtimes, OnlyLobby, OnlySync, OnlyCalendar, OnlyEmpty
<1>2. EmptyData /\ EmptyActors /\ EmptyBody
  BY <1>1 DEF EmptyTyped, EmptyBody
<1>3. CASE UNCHANGED mine
  BY <1>2, <1>3 DEF EmptyBody, EmptyData, EmptyActors
<1>4. ASSUME NEW a \in EmptyWorkers, Empty!Take(a)
      PROVE  EmptyBody'
  <2>1. PICK m \in EmptyMsgs : /\ queue[m] > 0 /\ queue' = [queue EXCEPT ![m] = @ - 1]
                               /\ msg' = [msg EXCEPT ![a] = m] /\ pc' = [pc EXCEPT ![a] = Empty!Entry(m.task)]
    BY <1>4, EmptyConstants DEF Empty!Take, Empty!Goto
  <2>2. PICK label \in {"d_load", "f_start"} : label = Empty!Entry(m.task)
    BY EmptyConstants DEF Empty!Entry
  <2>3. UNCHANGED <<job, results, rowargs, upload, output, rec, stack, cas, tick, buf, faults, counted, purged>>
    BY <1>4 DEF Empty!Take, Empty!storeVars, Empty!historyVars
  <2>4. queue' \in [EmptyMsgs -> Nat]
    BY <1>2, <2>1 DEF EmptyData
  <2>5. EmptyData'
    BY <1>2, <2>3, <2>4 DEF EmptyData
  <2>6. pc' \in [EmptyWorkers -> EmptyLabels] /\ \A b \in EmptyWorkers : pc'[b] = IF b = a THEN label ELSE pc[b]
    BY <1>2, <2>1, <2>2 DEF EmptyActors, EmptyLabels
  <2>7. msg' \in [EmptyWorkers -> EmptyMsgs \cup {Nothing}]
    BY <1>2, <2>1 DEF EmptyActors
  <2>8. EmptyActors'
    BY <1>2, <2>3, <2>6, <2>7 DEF EmptyActors
  <2> QED BY <2>5, <2>8 DEF EmptyBody
<1>5. ASSUME NEW m \in EmptyMsgs, queue' = [queue EXCEPT ![m] = @ + 1]
      PROVE  queue' \in [EmptyMsgs -> Nat]
  BY <1>2, <1>5 DEF EmptyData
<1>6. ASSUME NEW m \in EmptyMsgs, Empty!Redeliver(m)
      PROVE  EmptyBody'
  <2>1. /\ queue' = [queue EXCEPT ![m] = @ + 1] /\ faults' = faults + 1
        /\ UNCHANGED <<job, results, rowargs, upload, output, counted, purged>>
        /\ UNCHANGED <<pc, msg, rec, stack, cas, tick, buf>>
    BY <1>6 DEF Empty!Redeliver, Empty!Fault, Empty!Publish, Empty!storeVars, Empty!historyVars, Empty!actorVars
  <2>2. queue' \in [EmptyMsgs -> Nat] /\ faults' \in Nat
    BY <1>2, <1>5, <2>1 DEF EmptyData
  <2> QED BY <1>2, <2>1, <2>2 DEF EmptyBody, EmptyData, EmptyActors
<1>7. ASSUME NEW a \in EmptyWorkers, Empty!PublishFinalize(a), pc[a] = "d_empty"
      PROVE  EmptyBody'
  <2>1. PICK m \in EmptyMsgs : m = Empty!FinalizeMsg
    BY DEF EmptyMsgs, Empty!FinalizeMsg
  <2>2. /\ queue' = [queue EXCEPT ![m] = @ + 1] /\ Empty!Return(a, stack[a])
        /\ UNCHANGED <<job, results, rowargs, upload, output, faults, counted, purged>>
    BY <1>7, <2>1 DEF Empty!PublishFinalize, Empty!Publish, Empty!storeVars, Empty!historyVars
  <2>3. stack[a] = <<>> /\ msg[a] # Empty!TickMsg
    <3>1. msg[a] \in EmptyMsgs \cup {Nothing} /\ stack[a] = <<>>
      BY <1>2 DEF EmptyActors
    <3> QED BY <3>1 DEF EmptyMsgs, Nothing, Empty!TickMsg
  <2>4. Empty!Release(a)
    BY <2>2, <2>3 DEF Empty!Return
  <2>5. EmptyActors'
    BY <1>2, <2>4, EmptyReleases
  <2>6. queue' \in [EmptyMsgs -> Nat]
    BY <1>5, <2>2
  <2> QED BY <1>2, <2>2, <2>5, <2>6 DEF EmptyBody, EmptyData
\* The job's row, its stores and the queue.
<1>8. ASSUME NEW status \in {"processing", "completed", "failed"}, NEW j,
             j = [job EXCEPT !.status = status] \/ j = [job EXCEPT !.status = status, !.dispatched = 0]
      PROVE  j \in EmptyJobs
  BY <1>2, <1>8 DEF EmptyData, EmptyJobs
<1>9. ASSUME NEW a \in EmptyWorkers, Empty!DispatchStep(a)
      PROVE  EmptyBody'
  <2>1. ~Empty!CacheRowArgs(a)
    BY <1>2, EmptyMoves
  <2>2. CASE Empty!DispatchLoad(a)
    <3>1. PICK label \in {"d_mark", "d_failed"} : pc' = [pc EXCEPT ![a] = label]
      BY <2>2 DEF Empty!DispatchLoad, Empty!Goto
    <3>2. UNCHANGED <<job, results, rowargs, upload, output, queue, msg, rec, stack, cas, tick, buf, faults,
                      counted, purged>>
      BY <2>2 DEF Empty!DispatchLoad, Empty!storeVars, Empty!historyVars
    <3>3. EmptyActors'
      BY <1>2, <3>1, <3>2, EmptyGoes DEF EmptyLabels
    <3> QED BY <1>2, <3>2, <3>3 DEF EmptyBody, EmptyData
  <2>3. CASE Empty!DispatchMark(a)
    <3>1. /\ pc' = [pc EXCEPT ![a] = "d_empty"] /\ job' = [job EXCEPT !.status = "processing", !.dispatched = 0]
          /\ UNCHANGED <<results, rowargs, upload, output, queue, msg, rec, stack, cas, tick, buf, faults,
                         counted, purged>>
      BY <2>3 DEF Empty!DispatchMark, Empty!Goto, Empty!storeVars, Empty!historyVars
    <3>2. EmptyActors'
      BY <1>2, <3>1, EmptyGoes DEF EmptyLabels
    <3>3. job' \in EmptyJobs
      BY <1>8, <3>1
    <3> QED BY <1>2, <3>1, <3>2, <3>3 DEF EmptyBody, EmptyData
  <2>4. CASE Empty!DispatchFailed(a)
    <3>1. /\ job' = [job EXCEPT !.status = "failed"] /\ Empty!Release(a)
          /\ UNCHANGED <<results, rowargs, upload, output, queue, faults, counted, purged>>
      BY <2>4 DEF Empty!DispatchFailed, Empty!storeVars, Empty!historyVars
    <3>2. EmptyActors'
      BY <1>2, <3>1, EmptyReleases
    <3>3. job' \in EmptyJobs
      BY <1>8, <3>1
    <3> QED BY <1>2, <3>1, <3>2, <3>3 DEF EmptyBody, EmptyData
  <2> QED BY <1>9, <2>1, <2>2, <2>3, <2>4 DEF Empty!DispatchStep
<1>10. ASSUME NEW a \in EmptyWorkers, Empty!FinalizeStep(a)
       PROVE  EmptyBody'
  <2>1. CASE Empty!FinalizeStart(a) \/ Empty!FinalizeLoad(a)
    <3>1. \/ Empty!Release(a)
          \/ /\ pc' = [pc EXCEPT ![a] = "f_load"] \/ pc' = [pc EXCEPT ![a] = "f_collect"]
             /\ UNCHANGED <<msg, rec, stack, cas, tick, buf>>
      BY <2>1 DEF Empty!FinalizeStart, Empty!FinalizeLoad, Empty!Goto
    <3>2. UNCHANGED <<job, results, rowargs, upload, output, queue, faults, counted, purged>>
      BY <2>1 DEF Empty!FinalizeStart, Empty!FinalizeLoad, Empty!storeVars, Empty!historyVars
    <3>3. EmptyActors'
      BY <1>2, <3>1, EmptyGoes, EmptyReleases DEF EmptyLabels
    <3> QED BY <1>2, <3>2, <3>3 DEF EmptyBody, EmptyData
  <2>2. CASE Empty!FinalizeCollect(a)
    <3>1. PICK file \in Files : file = [r \in {} |-> IF results[r] = "unset" THEN "gap" ELSE results[r]]
      BY DEF Files
    <3>2. /\ buf' = [buf EXCEPT ![a] = file] /\ pc' = [pc EXCEPT ![a] = "f_put"]
          /\ UNCHANGED <<job, results, rowargs, upload, output, queue, msg, rec, stack, cas, tick, faults,
                         counted, purged>>
      BY <2>2, <3>1, EmptyConstants DEF Empty!FinalizeCollect, Empty!Goto, Empty!storeVars, Empty!historyVars
    <3>3. /\ buf' \in [EmptyWorkers -> Files \cup {<<>>}]
          /\ \A b \in EmptyWorkers : buf'[b] = IF b = a THEN file ELSE buf[b]
      BY <1>2, <3>2 DEF EmptyActors
    <3>4. /\ pc' \in [EmptyWorkers -> EmptyLabels]
          /\ \A b \in EmptyWorkers : pc'[b] = IF b = a THEN "f_put" ELSE pc[b]
      BY <1>2, <3>2 DEF EmptyActors, EmptyLabels
    <3>5. EmptyActors'
      BY <1>2, <3>2, <3>3, <3>4 DEF EmptyActors
    <3> QED BY <1>2, <3>2, <3>5 DEF EmptyBody, EmptyData
  <2>3. CASE Empty!FinalizePut(a)
    <3>1. /\ pc[a] = "f_put" /\ output' = {buf[a]} /\ pc' = [pc EXCEPT ![a] = "f_complete"]
          /\ UNCHANGED <<job, results, rowargs, upload, queue, msg, rec, stack, cas, tick, buf, faults,
                         counted, purged>>
      BY <2>3 DEF Empty!FinalizePut, Empty!Goto, Empty!historyVars
    <3>2. buf[a] \in Files
      BY <1>2, <3>1 DEF EmptyActors
    <3>3. EmptyActors'
      BY <1>2, <3>1, EmptyGoes DEF EmptyLabels
    <3> QED BY <1>2, <3>1, <3>2, <3>3 DEF EmptyBody, EmptyData
  <2>4. CASE Empty!FinalizeComplete(a)
    <3>1. /\ pc' = [pc EXCEPT ![a] = "f_clean_upload"] /\ job' = [job EXCEPT !.status = "completed"]
          /\ UNCHANGED <<results, rowargs, upload, output, queue, msg, rec, stack, cas, tick, buf, faults,
                         counted, purged>>
      BY <2>4 DEF Empty!FinalizeComplete, Empty!Goto, Empty!storeVars, Empty!historyVars
    <3>2. EmptyActors'
      BY <1>2, <3>1, EmptyGoes DEF EmptyLabels
    <3>3. job' \in EmptyJobs
      BY <1>8, <3>1
    <3> QED BY <1>2, <3>1, <3>2, <3>3 DEF EmptyBody, EmptyData
  <2>5. CASE Empty!CleanUpload(a)
    <3>1. /\ pc' = [pc EXCEPT ![a] = "f_clean_results"] /\ upload' = FALSE
          /\ UNCHANGED <<job, results, rowargs, output, queue, msg, rec, stack, cas, tick, buf, faults,
                         counted, purged>>
      BY <2>5 DEF Empty!CleanUpload, Empty!Goto, Empty!historyVars
    <3>2. EmptyActors'
      BY <1>2, <3>1, EmptyGoes DEF EmptyLabels
    <3> QED BY <1>2, <3>1, <3>2 DEF EmptyBody, EmptyData
  <2>6. CASE Empty!CleanResults(a)
    <3>1. /\ pc' = [pc EXCEPT ![a] = "f_clean_rowargs"] /\ results' = [r \in {} |-> "unset"] /\ purged' = TRUE
          /\ UNCHANGED <<job, rowargs, upload, output, queue, msg, rec, stack, cas, tick, buf, faults, counted>>
      BY <2>6, EmptyConstants DEF Empty!CleanResults, Empty!Goto
    <3>2. EmptyActors'
      BY <1>2, <3>1, EmptyGoes DEF EmptyLabels
    <3> QED BY <1>2, <3>1, <3>2 DEF EmptyBody, EmptyData
  <2>7. CASE Empty!CleanRowArgs(a)
    <3>1. /\ Empty!Release(a) /\ rowargs' = FALSE
          /\ UNCHANGED <<job, results, upload, output, queue, faults, counted, purged>>
      BY <2>7 DEF Empty!CleanRowArgs, Empty!historyVars
    <3>2. EmptyActors'
      BY <1>2, <3>1, EmptyReleases
    <3> QED BY <1>2, <3>1, <3>2 DEF EmptyBody, EmptyData
  <2> QED BY <1>10, <2>1, <2>2, <2>3, <2>4, <2>5, <2>6, <2>7 DEF Empty!FinalizeStep
<1>11. ASSUME NEW a \in EmptyWorkers,
              Empty!Run(a) \/ Empty!Raise(a) \/ Empty!Crash(a) \/ Empty!ArgsMiss(a)
       PROVE  EmptyBody'
  <2>1. Empty!RowStep(a) \/ Empty!DispatchStep(a) \/ Empty!FinalizeStep(a)
    BY <1>2, <1>11, EmptyMoves DEF Empty!Run
  <2> QED BY <1>2, <1>7, <1>9, <1>10, <2>1, EmptyMoves
<1> HIDE DEF mine
<1> QED BY <1>1, <1>3, <1>4, <1>6, <1>11, EmptyConstants DEF Empty!Next

LEMMA EmptyTypes == EmptyTyped /\ service = "empty" => Empty!TypeOK
<1> SUFFICES ASSUME EmptyBody PROVE Empty!TypeOK
  BY DEF EmptyTyped
<1>1. EmptyData /\ EmptyActors
  BY DEF EmptyBody
<1>2. Empty!DataTypes
  <2>1. job \in Empty!JobType
    <3> DEFINE J(n) == [status : {"queued", "processing", "completed", "failed"}, dispatched : {n}, processed : {n},
                        matched : {n}, no_match : {n}, failed : {n}, claimed : {FALSE}]
               K(n) == [status : {"queued", "processing", "completed", "failed"}, dispatched : n .. n, processed : Nat,
                        matched : Nat, no_match : Nat, failed : Nat, claimed : BOOLEAN]
    <3>1. \A n \in Nat : n \in n .. n
      OBVIOUS
    <3>2. \A n \in Nat : J(n) \subseteq K(n)
      BY <3>1, Zenon
    <3>3. J(0) \subseteq K(0)
      BY <3>2
    <3>4. job \in J(0)
      BY <1>1 DEF EmptyData, EmptyJobs
    <3>5. Empty!JobType = K(0)
      BY DEF Empty!JobType
    <3> QED BY <3>3, <3>4, <3>5
  <2>2. results \in [{} -> Empty!Outcomes \cup {"unset"}]
    BY <1>1 DEF EmptyData
  <2>3. Empty!Outcomes \cup {"gap"} = {"matched", "no_match", "failed", "gap"}
    BY DEF Empty!Outcomes
  <2> QED BY <1>1, <2>1, <2>2, <2>3, EmptyConstants DEF Empty!DataTypes, EmptyData, Files
<1>3. Empty!ActorTypes
  <2>1. PICK r, c, t : r = Empty!NoRec /\ c = Empty!NoCas /\ t = Empty!NoTick
    OBVIOUS
  <2>2. /\ r \in [row : Nat, outcome : Empty!Outcomes, rescue : BOOLEAN]
        /\ c \in [read : 0 .. 0, to : 0 .. 0, attempts : 0 .. 1]
        /\ t \in [deficit : Int, published : Nat]
    BY <2>1 DEF Empty!NoRec, Empty!NoCas, Empty!NoTick, Empty!Outcomes
  <2>3. /\ rec \in [EmptyWorkers -> [row : Nat, outcome : Empty!Outcomes, rescue : BOOLEAN]]
        /\ cas \in [EmptyWorkers -> [read : 0 .. 0, to : 0 .. 0, attempts : 0 .. 1]]
        /\ tick \in [EmptyWorkers -> [deficit : Int, published : Nat]]
    BY <1>1, <2>1, <2>2 DEF EmptyActors
  <2>4. stack \in [EmptyWorkers -> Empty!Seq(Empty!WindowType)]
    BY <1>1 DEF EmptyActors
  <2>5. pc \in [EmptyWorkers -> Empty!Labels]
    BY <1>1 DEF EmptyActors, EmptyLabels, Empty!Labels
  <2>6. Empty!Outcomes \cup {"gap"} = {"matched", "no_match", "failed", "gap"}
    BY DEF Empty!Outcomes
  <2>7. buf \in [EmptyWorkers -> [{} -> Empty!Outcomes \cup {"gap"}] \cup {<<>>}]
    BY <1>1, <2>6 DEF EmptyActors, Files
  <2> QED BY <1>1, <2>3, <2>4, <2>5, <2>7, EmptyConstants DEF Empty!ActorTypes, EmptyActors
<1>4. Empty!InHand
  <2>1. \A a \in EmptyWorkers : pc[a] \in EmptyLabels /\ (pc[a] = "f_put" => buf[a] \in Files)
    BY <1>1 DEF EmptyActors
  <2>2. Empty!Outcomes \cup {"gap"} = {"matched", "no_match", "failed", "gap"}
    BY DEF Empty!Outcomes
  <2> QED BY <2>1, <2>2, EmptyConstants DEF Empty!InHand, EmptyLabels, Files
<1> QED BY <1>2, <1>3, <1>4 DEF Empty!TypeOK

-----------------------------------------------------------------------------
(* The types of the deleted-showtimes job and of its keys.                 *)

\* RotationTypeOK of the keys a showtimes job asks, in parts.
Offers == [slot : 1 .. KeySlots, key : 1 .. ProviderKeys]
CallSteps == {"idle", "trying", "marking", "answer", "error", "exhausted"}
CallTypeOK ==
  /\ call \in [ShowtimeBatches -> [step : CallSteps, todo : SUBSET Offers]]
  /\ \A c \in ShowtimeBatches : call[c].step \in {"trying", "marking"} => call[c].todo # {}
SlotTypeOK == slot \in [1 .. KeySlots -> [key : 1 .. ProviderKeys \cup {0}, age : 0 .. Cooldown]]
PoolTypeOK ==
  /\ config \in [1 .. KeySlots -> 1 .. ProviderKeys]
  /\ table \in BOOLEAN
  /\ refused \in [1 .. KeySlots -> [1 .. ProviderKeys -> 0 .. Cooldown]]
  /\ dark \in [1 .. KeySlots -> Nat]
KeysTyped == CallTypeOK /\ SlotTypeOK /\ PoolTypeOK

LEMMA KeyConstants ==
  /\ KeySlots \in Nat \ {0} /\ Cooldown \in Nat \ {0} /\ ProviderKeys \in Nat \ {0}
  /\ TableAtStart \in SUBSET BOOLEAN
BY SideAssumption DEF SideAssumption, Showtimes!RotationAssumption

LEMMA KeysTypes == KeysTyped => Showtimes!RotationTypeOK
BY DEF KeysTyped, Showtimes!RotationTypeOK, CallTypeOK, SlotTypeOK, PoolTypeOK, CallSteps, Offers,
       Showtimes!Slot, Showtimes!Key

LEMMA KeysStart == Showtimes!RotationInit => KeysTyped
<1> SUFFICES ASSUME Showtimes!RotationInit PROVE KeysTyped
  OBVIOUS
<1> USE KeyConstants DEF Showtimes!Slot, Showtimes!Key, Showtimes!RotationInit
<1>1. CallTypeOK
  <2>1. PICK free : free = Showtimes!NoCall
    OBVIOUS
  <2>2. free \in [step : CallSteps, todo : SUBSET Offers] /\ free.step = "idle"
    BY <2>1 DEF Showtimes!NoCall, CallSteps
  <2> QED BY <2>1, <2>2 DEF CallTypeOK
<1>2. SlotTypeOK
  BY DEF SlotTypeOK, Showtimes!NoRow
<1>3. PoolTypeOK
  BY DEF PoolTypeOK
<1> QED BY <1>1, <1>2, <1>3 DEF KeysTyped

LEMMA CallChanges ==
  ASSUME CallTypeOK, NEW c \in ShowtimeBatches, NEW step \in CallSteps, NEW todo \in SUBSET Offers,
         step \in {"trying", "marking"} => todo # {},
         call' = [call EXCEPT ![c] = [step |-> step, todo |-> todo]]
  PROVE  CallTypeOK'
<1>1. PICK new : new = [step |-> step, todo |-> todo]
  OBVIOUS
<1>2. new \in [step : CallSteps, todo : SUBSET Offers] /\ new.step = step /\ new.todo = todo
  BY <1>1
<1>3. call' = [call EXCEPT ![c] = new]
  BY <1>1
<1> QED BY <1>2, <1>3 DEF CallTypeOK

\* A search of one batch, and what goes on around the keys.
LEMMA KeysMove ==
  ASSUME KeysTyped,
         \/ \E c \in ShowtimeBatches : Showtimes!Select(c) \/ Showtimes!Try(c) \/ Showtimes!Mark(c) \/ Showtimes!Return(c)
         \/ Showtimes!Surroundings
  PROVE  KeysTyped'
<1> USE DEF Showtimes!Slot, Showtimes!Key
<1>1. /\ CallTypeOK /\ SlotTypeOK /\ PoolTypeOK
      /\ KeySlots \in Nat \ {0} /\ Cooldown \in Nat \ {0} /\ ProviderKeys \in Nat \ {0}
  BY KeyConstants DEF KeysTyped
<1>3. ASSUME NEW c \in ShowtimeBatches, Showtimes!Select(c)
      PROVE  KeysTyped'
  <2>1. Showtimes!Candidates \subseteq Offers
    <3> SUFFICES ASSUME NEW s \in 1 .. KeySlots
                 PROVE  [slot |-> s, key |-> config[s]] \in Offers
      BY <1>1 DEF Showtimes!Candidates
    <3> QED BY <1>1 DEF PoolTypeOK, Offers
  <2>2. PICK step : step = IF Showtimes!Candidates = {} THEN "exhausted" ELSE "trying"
    OBVIOUS
  <2>3. call' = [call EXCEPT ![c] = [step |-> step, todo |-> Showtimes!Candidates]]
    BY <1>3, <2>2 DEF Showtimes!Select, Showtimes!CallOf
  <2>4. step \in CallSteps /\ (step \in {"trying", "marking"} => Showtimes!Candidates # {})
    BY <2>2 DEF CallSteps
  <2>5. CallTypeOK'
    BY <1>1, <2>1, <2>3, <2>4, CallChanges
  <2>6. SlotTypeOK' /\ PoolTypeOK'
    BY <1>1, <1>3 DEF Showtimes!Select, SlotTypeOK, PoolTypeOK
  <2> QED BY <2>5, <2>6 DEF KeysTyped
<1>4. ASSUME NEW c \in ShowtimeBatches, Showtimes!Try(c)
      PROVE  KeysTyped'
  <2>1. PICK outcome \in {"answer", "error", "marking"} : call' = [call EXCEPT ![c].step = outcome]
    BY <1>4 DEF Showtimes!Try
  <2>2. PICK t : t = call[c]
    OBVIOUS
  <2>3. t \in [step : CallSteps, todo : SUBSET Offers] /\ t.todo # {}
    BY <1>1, <1>4, <2>2 DEF CallTypeOK, Showtimes!Try
  <2>4. [t EXCEPT !.step = outcome] = [step |-> outcome, todo |-> t.todo]
    BY <2>3
  <2>5. call' = [call EXCEPT ![c] = [step |-> outcome, todo |-> t.todo]]
    BY <2>1, <2>2, <2>4
  <2>6. CallTypeOK'
    <3>1. outcome \in CallSteps /\ t.todo \in SUBSET Offers
      BY <2>1, <2>3 DEF CallSteps
    <3> QED BY <1>1, <2>3, <2>5, <3>1, CallChanges
  <2>7. SlotTypeOK' /\ PoolTypeOK'
    BY <1>1, <1>4 DEF Showtimes!Try, SlotTypeOK, PoolTypeOK
  <2> QED BY <2>6, <2>7 DEF KeysTyped
<1>5. ASSUME NEW c \in ShowtimeBatches, Showtimes!Return(c)
      PROVE  KeysTyped'
  <2>1. call' = [call EXCEPT ![c] = [step |-> "idle", todo |-> {}]]
    BY <1>5 DEF Showtimes!Return, Showtimes!NoCall
  <2>2. "idle" \in CallSteps /\ {} \in SUBSET Offers
    BY DEF CallSteps
  <2>3. CallTypeOK'
    BY <1>1, <2>1, <2>2, CallChanges
  <2>4. SlotTypeOK' /\ PoolTypeOK'
    BY <1>1, <1>5 DEF Showtimes!Return, SlotTypeOK, PoolTypeOK
  <2> QED BY <2>3, <2>4 DEF KeysTyped
<1>6. ASSUME NEW c \in ShowtimeBatches, Showtimes!Mark(c)
      PROVE  KeysTyped'
  <2>1. PICK k \in call[c].todo :
          /\ slot' = IF table THEN [slot EXCEPT ![k.slot] = Showtimes!MarkedRow(k.slot, k.key)] ELSE slot
          /\ call' = [call EXCEPT ![c] = Showtimes!CallOf(call[c].todo \ {k})]
          /\ refused' = [refused EXCEPT ![k.slot][k.key] = 0]
    BY <1>6 DEF Showtimes!Mark
  <2>2. /\ UNCHANGED <<config, table>>
        /\ dark' = [s \in 1 .. KeySlots |-> IF Showtimes!Cooling(s)' THEN dark[s] + 0 ELSE 0]
    BY <1>6 DEF Showtimes!Mark, Showtimes!KeepDark
  <2>3. call[c].todo \subseteq Offers
    BY <1>1 DEF CallTypeOK
  <2>4. PICK m, n : m = k.slot /\ n = k.key
    OBVIOUS
  <2>5. m \in 1 .. KeySlots /\ n \in 1 .. ProviderKeys
    BY <2>1, <2>3, <2>4 DEF Offers
  <2>6. PICK r : r = Showtimes!MarkedRow(m, n)
    OBVIOUS
  <2>7. /\ r \in [key : 1 .. ProviderKeys \cup {0}, age : 0 .. Cooldown]
        /\ r.key = n
        /\ r.age = IF slot[m].key # n \/ slot[m].age >= Cooldown THEN 0 ELSE slot[m].age
    <3>1. slot[m].age \in 0 .. Cooldown
      BY <1>1, <2>5 DEF SlotTypeOK
    <3> QED BY <1>1, <2>5, <2>6, <3>1 DEF Showtimes!MarkedRow
  <2>8. slot' = IF table THEN [slot EXCEPT ![m] = r] ELSE slot
    BY <2>1, <2>4, <2>6
  <2>9. /\ refused' \in [1 .. KeySlots -> [1 .. ProviderKeys -> 0 .. Cooldown]]
        /\ refused'[m][n] = 0
        /\ \A s \in 1 .. KeySlots : \A j \in 1 .. ProviderKeys : refused'[s][j] \in {0, refused[s][j]}
    <3>1. PICK f : f = [refused[m] EXCEPT ![n] = 0]
      OBVIOUS
    <3>2. f \in [1 .. ProviderKeys -> 0 .. Cooldown] /\ f[n] = 0 /\ \A j \in 1 .. ProviderKeys : f[j] \in {0, refused[m][j]}
      <4>1. refused[m] \in [1 .. ProviderKeys -> 0 .. Cooldown] /\ 0 \in 0 .. Cooldown
        BY <1>1, <2>5, SMTT(30) DEF PoolTypeOK
      <4> QED BY <2>5, <3>1, <4>1
    <3>3. refused' = [refused EXCEPT ![m] = f]
      BY <2>1, <2>4, <3>1
    <3> QED BY <1>1, <2>5, <3>2, <3>3 DEF PoolTypeOK
  <2>10. SlotTypeOK'
    BY <1>1, <2>5, <2>7, <2>8 DEF SlotTypeOK
  <2>11. PoolTypeOK'
    <3>1. \A s \in 1 .. KeySlots : dark[s] \in Nat
      BY <1>1 DEF PoolTypeOK
    <3>2. \A s \in 1 .. KeySlots : dark[s] + 0 \in Nat
      BY <3>1
    <3>3. dark' \in [1 .. KeySlots -> Nat]
      BY <2>2, <3>2
    <3> QED BY <1>1, <2>2, <2>9, <3>3 DEF PoolTypeOK
  <2>12. CallTypeOK'
    <3>1. PICK rest : rest = call[c].todo \ {k}
      OBVIOUS
    <3>2. PICK step : step = IF rest = {} THEN "exhausted" ELSE "trying"
      OBVIOUS
    <3>3. call' = [call EXCEPT ![c] = [step |-> step, todo |-> rest]]
      BY <2>1, <3>1, <3>2 DEF Showtimes!CallOf
    <3>4. step \in CallSteps /\ rest \in SUBSET Offers /\ (step \in {"trying", "marking"} => rest # {})
      BY <2>3, <3>1, <3>2 DEF CallSteps
    <3> QED BY <1>1, <3>3, <3>4, CallChanges
  <2> QED BY <2>10, <2>11, <2>12 DEF KeysTyped
<1>7. ASSUME Showtimes!Tick
      PROVE  KeysTyped'
  <2>1. \A age \in 0 .. Cooldown : Showtimes!Older(age) \in 0 .. Cooldown
    BY <1>1 DEF Showtimes!Older
  <2>2. \A s \in 1 .. KeySlots : slot'[s] = [slot[s] EXCEPT !.age = Showtimes!Older(slot[s].age)]
    BY <1>7 DEF Showtimes!Tick
  <2>3. \A s \in 1 .. KeySlots :
          slot'[s] \in [key : 1 .. ProviderKeys \cup {0}, age : 0 .. Cooldown]
          /\ slot'[s].key = slot[s].key /\ slot'[s].age = Showtimes!Older(slot[s].age)
    <3> SUFFICES ASSUME NEW s \in 1 .. KeySlots
                 PROVE  /\ slot'[s] \in [key : 1 .. ProviderKeys \cup {0}, age : 0 .. Cooldown]
                        /\ slot'[s].key = slot[s].key /\ slot'[s].age = Showtimes!Older(slot[s].age)
      OBVIOUS
    <3>1. PICK r \in [key : 1 .. ProviderKeys \cup {0}, age : 0 .. Cooldown] : r = slot[s]
      BY <1>1 DEF SlotTypeOK
    <3>2. PICK a \in 0 .. Cooldown : a = Showtimes!Older(slot[s].age)
      BY <2>1, <3>1
    <3>3. slot'[s] = [r EXCEPT !.age = a]
      BY <2>2, <3>1, <3>2
    <3> QED BY <3>1, <3>2, <3>3
  <2>4. \A s \in 1 .. KeySlots : \A k \in 1 .. ProviderKeys :
          refused'[s][k] = Showtimes!Older(refused[s][k]) /\ refused[s][k] \in 0 .. Cooldown
    BY <1>1, <1>7 DEF Showtimes!Tick, PoolTypeOK
  <2>5. /\ UNCHANGED <<config, table, call>>
        /\ dark' = [s \in 1 .. KeySlots |-> IF Showtimes!Cooling(s)' THEN dark[s] + 1 ELSE 0]
    BY <1>7 DEF Showtimes!Tick, Showtimes!KeepDark
  <2>6. SlotTypeOK' /\ CallTypeOK' /\ PoolTypeOK'
    <3>1. SlotTypeOK'
      BY <1>7, <2>3 DEF Showtimes!Tick, SlotTypeOK
    <3>2. refused' \in [1 .. KeySlots -> [1 .. ProviderKeys -> 0 .. Cooldown]]
      BY <1>1, <1>7, <2>1 DEF PoolTypeOK, Showtimes!Tick
    <3>3. dark' \in [1 .. KeySlots -> Nat]
      <4>1. \A s \in 1 .. KeySlots : dark[s] \in Nat
        BY <1>1 DEF PoolTypeOK
      <4>2. \A s \in 1 .. KeySlots : dark[s] + 1 \in Nat
        BY <4>1
      <4> QED BY <2>5, <4>2
    <3> QED BY <1>1, <2>5, <3>1, <3>2, <3>3 DEF PoolTypeOK, CallTypeOK
  <2> QED BY <2>6 DEF KeysTyped
<1>8. ASSUME NEW s \in 1 .. KeySlots, Showtimes!SwapKey(s)
      PROVE  KeysTyped'
  <2>1. PICK k \in (1 .. ProviderKeys) \ {config[s]} : config' = [config EXCEPT ![s] = k]
    BY <1>8 DEF Showtimes!SwapKey
  <2>2. /\ UNCHANGED <<slot, table, call, refused>>
        /\ dark' = [u \in 1 .. KeySlots |-> IF Showtimes!Cooling(u)' THEN dark[u] + 0 ELSE 0]
    BY <1>8 DEF Showtimes!SwapKey, Showtimes!KeepDark
  <2>3. SlotTypeOK' /\ CallTypeOK' /\ PoolTypeOK'
    <3>1. config' \in [1 .. KeySlots -> 1 .. ProviderKeys]
      BY <1>1, <2>1 DEF PoolTypeOK
    <3>2. dark' \in [1 .. KeySlots -> Nat]
      BY <1>1, <2>2 DEF PoolTypeOK
    <3> QED BY <1>1, <2>2, <3>1, <3>2 DEF PoolTypeOK, CallTypeOK, SlotTypeOK
  <2> QED BY <2>3 DEF KeysTyped
<1>9. ASSUME Showtimes!Migrate
      PROVE  KeysTyped'
  <2>1. SlotTypeOK' /\ CallTypeOK' /\ PoolTypeOK'
    BY <1>1, <1>9 DEF Showtimes!Migrate, SlotTypeOK, CallTypeOK, PoolTypeOK
  <2> QED BY <2>1 DEF KeysTyped
<1> QED BY <1>3, <1>4, <1>5, <1>6, <1>7, <1>8, <1>9 DEF Showtimes!Surroundings

\* An error drops the search of a batch.
LEMMA KeysDrop ==
  ASSUME KeysTyped, NEW b \in ShowtimeBatches, call' = [call EXCEPT ![b] = Showtimes!NoCall],
         UNCHANGED <<config, slot, table, refused, dark>>
  PROVE  KeysTyped'
<1>1. call' = [call EXCEPT ![b] = [step |-> "idle", todo |-> {}]]
  BY DEF Showtimes!NoCall
<1>2. "idle" \in CallSteps /\ {} \in SUBSET Offers
  BY DEF CallSteps
<1>3. CallTypeOK'
  BY <1>1, <1>2, CallChanges DEF KeysTyped
<1> QED BY <1>3 DEF KeysTyped, SlotTypeOK, PoolTypeOK

LEMMA KeysRest == KeysTyped /\ UNCHANGED <<config, slot, table, call, refused, dark>> => KeysTyped'
BY DEF KeysTyped, CallTypeOK, SlotTypeOK, PoolTypeOK

LEMMA KeysStep ==
  ASSUME KeysTyped, Showtimes!Next
  PROVE  KeysTyped'
<1>1. CASE \E b \in ShowtimeBatches : Showtimes!Search(b)
  <2>1. PICK b \in ShowtimeBatches : Showtimes!Search(b)
    BY <1>1
  <2>2. Showtimes!Select(b) \/ Showtimes!Try(b) \/ Showtimes!Mark(b) \/ Showtimes!Return(b)
    BY <2>1 DEF Showtimes!Search, Showtimes!Ask, Showtimes!TryKey, Showtimes!MarkKey, Showtimes!Answer, Showtimes!Exhausted
  <2> QED BY <2>2, KeysMove
<1>2. CASE Showtimes!Surroundings
  BY <1>2, KeysMove
<1>3. CASE \E b \in ShowtimeBatches : Showtimes!Fails(b) \/ Showtimes!Killed(b)
  BY <1>3, KeysDrop DEF Showtimes!Fails, Showtimes!Killed
<1>4. CASE Showtimes!Dispatch \/ Showtimes!Finalize \/ Showtimes!DispatchFails \/ Showtimes!FinalizeFails
  <2>1. UNCHANGED Showtimes!rotationVars
    BY <1>4 DEF Showtimes!Dispatch, Showtimes!Finalize, Showtimes!DispatchMark, Showtimes!CountMissing,
                Showtimes!StoreMissing, Showtimes!Publish, Showtimes!DispatchFails, Showtimes!FinalizeStart,
                Showtimes!FinalizeWrite, Showtimes!FinalizeComplete, Showtimes!FinalizeFails
  <2> QED BY <2>1, KeysRest DEF Showtimes!rotationVars
<1>5. CASE \E b \in ShowtimeBatches : \/ Showtimes!Read(b) \/ Showtimes!Acquire(b) \/ Showtimes!Decide(b)
                                      \/ Showtimes!SiteCheck(b) \/ Showtimes!SiteBreaks(b) \/ Showtimes!Write(b)
                                      \/ Showtimes!Lapse(b) \/ Showtimes!AcquireOpen(b)
  <2>1. UNCHANGED Showtimes!rotationVars
    BY <1>5 DEF Showtimes!Read, Showtimes!Acquire, Showtimes!Decide, Showtimes!SiteCheck, Showtimes!SiteBreaks,
                Showtimes!Write, Showtimes!Lapse, Showtimes!AcquireOpen, Showtimes!Store, Showtimes!Bump, Showtimes!Record, Showtimes!Judge,
                Showtimes!MarkAborted, Showtimes!Release
  <2> QED BY <2>1, KeysRest DEF Showtimes!rotationVars
<1> QED BY <1>1, <1>2, <1>3, <1>4, <1>5
        DEF Showtimes!Next, Showtimes!Faulty, Showtimes!ProcessBatch, Showtimes!Batches

StoredMarks == [verdict : Showtimes!Verdicts \cup {"none"}, site : Showtimes!Verdicts]

\* What ShowtimesTyped leaves open.
AskedOK == \A b \in ShowtimeBatches : batch[b].asked \in 0 .. Ladder
RowsOK == \A r \in Showings : result[r] \in StoredMarks /\ output[r] \in StoredMarks
LimitsOK ==
  /\ job.failures \in 0 .. AbortAfter
  /\ skewed \cup astray \subseteq ShowtimeBatches
  /\ faults \in 0 .. ShowtimeFaults
ShowtimesRest == service = "showtimes" => KeysTyped /\ AskedOK /\ RowsOK /\ LimitsOK

LEMMA LimitConstants == Ladder \in 0 .. 3 /\ AbortAfter \in Nat \ {0} /\ ShowtimeFaults \in Nat
BY SideAssumption DEF SideAssumption, Showtimes!JobAssumption

LEMMA MarksAreKept ==
  /\ Showtimes!Unsure \in StoredMarks /\ Showtimes!NotStored \in StoredMarks
  /\ \A m \in Marks : m \in StoredMarks
BY DEF Showtimes!Unsure, Showtimes!NotStored, StoredMarks, Marks, Showtimes!Verdicts

LEMMA RestStart == Init => ShowtimesRest
<1> SUFFICES ASSUME Init, service = "showtimes"
             PROVE  KeysTyped /\ AskedOK /\ RowsOK /\ LimitsOK
  BY DEF ShowtimesRest
<1>1. Showtimes!Init
  BY DEF Init
<1>2. KeysTyped
  BY <1>1, KeysStart DEF Showtimes!Init
<1>3. AskedOK
  <2>1. \A b \in ShowtimeBatches : batch[b] = Showtimes!NewBatch(b)
    BY <1>1 DEF Showtimes!Init, Showtimes!Batches
  <2>2. ASSUME NEW b \in ShowtimeBatches
        PROVE  batch[b].asked = 0
    <3>1. PICK rows, tally : rows = Showtimes!NoVerdicts(b) /\ tally = Showtimes!NoTally
      OBVIOUS
    <3>2. batch[b] = [step |-> "waiting", path |-> "normal", asked |-> 0, ok |-> FALSE,
                      rows |-> rows, tally |-> tally, holder |-> "none"]
      BY <2>1, <3>1 DEF Showtimes!NewBatch
    <3> QED BY <3>2
  <2>3. 0 \in 0 .. Ladder
    BY LimitConstants
  <2> QED BY <2>2, <2>3 DEF AskedOK
<1>4. RowsOK
  BY <1>1, MarksAreKept DEF Showtimes!Init, RowsOK
<1>5. LimitsOK
  <2>1. job.failures = 0 /\ skewed = {} /\ astray = {} /\ faults = 0
    BY <1>1 DEF Showtimes!Init
  <2> QED BY <2>1, LimitConstants DEF LimitsOK
<1> QED BY <1>2, <1>3, <1>4, <1>5

\* The queries a batch has asked: only a further one of the ladder counts.
LEMMA AskedMoves ==
  ASSUME ShowtimesBody, AskedOK, Showtimes!Next
  PROVE  AskedOK'
<1>1. /\ batch \in [ShowtimeBatches -> BatchTasks]
      /\ \A b \in ShowtimeBatches : batch[b].asked \in 0 .. Ladder
  BY DEF ShowtimesBody, ShowtimesTyped, AskedOK
<1>2. ASSUME NEW b \in ShowtimeBatches, NEW new, new.asked \in 0 .. Ladder, batch' = [batch EXCEPT ![b] = new]
      PROVE  AskedOK'
  BY <1>1, <1>2 DEF AskedOK
<1>3. ASSUME NEW b \in ShowtimeBatches, NEW step, Showtimes!Go(b, step)
      PROVE  AskedOK'
  <2>1. PICK new : new = [batch[b] EXCEPT !.step = step]
    OBVIOUS
  <2>2. new.asked = batch[b].asked
    BY <1>1, <2>1 DEF BatchTasks
  <2>3. batch' = [batch EXCEPT ![b] = new]
    BY <1>3, <2>1 DEF Showtimes!Go
  <2> QED BY <1>1, <1>2, <2>2, <2>3
<1>4. ASSUME NEW b \in ShowtimeBatches, batch' = [batch EXCEPT ![b] = Showtimes!OnError(b)]
      PROVE  AskedOK'
  <2>1. PICK new : new = Showtimes!OnError(b)
    OBVIOUS
  <2>2. new.asked = batch[b].asked
    BY <1>1, <2>1 DEF Showtimes!OnError, Showtimes!Rescued, BatchTasks
  <2> QED BY <1>1, <1>2, <1>4, <2>1, <2>2
<1>5. CASE Showtimes!Dispatch \/ Showtimes!Finalize \/ Showtimes!DispatchFails \/ Showtimes!FinalizeFails
  <2>1. CASE UNCHANGED batch
    BY <1>1, <2>1 DEF AskedOK
  <2>2. CASE Showtimes!Publish
    <3>1. \A b \in ShowtimeBatches : batch'[b] = [batch[b] EXCEPT !.step = "queued"]
      BY <2>2 DEF Showtimes!Publish, Showtimes!Batches
    <3>2. \A b \in ShowtimeBatches : batch'[b].asked = batch[b].asked
      BY <1>1, <3>1 DEF BatchTasks
    <3> QED BY <1>1, <3>2 DEF AskedOK
  <2>3. CASE Showtimes!DispatchFails
    <3>1. PICK some : batch' = [b \in ShowtimeBatches |-> IF b \in some THEN [batch[b] EXCEPT !.step = "queued"]
                                                          ELSE batch[b]]
      BY <2>3 DEF Showtimes!DispatchFails, Showtimes!Batches
    <3>2. \A b \in ShowtimeBatches : batch'[b].asked = batch[b].asked
      BY <1>1, <3>1 DEF BatchTasks
    <3> QED BY <1>1, <3>2 DEF AskedOK
  <2> QED BY <1>5, <2>1, <2>2, <2>3
          DEF Showtimes!Dispatch, Showtimes!Finalize, Showtimes!DispatchMark, Showtimes!CountMissing,
              Showtimes!StoreMissing, Showtimes!FinalizeStart, Showtimes!FinalizeWrite,
              Showtimes!FinalizeComplete, Showtimes!FinalizeFails
<1>6. ASSUME NEW b \in ShowtimeBatches, Showtimes!Search(b)
      PROVE  AskedOK'
  <2>1. CASE Showtimes!Ask(b) \/ Showtimes!TryKey(b) \/ Showtimes!MarkKey(b)
    <3>1. UNCHANGED batch
      BY <2>1 DEF Showtimes!Ask, Showtimes!TryKey, Showtimes!MarkKey, Showtimes!jobVars
    <3> QED BY <1>1, <3>1 DEF AskedOK
  <2>2. CASE Showtimes!Exhausted(b)
    <3>1. PICK new : new = [batch[b] EXCEPT !.step = "abort", !.path = "exhausted"]
      OBVIOUS
    <3>2. new.asked = batch[b].asked
      BY <1>1, <3>1 DEF BatchTasks
    <3>3. batch' = [batch EXCEPT ![b] = new]
      BY <2>2, <3>1 DEF Showtimes!Exhausted
    <3> QED BY <1>1, <1>2, <3>2, <3>3
  <2>3. CASE Showtimes!Answer(b)
    <3>1. PICK got \in {"listing", "retryable", "miss"} :
            LET again == IF batch[b].asked = 0 THEN got = "retryable" /\ Ladder > 0
                         ELSE got # "listing" /\ batch[b].asked < Ladder
            IN batch' = [batch EXCEPT ![b].asked = IF again THEN @ + 1 ELSE @,
                                      ![b].ok = got = "listing",
                                      ![b].step = IF again THEN @ ELSE "decide"]
      BY <2>3, Zenon DEF Showtimes!Answer
    <3>2. PICK again \in BOOLEAN :
            again = IF batch[b].asked = 0 THEN got = "retryable" /\ Ladder > 0
                    ELSE got # "listing" /\ batch[b].asked < Ladder
      OBVIOUS
    <3>3. PICK asked, ok, step : /\ asked = IF again THEN batch[b].asked + 1 ELSE batch[b].asked
                                 /\ ok = (got = "listing")
                                 /\ step = IF again THEN batch[b].step ELSE "decide"
      OBVIOUS
    <3>4. PICK new : new = [batch[b] EXCEPT !.asked = asked, !.ok = ok, !.step = step]
      OBVIOUS
    <3>5. new.asked = asked
      BY <1>1, <3>4 DEF BatchTasks
    <3>6. asked \in 0 .. Ladder
      <4>1. batch[b].asked \in 0 .. Ladder
        BY <1>1
      <4>2. again => batch[b].asked < Ladder
        BY <3>2, <4>1
      <4> QED BY <3>3, <4>1, <4>2, LimitConstants
    <3>7. batch' = [batch EXCEPT ![b] = new]
      BY <1>1, <3>1, <3>2, <3>3, <3>4
    <3> QED BY <1>2, <3>5, <3>6, <3>7
  <2> QED BY <1>6, <2>1, <2>2, <2>3 DEF Showtimes!Search
<1>7. ASSUME NEW b \in ShowtimeBatches, Showtimes!Write(b)
      PROVE  AskedOK'
  <2>1. CASE Showtimes!Release(b)
    <3>1. PICK step : step = IF batch[b].step = "failing" THEN "raised" ELSE "done"
      OBVIOUS
    <3>2. PICK new : new = [batch[b] EXCEPT !.step = step, !.holder = "none"]
      OBVIOUS
    <3>3. new.asked = batch[b].asked
      BY <1>1, <3>2 DEF BatchTasks
    <3>4. batch' = [batch EXCEPT ![b] = new]
      BY <1>1, <2>1, <3>1, <3>2 DEF Showtimes!Release
    <3> QED BY <1>1, <1>2, <3>3, <3>4
  <2>2. CASE Showtimes!MarkAborted(b)
    <3>1. PICK new : new = [batch[b] EXCEPT !.step = "store", !.rows = Showtimes!Undetermined(b)]
      OBVIOUS
    <3>2. new.asked = batch[b].asked
      BY <1>1, <3>1 DEF BatchTasks
    <3>3. Showtimes!Go(b, "release") \/ batch' = [batch EXCEPT ![b] = new]
      BY <2>2, <3>1 DEF Showtimes!MarkAborted
    <3> QED BY <1>1, <1>2, <1>3, <3>2, <3>3
  <2> QED BY <1>3, <1>7, <2>1, <2>2
          DEF Showtimes!Write, Showtimes!Store, Showtimes!Bump, Showtimes!Record, Showtimes!Judge
<1>8. ASSUME NEW b \in ShowtimeBatches, Showtimes!Read(b)
      PROVE  AskedOK'
  <2>1. PICK step, path : batch' = [batch EXCEPT ![b].step = step, ![b].path = path]
    BY <1>8 DEF Showtimes!Read
  <2>2. PICK new : new = [batch[b] EXCEPT !.step = step, !.path = path]
    OBVIOUS
  <2>3. new.asked = batch[b].asked
    BY <1>1, <2>2 DEF BatchTasks
  <2>4. batch' = [batch EXCEPT ![b] = new]
    BY <1>1, <2>1, <2>2
  <2> QED BY <1>1, <1>2, <2>3, <2>4
<1>9. ASSUME NEW b \in ShowtimeBatches,
             \/ Showtimes!Acquire(b) /\ ~(batch' = [batch EXCEPT ![b] = Showtimes!OnError(b)])
             \/ Showtimes!AcquireOpen(b) \/ Showtimes!Lapse(b)
      PROVE  AskedOK'
  <2>1. PICK step, holder : batch' = [batch EXCEPT ![b].step = step, ![b].holder = holder]
    <3>1. CASE Showtimes!Lapse(b)
      <4>1. batch' = [batch EXCEPT ![b].holder = "lapsed"]
        BY <3>1 DEF Showtimes!Lapse
      <4>2. batch' = [batch EXCEPT ![b].step = batch[b].step, ![b].holder = "lapsed"]
        BY <1>1, <4>1 DEF BatchTasks
      <4> QED BY <4>2
    <3> QED BY <1>9, <3>1 DEF Showtimes!Acquire, Showtimes!AcquireOpen
  <2>2. PICK new : new = [batch[b] EXCEPT !.step = step, !.holder = holder]
    OBVIOUS
  <2>3. new.asked = batch[b].asked
    BY <1>1, <2>2 DEF BatchTasks
  <2>4. batch' = [batch EXCEPT ![b] = new]
    BY <1>1, <2>1, <2>2
  <2> QED BY <1>1, <1>2, <2>3, <2>4
<1>10. ASSUME NEW b \in ShowtimeBatches,
              Showtimes!Decide(b) \/ Showtimes!SiteCheck(b) \/ Showtimes!SiteBreaks(b)
       PROVE  AskedOK'
  <2>1. PICK step, tally, rows : batch' = [batch EXCEPT ![b].step = step, ![b].tally = tally, ![b].rows = rows]
    <3>1. CASE Showtimes!Decide(b)
      <4>1. PICK rows : batch' = [batch EXCEPT ![b].step = "site", ![b].rows = rows]
        BY <3>1 DEF Showtimes!Decide
      <4>2. batch' = [batch EXCEPT ![b].step = "site", ![b].tally = batch[b].tally, ![b].rows = rows]
        BY <1>1, <4>1 DEF BatchTasks
      <4> QED BY <4>2
    <3>2. CASE Showtimes!SiteCheck(b)
      <4>1. PICK site \in [ShowingsOf[b] -> SiteSays] :
              batch' = [batch EXCEPT ![b].step = "store", ![b].tally = Showtimes!Tally(site, ShowingsOf[b]),
                          ![b].rows = [r \in ShowingsOf[b] |->
                            [verdict |-> Showtimes!Overruled(batch[b].rows[r].verdict, site[r]), site |-> site[r]]]]
        BY <3>2 DEF Showtimes!SiteCheck
      <4>2. PICK rows, tally :
              /\ tally = Showtimes!Tally(site, ShowingsOf[b])
              /\ rows = [r \in ShowingsOf[b] |->
                          [verdict |-> Showtimes!Overruled(batch[b].rows[r].verdict, site[r]), site |-> site[r]]]
        OBVIOUS
      <4>3. batch' = [batch EXCEPT ![b].step = "store", ![b].tally = tally, ![b].rows = rows]
        BY <4>1, <4>2
      <4> QED BY <4>3
    <3>3. CASE Showtimes!SiteBreaks(b)
      <4>1. PICK site \in [ShowingsOf[b] -> SiteSays], some \in SUBSET ShowingsOf[b] :
              \E tallied \in {some} \cup {some \ {r} : r \in some} :
                batch' = [batch EXCEPT ![b].step = "store", ![b].tally = Showtimes!Tally(site, tallied),
                            ![b].rows = [r \in ShowingsOf[b] |->
                              [batch[b].rows[r] EXCEPT !.verdict =
                                 IF r \in some THEN Showtimes!Overruled(@, site[r]) ELSE @]]]
        BY <3>3 DEF Showtimes!SiteBreaks
      <4>2. PICK rows : rows = [r \in ShowingsOf[b] |->
                                 [batch[b].rows[r] EXCEPT !.verdict =
                                    IF r \in some THEN Showtimes!Overruled(@, site[r]) ELSE @]]
        OBVIOUS
      <4>3. \E tally : batch' = [batch EXCEPT ![b].step = "store", ![b].tally = tally, ![b].rows = rows]
        BY <4>1, <4>2
      <4> QED BY <4>3
    <3> QED BY <1>10, <3>1, <3>2, <3>3
  <2>2. PICK new : new = [batch[b] EXCEPT !.step = step, !.tally = tally, !.rows = rows]
    OBVIOUS
  <2>3. new.asked = batch[b].asked
    BY <1>1, <2>2 DEF BatchTasks
  <2>4. batch' = [batch EXCEPT ![b] = new]
    BY <1>1, <2>1, <2>2
  <2> QED BY <1>1, <1>2, <2>3, <2>4
<1>11. CASE Showtimes!Surroundings /\ UNCHANGED Showtimes!jobVars
  BY <1>1, <1>11 DEF AskedOK, Showtimes!jobVars
<1>12. CASE \E b \in ShowtimeBatches : Showtimes!Acquire(b) \/ Showtimes!Fails(b) \/ Showtimes!Killed(b)
  BY <1>3, <1>4, <1>9, <1>12 DEF Showtimes!Fails, Showtimes!Killed
<1> QED BY <1>5, <1>6, <1>7, <1>8, <1>9, <1>10, <1>11, <1>12
        DEF Showtimes!Next, Showtimes!Faulty, Showtimes!ProcessBatch, Showtimes!Batches

\* What is stored and reported of a row is a pair of verdicts, or nothing.
LEMMA RowsMove ==
  ASSUME ShowtimesBody, RowsOK, Showtimes!Next
  PROVE  RowsOK'
<1>1. /\ \A r \in Showings : result[r] \in StoredMarks /\ output[r] \in StoredMarks
      /\ \A b \in ShowtimeBatches : \A r \in ShowingsOf[b] : batch[b].rows[r] \in StoredMarks
  BY MarksAreKept DEF RowsOK, ShowtimesBody, ShowtimesTyped
<1>2. CASE UNCHANGED <<result, output>>
  BY <1>1, <1>2 DEF RowsOK
<1>3. CASE Showtimes!StoreMissing \/ Showtimes!FinalizeStart \/ Showtimes!FinalizeWrite \/ Showtimes!FinalizeComplete
  BY <1>1, <1>3, MarksAreKept
     DEF RowsOK, Showtimes!StoreMissing, Showtimes!FinalizeStart, Showtimes!FinalizeWrite, Showtimes!FinalizeComplete
<1>4. ASSUME NEW b \in ShowtimeBatches, Showtimes!Store(b)
      PROVE  RowsOK'
  BY <1>1, <1>4 DEF RowsOK, Showtimes!Store
<1>5. ASSUME NEW b \in ShowtimeBatches, Showtimes!Fails(b)
      PROVE  RowsOK'
  <2>1. PICK some \in SUBSET ShowingsOf[b] :
          result' = [r \in Showings |-> IF r \in some THEN batch[b].rows[r] ELSE result[r]]
    BY <1>5 DEF Showtimes!Fails
  <2>2. output' = output
    BY <1>5 DEF Showtimes!Fails
  <2> QED BY <1>1, <2>1, <2>2 DEF RowsOK
<1>6. CASE Showtimes!DispatchMark \/ Showtimes!CountMissing \/ Showtimes!Publish \/ Showtimes!DispatchFails
           \/ Showtimes!FinalizeFails
  BY <1>2, <1>6 DEF Showtimes!DispatchMark, Showtimes!CountMissing, Showtimes!Publish, Showtimes!DispatchFails,
                    Showtimes!FinalizeFails
<1>7. ASSUME NEW b \in ShowtimeBatches,
             \/ Showtimes!Read(b) \/ Showtimes!Acquire(b) \/ Showtimes!Search(b) \/ Showtimes!Decide(b)
             \/ Showtimes!SiteCheck(b) \/ Showtimes!SiteBreaks(b)
             \/ Showtimes!Lapse(b) \/ Showtimes!AcquireOpen(b) \/ Showtimes!Killed(b)
      PROVE  RowsOK'
  BY <1>2, <1>7 DEF Showtimes!Read, Showtimes!Acquire, Showtimes!Search, Showtimes!Decide, Showtimes!SiteCheck,
                    Showtimes!SiteBreaks, Showtimes!Lapse, Showtimes!AcquireOpen, Showtimes!Killed, Showtimes!Ask, Showtimes!TryKey, Showtimes!MarkKey,
                    Showtimes!Answer, Showtimes!Exhausted, Showtimes!jobVars
<1>8. ASSUME NEW b \in ShowtimeBatches,
             \/ Showtimes!Bump(b) \/ Showtimes!Record(b) \/ Showtimes!Judge(b) \/ Showtimes!MarkAborted(b)
             \/ Showtimes!Release(b)
      PROVE  RowsOK'
  BY <1>2, <1>8 DEF Showtimes!Bump, Showtimes!Record, Showtimes!Judge, Showtimes!MarkAborted, Showtimes!Release
<1>9. CASE Showtimes!Surroundings /\ UNCHANGED Showtimes!jobVars
  BY <1>2, <1>9 DEF Showtimes!jobVars
<1> QED BY <1>3, <1>4, <1>5, <1>6, <1>7, <1>8, <1>9
        DEF Showtimes!Next, Showtimes!Dispatch, Showtimes!Finalize, Showtimes!Faulty, Showtimes!ProcessBatch,
            Showtimes!Write, Showtimes!Batches

\* The failures in a row stop at the limit, the faults at the bound.
LEMMA LimitsMove ==
  ASSUME ShowtimesBody, LimitsOK, Showtimes!Next
  PROVE  LimitsOK'
<1>1. /\ job \in ShowtimeJobs /\ job.failures \in 0 .. AbortAfter
      /\ skewed \cup astray \subseteq ShowtimeBatches /\ faults \in 0 .. ShowtimeFaults
  BY DEF ShowtimesBody, ShowtimesTyped, LimitsOK
<1>2. faults' \in 0 .. ShowtimeFaults
  <2>1. CASE Showtimes!DispatchFails \/ Showtimes!FinalizeFails
             \/ \E b \in ShowtimeBatches : \/ Showtimes!AcquireOpen(b) \/ Showtimes!SiteBreaks(b)
                                           \/ Showtimes!Fails(b) \/ Showtimes!Killed(b)
    <3>1. Showtimes!Fault
      BY <2>1 DEF Showtimes!DispatchFails, Showtimes!FinalizeFails, Showtimes!AcquireOpen, Showtimes!SiteBreaks,
                  Showtimes!Fails, Showtimes!Killed
    <3> QED BY <1>1, <3>1, LimitConstants DEF Showtimes!Fault
  <2>2. CASE ~(Showtimes!DispatchFails \/ Showtimes!FinalizeFails
               \/ \E b \in ShowtimeBatches : \/ Showtimes!AcquireOpen(b) \/ Showtimes!SiteBreaks(b)
                                             \/ Showtimes!Fails(b) \/ Showtimes!Killed(b))
    <3>1. CASE Showtimes!Dispatch \/ Showtimes!Finalize \/ (Showtimes!Surroundings /\ UNCHANGED Showtimes!jobVars)
      <4>1. faults' = faults
        BY <3>1 DEF Showtimes!Dispatch, Showtimes!Finalize, Showtimes!DispatchMark, Showtimes!CountMissing,
                    Showtimes!StoreMissing, Showtimes!Publish, Showtimes!FinalizeStart, Showtimes!FinalizeWrite,
                    Showtimes!FinalizeComplete, Showtimes!jobVars
      <4> QED BY <1>1, <4>1
    <3>2. ASSUME NEW b \in ShowtimeBatches, Showtimes!ProcessBatch(b) \/ Showtimes!Lapse(b)
          PROVE  faults' = faults
      <4>1. CASE Showtimes!Search(b)
        BY <4>1 DEF Showtimes!Search, Showtimes!Ask, Showtimes!TryKey, Showtimes!MarkKey, Showtimes!Answer,
                    Showtimes!Exhausted, Showtimes!jobVars
      <4>2. CASE Showtimes!Write(b)
        BY <4>2 DEF Showtimes!Write, Showtimes!Store, Showtimes!Bump, Showtimes!Record, Showtimes!Judge,
                    Showtimes!MarkAborted, Showtimes!Release
      <4> QED BY <3>2, <4>1, <4>2
              DEF Showtimes!ProcessBatch, Showtimes!Read, Showtimes!Acquire, Showtimes!Decide, Showtimes!SiteCheck,
                  Showtimes!Lapse
    <3> QED BY <1>1, <2>2, <3>1, <3>2 DEF Showtimes!Next, Showtimes!Faulty, Showtimes!Batches
  <2> QED BY <2>1, <2>2
<1>3. skewed' \cup astray' \subseteq ShowtimeBatches
  <2>1. CASE \E b \in ShowtimeBatches : Showtimes!Fails(b) \/ Showtimes!SiteBreaks(b)
    BY <1>1, <2>1 DEF Showtimes!Fails, Showtimes!SiteBreaks
  <2>2. ASSUME NEW b \in ShowtimeBatches,
               Showtimes!ProcessBatch(b) \/ Showtimes!Lapse(b) \/ Showtimes!AcquireOpen(b) \/ Showtimes!Killed(b)
        PROVE  UNCHANGED <<skewed, astray>>
    <3>1. CASE Showtimes!Search(b)
      BY <3>1 DEF Showtimes!Search, Showtimes!Ask, Showtimes!TryKey, Showtimes!MarkKey, Showtimes!Answer,
                  Showtimes!Exhausted, Showtimes!jobVars
    <3>2. CASE Showtimes!Write(b)
      BY <3>2 DEF Showtimes!Write, Showtimes!Store, Showtimes!Bump, Showtimes!Record, Showtimes!Judge,
                  Showtimes!MarkAborted, Showtimes!Release
    <3> QED BY <2>2, <3>1, <3>2
            DEF Showtimes!ProcessBatch, Showtimes!Read, Showtimes!Acquire, Showtimes!Decide, Showtimes!SiteCheck,
                Showtimes!Lapse, Showtimes!AcquireOpen, Showtimes!Killed
  <2>3. CASE Showtimes!Dispatch \/ Showtimes!Finalize \/ Showtimes!DispatchFails \/ Showtimes!FinalizeFails
             \/ (Showtimes!Surroundings /\ UNCHANGED Showtimes!jobVars)
    <3>1. UNCHANGED <<skewed, astray>>
      BY <2>3 DEF Showtimes!Dispatch, Showtimes!Finalize, Showtimes!DispatchMark, Showtimes!CountMissing,
                  Showtimes!StoreMissing, Showtimes!Publish, Showtimes!FinalizeStart, Showtimes!FinalizeWrite,
                  Showtimes!FinalizeComplete, Showtimes!DispatchFails, Showtimes!FinalizeFails, Showtimes!jobVars
    <3> QED BY <1>1, <3>1
  <2> QED BY <1>1, <2>1, <2>2, <2>3 DEF Showtimes!Next, Showtimes!Faulty, Showtimes!Batches
<1>4. job'.failures \in 0 .. AbortAfter
  <2>1. CASE UNCHANGED job
    BY <1>1, <2>1
  <2>2. CASE \E b \in ShowtimeBatches : Showtimes!Record(b)
    <3>1. PICK b \in ShowtimeBatches : Showtimes!Record(b)
      BY <2>2
    <3>2. PICK n : n = IF batch[b].ok THEN 0 ELSE IF job.failures < AbortAfter THEN job.failures + 1 ELSE job.failures
      OBVIOUS
    <3>3. job' = [job EXCEPT !.failures = n]
      BY <3>1, <3>2 DEF Showtimes!Record
    <3>4. job'.failures = n
      BY <1>1, <3>3 DEF ShowtimeJobs
    <3> QED BY <1>1, <3>2, <3>4, LimitConstants
  <2>3. CASE Showtimes!DispatchMark \/ Showtimes!DispatchFails \/ Showtimes!FinalizeStart \/ Showtimes!FinalizeComplete
             \/ \E b \in ShowtimeBatches : Showtimes!MarkAborted(b)
    <3>1. job'.failures = job.failures
      BY <1>1, <2>3 DEF Showtimes!DispatchMark, Showtimes!DispatchFails, Showtimes!FinalizeStart,
                        Showtimes!FinalizeComplete, Showtimes!MarkAborted, ShowtimeJobs
    <3> QED BY <1>1, <3>1
  <2>4. CASE Showtimes!CountMissing
    <3>1. PICK n, count : job' = [job EXCEPT !.processed = n, !.count["U"] = count]
      BY <2>4 DEF Showtimes!CountMissing
    <3>2. job'.failures = job.failures
      BY <1>1, <3>1 DEF ShowtimeJobs
    <3> QED BY <1>1, <3>2
  <2>5. CASE \E b \in ShowtimeBatches : Showtimes!Bump(b)
    <3>1. PICK n, count, site : job' = [job EXCEPT !.processed = n, !.count = count, !.site = site]
      BY <2>5 DEF Showtimes!Bump
    <3>2. job'.failures = job.failures
      BY <1>1, <3>1 DEF ShowtimeJobs
    <3> QED BY <1>1, <3>2
  <2>6. ASSUME NEW b \in ShowtimeBatches,
               \/ Showtimes!Read(b) \/ Showtimes!Acquire(b) \/ Showtimes!Decide(b) \/ Showtimes!Search(b)
               \/ Showtimes!SiteCheck(b) \/ Showtimes!SiteBreaks(b)
               \/ Showtimes!Lapse(b) \/ Showtimes!AcquireOpen(b) \/ Showtimes!Fails(b) \/ Showtimes!Killed(b)
               \/ Showtimes!Store(b) \/ Showtimes!Judge(b) \/ Showtimes!Release(b)
        PROVE  UNCHANGED job
    <3>1. CASE Showtimes!Search(b)
      BY <3>1 DEF Showtimes!Search, Showtimes!Ask, Showtimes!TryKey, Showtimes!MarkKey, Showtimes!Answer,
                  Showtimes!Exhausted, Showtimes!jobVars
    <3> QED BY <2>6, <3>1
            DEF Showtimes!Read, Showtimes!Acquire, Showtimes!Decide, Showtimes!SiteCheck, Showtimes!SiteBreaks,
                Showtimes!Lapse, Showtimes!AcquireOpen, Showtimes!Fails, Showtimes!Killed, Showtimes!Store, Showtimes!Judge, Showtimes!Release
  <2>7. CASE \/ Showtimes!StoreMissing \/ Showtimes!Publish \/ Showtimes!FinalizeWrite \/ Showtimes!FinalizeFails
             \/ Showtimes!Surroundings /\ UNCHANGED Showtimes!jobVars
    BY <2>1, <2>7 DEF Showtimes!StoreMissing, Showtimes!Publish, Showtimes!FinalizeWrite, Showtimes!FinalizeFails,
                      Showtimes!jobVars
  <2> QED BY <2>1, <2>2, <2>3, <2>4, <2>5, <2>6, <2>7
          DEF Showtimes!Next, Showtimes!Dispatch, Showtimes!Finalize, Showtimes!Faulty, Showtimes!ProcessBatch,
              Showtimes!Write, Showtimes!Batches
<1> QED BY <1>2, <1>3, <1>4 DEF LimitsOK

LEMMA RestStep ==
  ASSUME ShowtimesInv, ShowtimesRest, Next
  PROVE  ShowtimesRest'
<1>1. SUFFICES ASSUME service' = "showtimes"
               PROVE  KeysTyped' /\ AskedOK' /\ RowsOK' /\ LimitsOK'
  BY DEF ShowtimesRest
<1>2. service = "showtimes" /\ Showtimes!Next
  BY <1>1 DEF Next, OnlyShowtimes, OnlyLobby, OnlySync, OnlyCalendar, OnlyEmpty
<1> QED BY <1>2, KeysStep, AskedMoves, RowsMove, LimitsMove DEF ShowtimesInv, ShowtimesRest

LEMMA ShowtimesTypes ==
  ShowtimesInv /\ ShowtimesRest /\ service = "showtimes" => Showtimes!TypeOK
<1> SUFFICES ASSUME ShowtimesTyped, KeysTyped, AskedOK, RowsOK, LimitsOK PROVE Showtimes!TypeOK
  BY DEF ShowtimesInv, ShowtimesRest, ShowtimesBody
<1>1. Showtimes!RotationTypeOK
  BY KeysTypes
<1>2. /\ job.status \in {"queued", "processing"} \cup Showtimes!Terminal
      /\ job.processed \in Nat /\ job.failures \in 0 .. AbortAfter /\ job.aborted \in BOOLEAN
      /\ job.count \in [Showtimes!Verdicts -> Nat] /\ job.site \in [{"T", "F"} -> Nat]
  <2>1. job \in ShowtimeJobs /\ job.failures \in 0 .. AbortAfter
    BY DEF ShowtimesTyped, LimitsOK
  <2> QED BY <2>1 DEF ShowtimeJobs, Tallies, Showtimes!Terminal
<1>3. \A r \in Showings : {result[r], output[r]} \subseteq
                            [verdict : Showtimes!Verdicts \cup {"none"}, site : Showtimes!Verdicts]
  BY DEF RowsOK, StoredMarks
<1>4. \A b \in ShowtimeBatches :
        /\ batch[b].step \in Showtimes!Fallible \cup
             {"waiting", "queued", "release", "failing", "done", "raised", "killed"}
        /\ batch[b].path \in {"normal", "skipped", "exhausted", "rescue"}
        /\ batch[b].holder \in {"none", "held", "lapsed", "open"}
        /\ batch[b].asked \in 0 .. Ladder
        /\ batch[b].rows \in [ShowingsOf[b] -> [verdict : Showtimes!Verdicts, site : Showtimes!Verdicts]]
        /\ batch[b].tally \in [{"T", "F"} -> Nat]
  <2>1. \A b \in ShowtimeBatches : batch[b] \in BatchTasks /\ batch[b].rows \in [ShowingsOf[b] -> Marks]
    BY DEF ShowtimesTyped
  <2>2. \A b \in ShowtimeBatches : batch[b].step \in BatchSteps /\ batch[b].path \in Paths
                                   /\ batch[b].holder \in {"none", "held", "lapsed", "open"} /\ batch[b].tally \in Tallies
    BY <2>1 DEF BatchTasks
  <2> QED BY <2>1, <2>2 DEF AskedOK, BatchSteps, Paths, Marks, Tallies
<1>5. skewed \cup astray \subseteq ShowtimeBatches /\ faults \in 0 .. ShowtimeFaults
  BY DEF LimitsOK
<1> QED BY <1>1, <1>2, <1>3, <1>4, <1>5 DEF Showtimes!TypeOK, Showtimes!Batches

-----------------------------------------------------------------------------
(* The types of all of them.                                               *)

ServiceNamed == service \in {"showtimes", "lobby", "sync", "calendar", "empty"}

TypesInv ==
  /\ ServiceNamed
  /\ ShowtimesInv /\ ShowtimesRest
  /\ LobbyInv /\ LobbyBehind
  /\ CalendarInv /\ CalendarTyped
  /\ SyncTyped /\ EmptyTyped

LEMMA TypesStart == Init => TypesInv
<1>1. Init => ServiceNamed
  BY DEF Init, ServiceNamed
<1> QED BY <1>1, ShowtimesStart, RestStart, LobbyStart, BehindStart, CalendarStart, CalendarTypedStart,
           SyncTypedStart, EmptyTypedStart DEF TypesInv

LEMMA TypesKept == TypesInv /\ [Next]_vars => TypesInv'
<1> SUFFICES ASSUME TypesInv, [Next]_vars
             PROVE  TypesInv'
  OBVIOUS
<1>1. service' = service
  BY DEF Next, OnlyShowtimes, OnlyLobby, OnlySync, OnlyCalendar, OnlyEmpty, vars
<1>2. ShowtimesInv' /\ LobbyInv' /\ CalendarInv' /\ CalendarTyped' /\ SyncTyped' /\ EmptyTyped'
  BY ShowtimesKept, LobbyKept, CalendarKept, CalendarTypedStep, SyncTypedStep, EmptyTypedStep DEF TypesInv
<1>3. ShowtimesRest'
  <2>1. CASE Next
    BY <2>1, RestStep DEF TypesInv
  <2>2. CASE UNCHANGED vars
    <3>1. UNCHANGED <<service, job, output, faults, config, slot, table, call, refused, dark, result, batch, skewed,
                astray>>
      BY <2>2 DEF vars, showtimeVars
    <3>2. KeysTyped => KeysTyped'
      BY <3>1, KeysRest
    <3>3. (AskedOK => AskedOK') /\ (RowsOK => RowsOK') /\ (LimitsOK => LimitsOK')
      BY <3>1 DEF AskedOK, RowsOK, LimitsOK
    <3> QED BY <3>1, <3>2, <3>3 DEF TypesInv, ShowtimesRest
  <2> QED BY <2>1, <2>2
<1>4. LobbyBehind'
  <2>1. CASE Next
    BY <1>2, <2>1, BehindStep DEF TypesInv
  <2>2. CASE UNCHANGED vars
    <3>1. UNCHANGED <<service, job, image, taker, errors>>
      BY <2>2 DEF vars, lobbyVars
    <3>2. Counted(Outcomes)' = Counted(Outcomes)
      BY <3>1 DEF Counted, Works
    <3> QED BY <3>1, <3>2 DEF TypesInv, LobbyBehind, Behind
  <2> QED BY <2>1, <2>2
<1> QED BY <1>1, <1>2, <1>3, <1>4 DEF TypesInv, ServiceNamed

(***************************************************************************)
(* Every variable of the five services keeps its type, whatever the        *)
(* constants: the counters of a lobby check never pass the number of its   *)
(* images though rows are recorded twice and errors break their            *)
(* transactions, a calendar's model calls stop at their bound, and a batch *)
(* of a showtimes job asks no more queries than its fallback ladder has    *)
(* (lobby_check_task.py, calendar_extract/bedrock.py,                      *)
(* deleted_showtimes/core.py).                                             *)
(***************************************************************************)
THEOREM TypeCorrect == FairSpec => []TypeOK
<1>1. TypesInv => TypeOK
  BY ShowtimesTypes, LobbyTypes, CalendarTypes, SyncTypes, EmptyTypes DEF TypesInv, ServiceNamed, TypeOK
<1> QED BY <1>1, TypesStart, TypesKept, PTL DEF FairSpec

=============================================================================
