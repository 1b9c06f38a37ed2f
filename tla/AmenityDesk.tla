------------------------------ MODULE AmenityDesk ------------------------------
(***************************************************************************)
(* The review desk beside the batches: reviewers decide the items a batch  *)
(* left (routers/review.py), editors keep the dictionary of mappings       *)
(* (routers/amenities.py), and each change makes the web process that      *)
(* served it build a new engine from the approved mappings and put it in   *)
(* app.state (detection/loader.py).  The other processes of the service    *)
(* keep the engine they have.                                              *)
(*                                                                         *)
(* Endpoints run in threads, one transaction each: a request reads, then   *)
(* drops the cached suggestions, commits, builds and assigns.  A commit    *)
(* writes the columns whose value is not the one read, and only those.     *)
(*                                                                         *)
(* The items are suggestions for a string.  The reviewers could also       *)
(* decide an item about an existing mapping, but nothing in the service    *)
(* makes one.                                                              *)
(***************************************************************************)
EXTENDS DetectionBatch

CONSTANTS
  Desks,          \* requests that may run at the same time
  MaxMappings,    \* bound on the mappings ever created
  RebuildAlways   \* does every edit build an engine (routers/intl_amenities.py)?

VARIABLES
  mapping,   \* the mapping table: one record per id
  desk       \* the requests being served

deskVars == <<mapping, desk>>
vars == <<batchVars, deskVars>>

Ids == 1 .. MaxMappings
Absent == [key |-> Nobody, status |-> "absent"]
NoRequest ==
  [step |-> "free", proc |-> Nobody, op |-> "none", items |-> {}, id |-> 0,
   seen |-> "none",   \* the status of the mapping as read
   void |-> FALSE,    \* history: the approval changed nothing, and the mapping is not approved
   undone |-> {},     \* history: the keys taken back since the commit
   built |-> {}]
FreeIds == {n \in Ids : mapping[n].status = "absent"}

Init ==
  /\ BatchInit
  /\ engine = [p \in Procs |-> {}]
  /\ mapping = [n \in Ids |-> Absent]
  /\ desk = [d \in Desks |-> NoRequest]

\* build_engine_from_db
Approved == {mapping[n].key : n \in {m \in Ids : mapping[m].status = "approved"}}

\* One string typed in: a suggestion for a string no keyword matches becomes
\* a review item.
DetectSingle(p, s) ==
  /\ item[s] = "none"
  /\ KeyOf[s] \notin engine[p]
  /\ item' = WithItems({s})
  /\ UNCHANGED <<engine, cache, batch, faults, deskVars>>

Begin(d, request) == desk[d] = NoRequest /\ desk' = [desk EXCEPT ![d] = request]
Request(p, op, step) == [NoRequest EXCEPT !.proc = p, !.op = op, !.step = step]

\* approve, one item or many: the items still pending are taken, and the
\* suggestions of their strings dropped from Redis before the commit.
TakeItems(d, p, items) ==
  LET pending == {r \in items : item[r] = "pending"}
  IN /\ pending # {}
     /\ Begin(d, [Request(p, "approve items", "commit") EXCEPT !.items = pending])
     /\ cache' = cache \ {KeyOf[r] : r \in pending}
     /\ UNCHANGED <<engine, batch, item, faults, mapping>>

TakeReject(d, p, r) ==
  /\ item[r] = "pending"
  /\ Begin(d, [Request(p, "reject item", "commit") EXCEPT !.items = {r}])
  /\ UNCHANGED <<batchVars, mapping>>

\* The ids the approved items' new mappings get: the lowest free ones.
NewIds(items) ==
  {f \in [items -> FreeIds] :
     /\ \A a, b \in items : a # b => f[a] # f[b]
     /\ \A a \in items, n \in FreeIds : n < f[a] => \E b \in items : f[b] = n}

CommitItems(d) ==
  /\ desk[d].step = "commit" /\ desk[d].op = "approve items"
  /\ LET items == desk[d].items
     IN /\ \E f \in NewIds(items) :
             mapping' = [n \in Ids |-> IF \E r \in items : f[r] = n
                           THEN [key |-> KeyOf[CHOOSE r \in items : f[r] = n], status |-> "approved"]
                           ELSE mapping[n]]
        /\ item' = [r \in DOMAIN item |-> IF r \in items THEN "approved" ELSE item[r]]
  /\ desk' = [desk EXCEPT ![d].step = "build"]
  /\ UNCHANGED <<engine, cache, batch, faults>>

CommitReject(d) ==
  /\ desk[d].step = "commit" /\ desk[d].op = "reject item"
  /\ item' = [r \in DOMAIN item |-> IF r \in desk[d].items THEN "rejected" ELSE item[r]]
  /\ desk' = [desk EXCEPT ![d] = NoRequest]
  /\ UNCHANGED <<engine, cache, batch, faults, mapping>>

\* create and import: the new rows are pending, no engine is built.
Create(k) ==
  /\ FreeIds # {}
  /\ mapping' = [mapping EXCEPT ![CHOOSE n \in FreeIds : \A m \in FreeIds : n <= m] =
                   [key |-> k, status |-> "pending"]]
  /\ UNCHANGED <<batchVars, desk>>

TakeMapping(d, p, op, n) ==
  /\ mapping[n].status \notin {"absent", "deleted"}
  /\ Begin(d, [Request(p, op, "commit") EXCEPT !.id = n, !.seen = mapping[n].status])
  /\ UNCHANGED <<batchVars, mapping>>

MappingOps == {"approve", "reject", "edit", "delete"}
StatusAfter(op) ==
  CASE op = "approve" -> {"approved"}
    [] op = "reject" -> {"rejected"}
    [] op = "edit" -> {"pending", "approved"}
    [] op = "delete" -> {"deleted"}

\* A commit writes the status only if it is not the one read, and otherwise
\* leaves what another request has made of it.
Writes(d, asked) == asked # desk[d].seen
After(d, asked) == IF Writes(d, asked) THEN asked ELSE mapping[desk[d].id].status

\* History: a key request d takes back is noted with d and with the requests
\* that have committed and not yet read the table.
Noted(d, asked) ==
  [e \in Desks |->
     IF asked # "approved" /\ (e = d \/ (Writes(d, asked) /\ desk[e].step \in {"refresh", "build"}))
     THEN [desk[e] EXCEPT !.undone = @ \cup {mapping[desk[d].id].key}] ELSE desk[e]]

NextStep(op) ==
  CASE op \in {"approve", "delete"} -> "build"
    [] op = "edit" -> "refresh"
    [] op = "reject" -> IF RebuildAlways THEN "build" ELSE "free"

Committed(d, request, asked) ==
  [request EXCEPT !.step = NextStep(desk[d].op), !.seen = "none",
                  !.void = asked = "approved" /\ After(d, asked) # "approved"]

\* An edit asks for a status or leaves the row pending, and always writes the
\* version.  An update of a row another request deleted fails.
CommitMapping(d) ==
  LET n == desk[d].id
      op == desk[d].op
  IN /\ desk[d].step = "commit" /\ op \in MappingOps
     /\ \E asked \in StatusAfter(op) :
          IF mapping[n].status = "deleted" /\ op # "delete" /\ (Writes(d, asked) \/ op = "edit")
          THEN desk' = [desk EXCEPT ![d] = NoRequest] /\ UNCHANGED mapping
          ELSE /\ mapping' = [mapping EXCEPT ![n].status = After(d, asked)]
               /\ desk' = [Noted(d, asked) EXCEPT
                             ![d] = IF NextStep(op) = "free" THEN NoRequest ELSE Committed(d, @, asked)]
     /\ UNCHANGED batchVars

\* The row as another request may have left it decides whether an engine is
\* built; a row deleted meanwhile is an error.
Refresh(d) ==
  LET status == mapping[desk[d].id].status
  IN /\ desk[d].step = "refresh"
     /\ desk' = [desk EXCEPT ![d] = IF status # "deleted" /\ (status = "approved" \/ RebuildAlways)
                                    THEN [@ EXCEPT !.step = "build"] ELSE NoRequest]
     /\ UNCHANGED <<batchVars, mapping>>

\* A circuit alias is created, changed or deleted: the mappings stay, an
\* engine is built.
EditAlias(d, p) ==
  /\ Begin(d, Request(p, "alias", "build"))
  /\ UNCHANGED <<batchVars, mapping>>

\* Mutant of Build: the loader hands out what it loaded before.
BuildFromMemory(d) ==
  /\ desk[d].step = "build"
  /\ desk' = [desk EXCEPT ![d].step = "assign", ![d].built = engine[desk[d].proc]]
  /\ UNCHANGED <<batchVars, mapping>>

Build(d) ==
  /\ desk[d].step = "build"
  /\ desk' = [desk EXCEPT ![d].step = "assign", ![d].built = Approved]
  /\ UNCHANGED <<batchVars, mapping>>

Assign(d) ==
  /\ desk[d].step = "assign"
  /\ engine' = [engine EXCEPT ![desk[d].proc] = desk[d].built]
  /\ desk' = [desk EXCEPT ![d] = NoRequest]
  /\ UNCHANGED <<cache, batch, item, faults, mapping>>

\* A process ends and starts again: its threads are gone, and startup loads
\* the engine from the table.
Restart(p) ==
  /\ Fault
  /\ engine' = [engine EXCEPT ![p] = Approved]
  /\ batch' = Stopped(p)
  /\ desk' = [d \in Desks |-> IF desk[d].proc = p THEN NoRequest ELSE desk[d]]
  /\ UNCHANGED <<cache, item, mapping>>

Review(d, p) ==
  \/ \E items \in SUBSET (Rows \cup Singles) : TakeItems(d, p, items)
  \/ \E r \in Rows \cup Singles : TakeReject(d, p, r)

Edit(d, p) == \E op \in MappingOps, n \in Ids : TakeMapping(d, p, op, n)
Serve(d) == CommitItems(d) \/ CommitReject(d) \/ CommitMapping(d) \/ Refresh(d) \/ Build(d) \/ Assign(d)

DeskNext ==
  \/ \E d \in Desks : Serve(d) \/ \E p \in Procs : Review(d, p) \/ Edit(d, p) \/ EditAlias(d, p)
  \/ \E k \in Keys : Create(k)
  \/ \E p \in Procs, s \in Singles : DetectSingle(p, s)
  \/ \E p \in Procs : Restart(p)

Next == (BatchNext /\ UNCHANGED deskVars) \/ DeskNext
Spec == Init /\ [][Next]_vars

-----------------------------------------------------------------------------

TypeOK ==
  /\ BatchTypeOK
  /\ \A n \in Ids : /\ mapping[n].key \in Keys \cup {Nobody}
                    /\ mapping[n].status \in {"absent", "pending", "approved", "rejected", "deleted"}
  /\ \A d \in Desks : /\ desk[d].step \in {"free", "commit", "refresh", "build", "assign"}
                      /\ desk[d].built \subseteq Keys

\* What the request asked to be approved.
Promised(d) ==
  IF desk[d].op = "approve items" THEN {KeyOf[r] : r \in desk[d].items}
  ELSE IF desk[d].op \in MappingOps \ {"delete"} THEN {mapping[desk[d].id].key} ELSE {}

(***************************************************************************)
(* Whatever other requests commit, build and assign at the same time, the  *)
(* engine a request hands to its process matches every string that request *)
(* approved, unless somebody took it back meanwhile.  An approval that     *)
(* found the mapping approved and writes nothing, while a rejection of it  *)
(* commits, is void.  (The engine may be replaced by an older one that     *)
(* another request built before and assigns after, and the other processes *)
(* do not get it.)                                                         *)
(***************************************************************************)
ApprovalIsInTheEngine ==
  \A d \in Desks :
    desk[d].step = "assign" /\ ~desk[d].void => Promised(d) \ desk[d].undone \subseteq desk[d].built
================================================================================
