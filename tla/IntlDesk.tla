-------------------------------- MODULE IntlDesk --------------------------------
(***************************************************************************)
(* The international amenity service: no Bedrock and no review queue, so a *)
(* batch is one pass over its rows with a commit of the progress now and   *)
(* then, and the only way into the engine is the dictionary.               *)
(***************************************************************************)
EXTENDS AmenityDesk

CONSTANT ProgressEvery   \* rows between two commits of the progress

IntlInit == Init

DetectBatchIntl(p) == Upload(p)
RunIntlBatch == Start \/ RunFails \/ Tidy

\* Rows are written in order, whatever the engine says of them.
ScanRows ==
  /\ batch.step = "layer 1"
  /\ IF batch.processed + ProgressEvery <= Cardinality(Rows)
     THEN batch' = [batch EXCEPT !.processed = @ + ProgressEvery]
     ELSE batch' = [batch EXCEPT !.step = "finish"]
  /\ UNCHANGED <<engine, cache, item, faults>>

FinishIntl == Finish \/ SaveFails

\* routers/intl_amenities.py
CreateIntlAmenity == \E k \in Keys : Create(k)
ImportIntl == CreateIntlAmenity
PatchIntlAmenity(d, p) == \E n \in Ids : TakeMapping(d, p, "edit", n)
ApproveIntlAmenity(d, p) == \E n \in Ids : TakeMapping(d, p, "approve", n)
RejectIntlAmenity(d, p) == \E n \in Ids : TakeMapping(d, p, "reject", n)
DeleteIntlAmenity(d, p) == \E n \in Ids : TakeMapping(d, p, "delete", n)
CommitIntlAmenity(d) == CommitMapping(d)

\* intl_detection/loader.py
BuildIntlEngine(d) == Refresh(d) \/ Build(d) \/ Assign(d)

IntlRequest(d, p) ==
  PatchIntlAmenity(d, p) \/ ApproveIntlAmenity(d, p) \/ RejectIntlAmenity(d, p) \/ DeleteIntlAmenity(d, p)

IntlNext ==
  \/ /\ (\E p \in Procs : DetectBatchIntl(p)) \/ RunIntlBatch \/ ScanRows \/ FinishIntl
     /\ UNCHANGED deskVars
  \/ \E d \in Desks : CommitIntlAmenity(d) \/ BuildIntlEngine(d) \/ \E p \in Procs : IntlRequest(d, p)
  \/ CreateIntlAmenity \/ ImportIntl
  \/ \E p \in Procs : Restart(p)

IntlSpec == IntlInit /\ [][IntlNext]_vars
================================================================================
