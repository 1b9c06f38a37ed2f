------------------------------- MODULE MovieDesk -------------------------------
(***************************************************************************)
(* The movie-format service is the amenity service over its own tables     *)
(* (MovieFormatMapping, MovieFormatReviewItem, MovieFormatJob), with its   *)
(* own engine, a mode chosen per upload and a shared cache for the single  *)
(* strings.  Its handlers take the steps of AmenityDesk.                   *)
(***************************************************************************)
EXTENDS AmenityDesk

MovieInit == Init

\* workers/movie_batch_worker.py
RunMovieBatch == Start \/ RunFails
MovieLayer1 == Layer1
AskInFull == batch.mode = "full" /\ (Prefill \/ \E k \in Keys : Collect(k))
AskSample == batch.mode = "sample" /\ (Prefill \/ \E k \in Keys : Collect(k))
MovieFinish == Finish \/ SaveFails \/ Tidy

\* The single string uses and fills the cache of the batches.
DetectSingleMovie(p, s) ==
  /\ item[s] = "none"
  /\ KeyOf[s] \notin engine[p]
  /\ item' = WithItems({s})
  /\ cache' \in {cache, cache \cup {KeyOf[s]}}
  /\ UNCHANGED <<engine, batch, faults, deskVars>>

DetectBatchMovie(p) == Upload(p)

\* routers/movie_review.py
ApproveReviewItem(d) == CommitItems(d)
TakeReviewItems(d, p) == \E items \in SUBSET (Rows \cup Singles) : TakeItems(d, p, items)
RejectReviewItem(d, p) == CommitReject(d) \/ \E r \in Rows \cup Singles : TakeReject(d, p, r)

\* routers/movie_formats.py
CreateMovieFormat == \E k \in Keys : Create(k)
UpdateMovieFormat(d, p) == \E n \in Ids : TakeMapping(d, p, "edit", n)
DeleteMovieFormat(d, p) == \E n \in Ids : TakeMapping(d, p, "delete", n)
ApproveMovieFormat(d, p) == \E n \in Ids : TakeMapping(d, p, "approve", n)
RejectMovieFormat(d, p) == \E n \in Ids : TakeMapping(d, p, "reject", n)
CommitMovieFormat(d) == CommitMapping(d)

\* movie_detection/loader.py
BuildMovieEngine(d) == Refresh(d) \/ Build(d) \/ Assign(d)

MovieBatch ==
  \/ \E p \in Procs : DetectBatchMovie(p)
  \/ RunMovieBatch \/ MovieLayer1 \/ AskInFull \/ AskSample \/ MovieFinish

MovieRequest(d, p) ==
  \/ TakeReviewItems(d, p) \/ RejectReviewItem(d, p)
  \/ UpdateMovieFormat(d, p) \/ DeleteMovieFormat(d, p)
  \/ ApproveMovieFormat(d, p) \/ RejectMovieFormat(d, p)

MovieNext ==
  \/ MovieBatch /\ UNCHANGED deskVars
  \/ \E d \in Desks : \/ ApproveReviewItem(d) \/ CommitMovieFormat(d) \/ BuildMovieEngine(d)
                      \/ \E p \in Procs : MovieRequest(d, p)
  \/ CreateMovieFormat
  \/ \E p \in Procs, s \in Singles : DetectSingleMovie(p, s)
  \/ \E p \in Procs : Restart(p)

MovieSpec == MovieInit /\ [][MovieNext]_vars
================================================================================
