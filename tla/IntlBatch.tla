------------------------------ MODULE IntlBatch ------------------------------
(***************************************************************************)
(* The international batch (tasks/agentic_intl_match_task.py) over its own *)
(* table MovieTitleIntlBatchJob.  Its handlers are copies of the domestic  *)
(* ones with one more column, the country, which no step looks at: each    *)
(* takes the steps of TitleBatch named here after the intl function.       *)
(***************************************************************************)
EXTENDS TitleBatchMC

UploadIntlBatch == Init

AgenticIntlBatchRow(a) ==
  MatchSucceeds(a) \/ MatchRetries(a) \/ MatchExhausted(a) \/ MatchBreaks(a) \/ RaiseInRow(a)

StoreIntlRowResult(a) == StoreRowResult(a)
BumpIntlCounters(a) == BumpCounters(a)
AfterIntlRowTerminal(a) == ClaimFinalize(a) \/ PublishFinalize(a) \/ RaiseInSettle(a)

EnqueueNextIntlWindow(a) == ReadCursor(a) \/ SwapCursor(a) \/ PublishRow(a) \/ WindowDone(a)
FailIntlRow(a) == FailUnrecoverable(a) \/ RaiseInUnrecoverable(a)
IntlRowArgsFor(a) == FetchRowArgs(a) \/ ArgsMiss(a)
IntlWindowRaises(a) == RaiseInWindow(a)

CacheIntlRowArgs(a) == CacheRowArgs(a)
DispatchIntlBatch(a) == DispatchLoad(a) \/ DispatchMark(a) \/ DispatchFailed(a)
DispatchIntlRaises(a) == RaiseInDispatch(a)

FinalizeIntlBatch(a) == FinalizeStep(a) \/ RaiseInFinalize(a)

SweepStuckIntl(a) == SweepSelect(a) \/ SweepClaim(a) \/ SweepPublish(a) \/ RaiseInSweep(a)

\* What an intl worker does on its own, and what a worker of either market
\* does for a tick.
IntlStep(a) ==
  \/ AgenticIntlBatchRow(a) \/ StoreIntlRowResult(a) \/ BumpIntlCounters(a) \/ AfterIntlRowTerminal(a)
  \/ EnqueueNextIntlWindow(a) \/ FailIntlRow(a) \/ IntlRowArgsFor(a) \/ IntlWindowRaises(a)
  \/ CacheIntlRowArgs(a) \/ DispatchIntlBatch(a) \/ DispatchIntlRaises(a)
  \/ FinalizeIntlBatch(a) \/ SweepStuckIntl(a) \/ TopUp(a)

IntlNext ==
  \/ \E a \in Workers : Take(a)
  \/ \E a \in Beats : TickStart(a)
  \/ \E a \in Actors : IntlStep(a) \/ Crash(a)
  \/ \E m \in QueueMsgs : Redeliver(m)

IntlSpec == UploadIntlBatch /\ [][IntlNext]_vars

IntlFairSpec == IntlSpec /\ Fairness
=============================================================================
