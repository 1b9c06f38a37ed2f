----------------------------- MODULE FairShareMC -----------------------------
\* FairShare for TLC: a job of five rows and one of a single row, each of its
\* own pipeline, on a queue the two together overfill.
EXTENDS FairShare, TLC

ShareTotal == "big" :> 5 @@ "low" :> 1
SharePipeline == "big" :> "big" @@ "low" :> "low"
ShareOrder == <<"big", "low">>
================================================================================
