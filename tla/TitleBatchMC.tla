----------------------------- MODULE TitleBatchMC -----------------------------
(* Small instances of TitleBatch for TLC: two workers of the agentic queue   *)
(* and one worker running beat ticks; the fault sets of the runs.            *)
EXTENDS TitleBatch, TLC

CONSTANTS w1, w2, b1

WorkerSymmetry == Permutations({w1, w2})

NoFaults == {}

(* Row messages handed out twice, Redis and database calls that fail,        *)
(* arguments that are gone, processes that die while working on a row.       *)
RowFaults ==
  {<<"redeliver", "row">>, <<"miss", "args">>}
    \cup {<<"raise", p>> : p \in {"store", "bump", "rescue", "settle", "publish_finalize",
                                   "read", "cas", "args", "publish"}}
    \cup {<<"crash", p>> : p \in {"match", "store", "bump", "settle"}}

(* What can go wrong around finalize, dispatch and the sweep, and in          *)
(* recording a row whose arguments are gone.  Calls that fail with the same   *)
(* effect as another are left out, so that two faults can be allowed.         *)
FinalizeFaults ==
  {<<"raise", p>> : p \in {"store", "d_mark", "d_cache", "d_failed", "sweep_publish", "f_load",
                           "f_put", "f_complete", "f_clean_results"}}
    \cup {<<"crash", p>> : p \in {"sweep_publish", "f_put", "f_complete", "f_clean_results"}}
    \cup {<<"redeliver", "finalize">>, <<"miss", "args">>}

(* What the code means to survive: a Redis error while storing, an error or  *)
(* a death between the counter bump and the claim or the refill, arguments   *)
(* that are gone, a failing sweep.                                           *)
RepairableFaults ==
  {<<"raise", "store">>, <<"raise", "settle">>, <<"raise", "read">>, <<"crash", "settle">>,
   <<"crash", "read">>, <<"miss", "args">>, <<"raise", "sweep_select">>,
   <<"redeliver", "row">>}

(* A database error in the counter bump of a row.                            *)
BumpFault == {<<"raise", "bump">>}
=============================================================================
