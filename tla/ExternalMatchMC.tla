--------------------------- MODULE ExternalMatchMC ---------------------------
(* Instances of ExternalMatch for TLC.                                     *)
EXTENDS ExternalMatch, TLC

CONSTANTS r1, r2, r3, w1, w2, b1, c1

NoFaults == {}

(* What the sweep and the top-up repair: the refill or the claim of a      *)
(* counted row is lost.                                                    *)
RepairableFaults ==
  {<<k, l>> : k \in {"raise", "crash"}, l \in {"settle", "claim", "select", "sweep",
              "sweep_claim", "tick_remaining", "topup"}}
    \cup {<<"raise", "commit">>, <<"raise", "bump">>}

(* The master-data sync or another step of the dispatch fails, or the       *)
(* handler of that failure does.                                           *)
DispatchFaults == {<<"raise", l>> : l \in {"sync", "dispatch", "d_failed"}}

RowSymmetry == Permutations({r1, r2})
WorkerSymmetry == Permutations({w1, w2})
ExternalSymmetry == RowSymmetry \cup WorkerSymmetry
=============================================================================
