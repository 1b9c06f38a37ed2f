------------------------------- MODULE RuleScan -------------------------------
(***************************************************************************)
(* One run of the data-quality scan: the rules of the pack are gated       *)
(* against the columns of the table, compiled, and run, cheap ones in      *)
(* batches that share a query; the outcomes go into a report that is sent  *)
(* (dqscan/engine.py, run_daily.py, with compiler.py and report.py).       *)
(***************************************************************************)
EXTENDS Enumeration, SequencesExt

CONSTANTS
  NRules,      \* rules in the pack, in its order 1 .. NRules
  ChunkSize,   \* _BATCH_CHUNK_SIZE
  Channels     \* the channels that are enabled (email, SNS), in their order

RuleScanAssumption ==
  /\ {NRules, ChunkSize} \subseteq Nat \ {0}
  /\ Channels \in Seq(STRING)

VARIABLE audit

Rules == 1 .. NRules

RuleScanInit ==
  \E batchable \in SUBSET Rules :
    audit = [step |-> "gate", batchable |-> batchable, runs |-> {}, todo |-> <<>>, item |-> <<>>,
             results |-> <<>>, outcomes |-> <<>>, processed |-> {}, interrupted |-> FALSE,
             sent |-> <<>>, pruned |-> FALSE]

Outcome(rule, status) == [rule |-> rule, status |-> status]
OutcomesOf(rules, status) == [n \in DOMAIN rules |-> Outcome(rules[n], status)]

\* Measured, measured and found to fire too often, or the query failed.
Measured == {"active", "calibration", "error"}

-----------------------------------------------------------------------------
(* Gate and compile.                                                       *)

\* A missing column, an empty list of values, or dormant by declaration.
GateRules ==
  /\ audit.step = "gate"
  /\ \E dormant \in SUBSET Rules :
       audit' = [audit EXCEPT !.step = "compile", !.runs = Rules \ dormant,
                              !.outcomes = OutcomesOf(InOrder(dormant), "dormant")]

Chunks(rules) ==
  [n \in 1 .. (Len(rules) + ChunkSize - 1) \div ChunkSize |->
     SubSeq(rules, (n - 1) * ChunkSize + 1, IF n * ChunkSize < Len(rules) THEN n * ChunkSize ELSE Len(rules))]

\* A rule that does not compile is an error of its own; one whose SQL is not
\* read-only aborts the run (Aborts).
CompileRules ==
  /\ audit.step = "compile"
  /\ \E broken \in SUBSET audit.runs :
       LET runs == audit.runs \ broken
           own == InOrder(runs \ audit.batchable)
       IN audit' = [audit EXCEPT
            !.step = "next", !.runs = runs,
            !.outcomes = @ \o OutcomesOf(InOrder(broken), "error"),
            !.todo = Chunks(InOrder(runs \cap audit.batchable)) \o [n \in DOMAIN own |-> <<own[n]>>]]

-----------------------------------------------------------------------------
(* The work items: a chunk of batchable rules, or one rule.                *)

\* Mutant: a rule counts as processed once its item is taken.
TakeAndMark ==
  /\ audit.step = "next" /\ audit.todo # <<>>
  /\ audit' = [audit EXCEPT !.item = Head(audit.todo), !.todo = Tail(@), !.results = <<>>,
                            !.processed = @ \cup ToSet(Head(audit.todo)),
                            !.step = IF Len(Head(audit.todo)) > 1 THEN "batch" ELSE "each"]

TakeItem ==
  /\ audit.step = "next" /\ audit.todo # <<>>
  /\ audit' = [audit EXCEPT !.item = Head(audit.todo), !.todo = Tail(@), !.results = <<>>,
                            !.step = IF Len(Head(audit.todo)) > 1 THEN "batch" ELSE "each"]

\* The query of the chunk: counts, no time for any of its rules, or a
\* failure to be found by running them one by one.
ProcessBatch ==
  /\ audit.step = "batch"
  /\ audit' \in {[audit EXCEPT !.step = "each"],
                 [audit EXCEPT !.step = "collect", !.results = OutcomesOf(audit.item, "error")]}

\* The next rule of the item: its count, unless the chunk has it, and its
\* detail rows.
ProcessRule ==
  /\ audit.step = "each"
  /\ \E status \in Measured :
       LET results == Append(audit.results, Outcome(audit.item[Len(audit.results) + 1], status))
       IN audit' = [audit EXCEPT !.results = results,
                                 !.step = IF Len(results) = Len(audit.item) THEN "collect" ELSE "each"]

\* outcomes.extend
Collect ==
  /\ audit.step = "collect"
  /\ audit' = [audit EXCEPT !.step = "mark", !.outcomes = @ \o audit.results]

\* processed_ids.update
MarkProcessed ==
  /\ audit.step = "mark"
  /\ audit' = [audit EXCEPT !.step = "next", !.processed = @ \cup ToSet(audit.item)]

AllProcessed ==
  /\ audit.step = "next" /\ audit.todo = <<>>
  /\ audit' = [audit EXCEPT !.step = "report"]

\* Ctrl+C: "whatever's already been collected still gets a report".
Interrupt ==
  /\ audit.step \in {"next", "batch", "each", "collect", "mark"}
  /\ audit' = [audit EXCEPT !.step = "report", !.interrupted = TRUE,
                 !.outcomes = @ \o OutcomesOf(InOrder(audit.runs \ audit.processed), "dormant")]

-----------------------------------------------------------------------------
(* The report.                                                             *)

WriteReport ==
  /\ audit.step = "report"
  /\ audit' = [audit EXCEPT !.step = "send"]

Send ==
  /\ audit.step = "send" /\ Len(audit.sent) < Len(Channels)
  /\ audit' = [audit EXCEPT !.sent = Append(@, Channels[Len(@) + 1])]

\* "Only prune after a fully successful run."
PruneOldReports ==
  /\ audit.step = "send" /\ Len(audit.sent) = Len(Channels)
  /\ audit' = [audit EXCEPT !.step = "end", !.pruned = TRUE]

\* Anything else that raises ends the process with a traceback, a time-out of
\* the Celery task kills it.
Aborts ==
  /\ audit.step \notin {"end", "aborted"}
  /\ audit' = [audit EXCEPT !.step = "aborted"]

RuleScanNext ==
  \/ GateRules \/ CompileRules
  \/ TakeItem \/ ProcessBatch \/ ProcessRule \/ Collect \/ MarkProcessed \/ AllProcessed
  \/ Interrupt \/ WriteReport \/ Send \/ PruneOldReports \/ Aborts

-----------------------------------------------------------------------------
(* Properties.                                                             *)

\* The type of a run (models.py, RunResult and the locals of run).
RuleScanTypeOK ==
  /\ audit.step \in {"gate", "compile", "next", "batch", "each", "collect", "mark", "report", "send",
                     "end", "aborted"}
  /\ audit.outcomes \in Seq([rule : Rules, status : Measured \cup {"dormant"}])
  /\ audit.processed \subseteq audit.runs /\ audit.runs \subseteq Rules
  /\ Len(audit.results) <= Len(audit.item)

Times(rule) == Cardinality({n \in DOMAIN audit.outcomes : audit.outcomes[n].rule = rule})

(***************************************************************************)
(* A report that is sent has every rule of the pack exactly once, whether  *)
(* it was dormant, did not compile, failed with its chunk or alone, or was *)
(* skipped by an interrupt ("one rule failing must not stop the run":      *)
(* engine.py).  Only an interrupt between outcomes.extend and the update   *)
(* of processed_ids reports the rules of one item twice.                   *)
(***************************************************************************)
EveryRuleIsReported ==
  audit.step \in {"send", "end"} =>
    \A rule \in Rules :
      \/ Times(rule) = 1
      \/ /\ audit.interrupted /\ Times(rule) = 2
         /\ rule \in ToSet(audit.item) \ audit.processed
================================================================================
