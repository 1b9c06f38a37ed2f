---------------------------- MODULE MatchDecision ----------------------------
(***************************************************************************)
(* One title through the agentic matcher: the answer of the model, the     *)
(* guardrail that re-checks it, the verification pass and the second       *)
(* look-up, and what comes out as id, confidence and decision.             *)
(*                                                                         *)
(* Variant "v1" is title_matching/agentic/runner.py as it was, "v2" the    *)
(* domestic one with the metadata guardrail (metadata_guardrail.py,        *)
(* post_lookup_v2.py), "intl2" the international orchestrator              *)
(* (runner_intl_v2.py) with the country guardrail (intl_guardrail_v2.py),  *)
(* the verification (rerank_intl_v2.py) and its own look-up                *)
(* (candidates_intl_v2.py, post_lookup_intl_v2.py).                        *)
(*                                                                         *)
(* The calls of the sandbox with their limits are in SandboxSemaphore; the *)
(* text of prompts and titles is left out.  A row of the master is         *)
(* "refused" by the guardrail of the variant (no director and no synopsis, *)
(* or another country), "odd" when its ordinal conflicts with the query's, *)
(* "far" when its title is unlike the one rejected, or "fit".  The order   *)
(* of a search's rows and of an answer's candidates is the searcher's and  *)
(* the model's own: they are sets, and the first of them is any.           *)
(***************************************************************************)
EXTENDS Integers

CONSTANTS
  Rows,         \* ids of the master
  Ghosts,       \* ids the model makes up
  Modes,        \* of the guardrail: "enforce", "log_only", "off"
  Confidences   \* of an answer, in percent

MatchAssumption ==
  /\ Rows \cup Ghosts \subseteq Nat \ {0} /\ Rows \cap Ghosts = {}
  /\ Modes \subseteq {"enforce", "log_only", "off"}
  /\ Confidences \subseteq 0 .. 100

VARIABLE match

AutoAccept == 90       \* from this confidence on
VerdictCap == 97       \* settings.AGENTIC_INTL_V2_RERANK_MAX_CONFIDENCE
Variants == {"v1", "v2", "intl2"}
NoRow == 0
RowKinds == {"fit", "refused", "odd", "far"}

\* Event types other than a film: the decision is not about confidence then.
EventDecision == [NON_MOVIE |-> "REVIEW_NON_MOVIE", MULTI_FILM |-> "REVIEW_MULTI_FILM"]
EventDecisions == {"REVIEW_NON_MOVIE", "REVIEW_MULTI_FILM"}
Decisions == {"AUTO_ACCEPT", "REVIEW"} \cup EventDecisions

\* No match: an answer without candidates, an output that cannot be parsed,
\* a pipeline that failed.
NoMatch == [id |-> NoRow, titled |-> FALSE, confidence |-> 0, decision |-> "REVIEW", runners |-> {}]

ByConfidence(confidence) == IF confidence >= AutoAccept THEN "AUTO_ACCEPT" ELSE "REVIEW"

MatchInit ==
  \E variant \in Variants, kind \in [Rows -> RowKinds] :
    \E mode \in (IF variant = "v1" THEN {"off"} ELSE Modes) :
      match = [variant |-> variant, mode |-> mode, kind |-> kind, phase |-> "fetch",
               found |-> {}, listed |-> {}, result |-> NoMatch, named |-> NoRow, blind |-> {}]

\* The variants share their transport; each has its own steps around it.
At(phase, variants) == match.phase = phase /\ match.variant \in variants
Domestic == {"v1", "v2"}
Intl == {"intl2"}

Kind(id) == IF id \in Rows THEN match.kind[id] ELSE "ghost"

\* What the guardrail of the variant lets through.
Allowed(id) == id \in Rows /\ match.kind[id] # "refused"

-----------------------------------------------------------------------------
(* The candidates.                                                         *)

\* A search returns some rows, none when it fails.
DbSearch == SUBSET Rows

\* The international searches are scoped to the country of the request.
DbSearchIntl == SUBSET {id \in Rows : Allowed(id)}
VespaIntl == SUBSET {id \in Rows : Allowed(id)}

\* What Vespa lists goes into the prompt; only the verification reads it.
Fetch ==
  /\ At("fetch", Domestic)
  /\ \E found \in DbSearch : match' = [match EXCEPT !.phase = "ask", !.found = found]

FetchIntl ==
  /\ At("fetch", Intl)
  /\ \E found \in DbSearchIntl, listed \in VespaIntl :
       match' = [match EXCEPT !.phase = "ask", !.found = found, !.listed = listed]

-----------------------------------------------------------------------------
(* The answer of the model.                                                *)

\* The best candidate of the answer, runners the others.
BuildResult(id, runners, titled, confidence, event) ==
  [id |-> id, titled |-> titled, confidence |-> confidence,
   decision |-> IF event = "MOVIE" THEN ByConfidence(confidence) ELSE EventDecision[event],
   runners |-> runners]

NoJson == [json |-> "none"]

Outputs ==
  {NoJson, NoMatch} \cup
  {BuildResult(id, runners, titled, confidence, event) :
     id \in Rows \cup Ghosts \cup {NoRow}, runners \in SUBSET Rows,
     titled \in BOOLEAN, confidence \in Confidences, event \in {"MOVIE", "NON_MOVIE"}}

ParseAgentOutput(output) == IF output = NoJson THEN NoMatch ELSE output

Named(output) ==
  LET result == ParseAgentOutput(output)
  IN [match EXCEPT !.phase = "guard", !.result = result, !.named = result.id]

\* An output without JSON is asked for once more.
FirstOutput(variants) ==
  /\ At("ask", variants)
  /\ \E output \in Outputs :
       match' = IF output = NoJson THEN [match EXCEPT !.phase = "again"] ELSE Named(output)

\* The fallback stays when the second call fails, too.
SecondOutput(variants) ==
  /\ At("again", variants)
  /\ \E output \in Outputs : match' = Named(output)

CallSandbox == FirstOutput(Domestic)
CallSandboxIntl == FirstOutput(Intl)
Retry == SecondOutput(Domestic)
RetryIntl == SecondOutput(Intl)

\* The first call fails, or either is throttled: the single endpoints answer
\* with an honest "no match" (the tasks see the error).
Fails(variant) ==
  /\ At("ask", {variant}) \/ At("again", {variant})
  /\ match' = [match EXCEPT !.phase = "done", !.result = NoMatch]

MatchSingleFails == Fails("v1")
MatchSingleV2Fails == Fails("v2")
MatchSingleIntlV2Fails == Fails("intl2")

-----------------------------------------------------------------------------
(* The guardrails.                                                         *)

\* The row behind an id: pre-fetched, or read from the master unless the
\* read fails (blind); the guardrail lets what it cannot read go.
ResolveCandidate(id, blind) == id \in match.found \/ id \in Rows \ blind

\* Mutant: the replacement keeps the confidence and the decision.
KeepsDecision(result, id) == [result EXCEPT !.id = id, !.titled = (id # NoRow)]

\* The result with a rejected pick swapped for id, or for none.
Swapped(result, id) ==
  LET cap == IF id = NoRow THEN 49 ELSE 89
  IN [result EXCEPT !.id = id, !.titled = (id # NoRow),
        !.confidence = IF @ < cap THEN @ ELSE cap,
        !.decision = IF @ \in EventDecisions THEN @ ELSE "REVIEW"]

\* A rejected pick gives way to the first candidate that is allowed, has no
\* conflicting ordinal and a like title: the runners-up of the model first,
\* then what was pre-fetched.
FallthroughCandidates(rejected, blind) ==
  LET fits(ids) == {id \in ids \ {rejected} : ResolveCandidate(id, blind) /\ Kind(id) = "fit"}
  IN IF fits(match.result.runners) # {} THEN fits(match.result.runners) ELSE fits(match.found)

Guarded(blind) ==
  LET result == match.result
      rejected == ResolveCandidate(result.id, blind) /\ ~Allowed(result.id)
      fits == FallthroughCandidates(result.id, blind)
  IN IF match.mode = "enforce" /\ rejected
       THEN {Swapped(result, id) : id \in IF fits = {} THEN {NoRow} ELSE fits}
       ELSE {result}

\* The runners-up are not read again.
Guard(variants, next) ==
  /\ At("guard", variants)
  /\ \E blind \in SUBSET Rows : \E result \in Guarded(blind) :
       match' = [match EXCEPT !.phase = next, !.blind = blind, !.result = [result EXCEPT !.runners = {}]]

ApplyMetadataGuardrail == Guard({"v2"}, "lookup")
ApplyCountryGuardrail == Guard(Intl, "verify")

\* The first variant has none.
NoGuardrail ==
  /\ At("guard", {"v1"})
  /\ match' = [match EXCEPT !.phase = "lookup", !.result.runners = {}]

-----------------------------------------------------------------------------
(* The verification pass of the international matcher.                     *)

CandidateIds == match.found \cup match.listed \cup {NoRow}

Judged(result, confidence) ==
  [result EXCEPT !.confidence = confidence,
                 !.decision = IF @ \in EventDecisions THEN @ ELSE ByConfidence(confidence)]

\* A verdict on an id that is no candidate is discarded; one of NO_DB_MATCH
\* leaves the decision as it is.
MergeRerank(result, verdict, id, titled, confidence) ==
  CASE id \notin CandidateIds -> result
    [] id \in CandidateIds /\ verdict = "CONFIRM" -> Judged(result, confidence)
    [] id \in CandidateIds /\ verdict = "OVERRULE" ->
         [Judged(result, confidence) EXCEPT !.id = id, !.titled = @ \/ titled]
    [] OTHER -> [result EXCEPT !.id = NoRow, !.titled = @ \/ titled, !.confidence = confidence]

VerdictConfidences == {IF c < VerdictCap THEN c ELSE VerdictCap : c \in Confidences}

\* Whatever fails in it leaves the result unchanged.
VerifyCandidatePick ==
  /\ At("verify", Intl)
  /\ match.found \cup match.listed # {}
  /\ \/ \E verdict \in {"CONFIRM", "OVERRULE", "NO_DB_MATCH"}, id \in Rows \cup Ghosts \cup {NoRow},
          titled \in BOOLEAN, confidence \in VerdictConfidences :
          match' = [match EXCEPT !.phase = "lookup",
                                 !.result = MergeRerank(@, verdict, id, titled, confidence)]
     \/ match' = [match EXCEPT !.phase = "lookup"]

\* Nothing to verify against.
Unverified ==
  /\ At("verify", Intl)
  /\ match.found \cup match.listed = {}
  /\ match' = [match EXCEPT !.phase = "lookup"]

-----------------------------------------------------------------------------
(* The second look-up, by the title the model gave.                        *)

Unmatched == match.result.id = NoRow /\ match.result.titled

\* Rows with a conflicting ordinal are dropped.
PostLookupSearch(hits) == {id \in hits : Kind(id) # "odd"}

\* Mutant: the hits are not passed through the guardrail again.
SurvivingUnfiltered(hits) == PostLookupSearch(hits)

\* "Close the loop the guardrail opened above": not in the first variant.
Surviving(hits) == {id \in PostLookupSearch(hits) : match.variant = "v1" \/ Allowed(id)}

\* A title alone is never enough in the domestic matcher; with the country
\* it is.
ResolvedV1(result, id) == [result EXCEPT !.id = id]

ResolvedV2(result, id) ==
  [result EXCEPT !.id = id, !.confidence = 75,
                 !.decision = IF @ = "AUTO_ACCEPT" THEN "REVIEW" ELSE @]

ResolvedIntlV2(result, id) ==
  [result EXCEPT !.id = id, !.confidence = 90,
                 !.decision = IF @ = "REVIEW" THEN "AUTO_ACCEPT" ELSE @]

LookUp(variant, searches, Resolved(_, _)) ==
  /\ At("lookup", {variant}) /\ Unmatched
  /\ \E hits \in searches :
       \E result \in IF Surviving(hits) = {} THEN {match.result}
                     ELSE {Resolved(match.result, id) : id \in Surviving(hits)} :
         match' = [match EXCEPT !.phase = "done", !.result = result]

PostLookup == LookUp("v1", DbSearch, ResolvedV1)
PostLookupV2 == LookUp("v2", DbSearch, ResolvedV2)
PostLookupIntlV2 == LookUp("intl2", DbSearchIntl, ResolvedIntlV2)

NoLookup ==
  /\ match.phase = "lookup" /\ ~Unmatched
  /\ match' = [match EXCEPT !.phase = "done"]

MatchNext ==
  \/ Fetch \/ CallSandbox \/ Retry \/ MatchSingleFails \/ MatchSingleV2Fails
  \/ FetchIntl \/ CallSandboxIntl \/ RetryIntl \/ MatchSingleIntlV2Fails
  \/ NoGuardrail \/ ApplyMetadataGuardrail \/ ApplyCountryGuardrail
  \/ VerifyCandidatePick \/ Unverified
  \/ PostLookup \/ PostLookupV2 \/ PostLookupIntlV2 \/ NoLookup

-----------------------------------------------------------------------------
(* Properties.                                                             *)

\* The type of a match (types.py, TitleMatchResult).
MatchTypeOK ==
  /\ match.phase \in {"fetch", "ask", "again", "guard", "verify", "lookup", "done"}
  /\ match.result.id \in Rows \cup Ghosts \cup {NoRow}
  /\ match.result.confidence \in 0 .. 100
  /\ match.result.decision \in Decisions

(***************************************************************************)
(* A row the guardrail refuses is not picked by a later step either: not   *)
(* from the runners-up, not by an overruling verdict, not by the second    *)
(* look-up ("Close the loop the guardrail opened": runner.py,              *)
(* runner_intl_v2.py); only a row that could not be read gets through.     *)
(***************************************************************************)
RefusedRowsStayOut ==
  match.phase = "done" /\ match.variant # "v1" /\ match.mode = "enforce" =>
    (Kind(match.result.id) = "refused" => match.result.id \in match.blind \ match.found)

(***************************************************************************)
(* A row that is accepted without review has the confidence of it, and in  *)
(* the domestic v2 it is the very row the model named: "a guardrail-       *)
(* swapped pick is always capped below 0.90 and forced to REVIEW"          *)
(* (docs/session_summary_2026-09-08.md), a looked-up one never accepted    *)
(* (post_lookup_v2.py).                                                    *)
(***************************************************************************)
AcceptedRowsAreEndorsed ==
  match.phase = "done" /\ match.result.decision = "AUTO_ACCEPT" /\ match.result.id # NoRow =>
    /\ match.result.confidence >= AutoAccept
    /\ match.variant = "v2" => match.result.id = match.named
================================================================================
