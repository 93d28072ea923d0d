----------------------------- MODULE ReviewCore -----------------------------
(***************************************************************************)
(* review_core.py and eval_gate.py: the verdicts of a review.              *)
(*                                                                         *)
(* A finding is the rule it cites and its severity.  What it says, and     *)
(* what the language model is shown, is not modelled: its answer may cite  *)
(* any rule with any severity, or be unreadable.                           *)
(***************************************************************************)
EXTENDS RulesConfig, FiniteSets

Finding(rule, severity) == [rule |-> rule, severity |-> severity]

\* The finding, where its condition holds.
Raise(condition, rule, severity) == IF condition THEN {Finding(rule, severity)} ELSE {}

Has(findings, severity) == \E f \in findings : f.severity = severity

\* Slip: takes any severity that the model makes up.
ParseFindings_Any(raw) == raw

\* parse_findings: an item that has no known severity is dropped.
ParseFindings(raw) == {f \in raw : f.severity \in Severities}

\* Slip: of two findings of one rule the model's is kept.
FinalizeFindings_ModelOwns(llm, deterministic, n, minimum, severity) ==
  LET all == deterministic \cup Raise(n < minimum, "EVAL-01", severity)
  IN llm \cup {f \in all : \A g \in llm : g.rule # f.rule}

\* finalize_findings: the deterministic findings own their rules, EVAL-01 counts the benchmarks.
FinalizeFindings(llm, deterministic, n, minimum, severity) ==
  LET owners == deterministic \cup Raise(n < minimum, "EVAL-01", severity)
  IN owners \cup {f \in llm : \A g \in owners : g.rule # f.rule}

Conclusions == {"success", "neutral", "failure", "operational_failure"}

\* decide_gate.
DecideGate(findings) ==
  IF Has(findings, "OPERATIONAL") THEN "operational_failure"
  ELSE IF findings = {} THEN "success"
  ELSE IF Has(findings, "BLOCKER") THEN "failure"
  ELSE "neutral"

\* build_timeline: the steps that are shown in red.
RedSteps(violations, conclusion, evalStatus, kind, findings) ==
  {step \in {"checks", "review", "quality"} :
     CASE step = "checks"  -> violations # {}
       [] step = "review"  -> conclusion = "failure"
       [] step = "quality" ->
            IF kind = "genie" THEN evalStatus = "block"
            ELSE \E f \in findings : f.rule \in {"DASH-01", "DASH-02", "DASH-03", "DASH-04"} /\ f.severity = "BLOCKER"}

-----------------------------------------------------------------------------
(* The eval-run.  Its result counts the questions that were answered       *)
(* right, wrong, and so that a person has to look; a result whose detail   *)
(* cannot be read is missing from what was read.                           *)

Results(n) == {result \in [correct : 0..n, incorrect : 0..n, review : 0..n] :
                 result.correct + result.incorrect + result.review = n}

Questions(result) == result.correct + result.incorrect + result.review

Parts(result) == [correct : 0..result.correct, incorrect : 0..result.incorrect, review : 0..result.review]

\* Slip: a question that a person has to look at counts as right.
Passed_Ambiguous(result) == result.correct + result.review

\* _decide_eval_with_questions and the counters of the run: only GOOD counts as passed.
Passed(result) == result.correct

\* decide_eval; the threshold is per cent.
DecideEval(passed, n, threshold) ==
  IF n = 0 THEN "advisory"
  ELSE IF 100 * passed < threshold * n THEN "block"
  ELSE "pass"

\* The end of run_eval_gate_rest: the questions that were read, the counters of the run when none was.
Verdict(result, read, threshold) ==
  LET counted == IF Questions(read) = 0 THEN result ELSE read
  IN DecideEval(Passed(counted), Questions(counted), threshold)
=============================================================================
