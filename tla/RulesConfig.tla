----------------------------- MODULE RulesConfig -----------------------------
(***************************************************************************)
(* rules_config.py: what a review is grounded on, merged from the rules of *)
(* the handbook and the rows an administrator has stored over them.        *)
(*                                                                         *)
(* rows maps every rule id to its stored row or to NoRow.  A field that    *)
(* the row leaves unset is None; a number it lacks, or that cannot be      *)
(* parsed, is Unusable.                                                    *)
(***************************************************************************)
EXTENDS Integers

CONSTANTS
  RuleIds,
  Handbook   \* each handbook rule: its severity and the kinds it applies to

ASSUME HandbookIsSane ==
  /\ DOMAIN Handbook \subseteq RuleIds
  /\ \A r \in DOMAIN Handbook : DOMAIN Handbook[r] = {"severity", "kinds"}

None     == "none"
Unusable == -1
Severities == {"BLOCKER", "SUGGESTION", "STYLE"}

NoRow == [stored |-> FALSE, custom |-> FALSE, enabled |-> TRUE, severity |-> None, text |-> None,
          benchmarks |-> Unusable, threshold |-> Unusable]

Stored(rows) == {r \in RuleIds : rows[r].stored}

\* A field of the override, where it sets one.
Set(field, default) == IF field = None THEN default ELSE field

\* rules_for_kind.
RulesForKind(kind) == {r \in DOMAIN Handbook : kind \in Handbook[r].kinds}

Rule(r, severity, text) == [id |-> r, severity |-> severity, text |-> text]

\* The handbook half of effective_rules: a disabled rule is dropped, an override replaces what it sets.
Grounding(rows, kind) ==
  {Rule(r, Set(rows[r].severity, Handbook[r].severity), Set(rows[r].text, "handbook")) :
     r \in {q \in RulesForKind(kind) : rows[q].enabled}}

\* Its custom half: never filtered by kind.
Custom(rows) ==
  {Rule(r, Set(rows[r].severity, "SUGGESTION"), Set(rows[r].text, "empty")) :
     r \in {q \in Stored(rows) : rows[q].custom /\ rows[q].enabled}}

EffectiveRules(rows, kind) == Grounding(rows, kind) \cup Custom(rows)

-----------------------------------------------------------------------------
(* The two numbers of EVAL-01 that no language model judges.               *)

DefaultBenchmarks == 2
DefaultThreshold  == 80     \* per cent

\* eval01_config: a disabled rule asks for no benchmark.
MinBenchmarks(row) ==
  IF ~row.enabled THEN 0
  ELSE IF row.benchmarks < 0 THEN DefaultBenchmarks
  ELSE row.benchmarks

EvalSeverity(row) == Set(row.severity, "BLOCKER")

\* eval_run_threshold: also in force while the rule is disabled.
Threshold(row) == IF row.threshold \in 0..100 THEN row.threshold ELSE DefaultThreshold
=============================================================================
