----------------------------- MODULE RulesStore ------------------------------
(***************************************************************************)
(* rules_store.py over Postgres: the rows an administrator has put over    *)
(* the handbook, and the audit trail of each rule.  One statement is one   *)
(* step.  The insert of an audit event reads the highest seq of its own    *)
(* snapshot and fails when another one has committed that seq since: there *)
(* is no retry.                                                            *)
(***************************************************************************)
EXTENDS RulesConfig, Sequences

CONSTANT RetiredRules   \* rule ids every migration removes

VARIABLES
  rules,       \* rule_overrides
  ruleEvents   \* rule_audit_events, by rule and seq

HandbookIds == DOMAIN Handbook
CustomIds   == RuleIds \ HandbookIds

MigrateRules == rules' = [r \in RuleIds |-> IF r \in RetiredRules THEN NoRow ELSE rules[r]]

\* A row that seed_defaults writes: the rule as the handbook has it.
Seeded(r) == [NoRow EXCEPT !.stored = TRUE, !.severity = Handbook[r].severity, !.text = "handbook"]

UpsertRule(r, row) == rules' = [rules EXCEPT ![r] = row]
DeleteRule(r)      == rules' = [rules EXCEPT ![r] = NoRow]

\* The event of an upsert, by what its transaction found, and of a reset.
UpsertEvent(existing, row) == IF ~existing.stored /\ row.custom THEN "rule_created" ELSE "rule_updated"
ResetEvent(existing)       == IF existing.custom THEN "rule_deleted" ELSE "rule_reset"

RuleEvent(type, by) == [type |-> type, by |-> by]

InsertRuleEvent(r, seq, event) ==
  /\ Len(ruleEvents[r]) + 1 = seq
  /\ ruleEvents' = [ruleEvents EXCEPT ![r] = Append(@, event)]
=============================================================================
