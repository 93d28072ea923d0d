--------------------------- MODULE MCAdminConsole ----------------------------
EXTENDS AdminConsole, TLC

\* Two rules of the handbook, and an id a migration retires, which only a custom rule can have.
MCRuleIds  == {"EVAL-01", "SQL-01", "GRANT-01"}
MCHandbook == [r \in {"EVAL-01", "SQL-01"} |->
                 IF r = "EVAL-01" THEN [severity |-> "BLOCKER", kinds |-> {"genie"}]
                                  ELSE [severity |-> "STYLE", kinds |-> {"genie", "dashboard"}]]

Disabled == [NoRow EXCEPT !.stored = TRUE, !.enabled = FALSE]
Softened == [NoRow EXCEPT !.stored = TRUE, !.severity = "STYLE"]
Added    == [NoRow EXCEPT !.stored = TRUE, !.custom = TRUE, !.severity = "BLOCKER", !.text = "text"]

MCOverrides  == {Disabled}
MCCustomRows == {Added}

AdminSymmetry == Permutations(People) \cup Permutations(Replicas)
=============================================================================
