--------------------------- MODULE ArtifactChecks ---------------------------
(***************************************************************************)
(* The checks of a definition that need no language model, as the review   *)
(* in the app and the jobs of a pull request share them: dashboard_check,  *)
(* audience_check, check_eval, check_dashboard_sql and render.sh.          *)
(*                                                                         *)
(* A definition has a kind, the places where it names tables, its widgets  *)
(* (the datasets that each one shows), its number of benchmark questions   *)
(* and whether a column looks like personal data.  Production is the       *)
(* principals of its directory, its tables, and who may select from them.  *)
(***************************************************************************)
EXTENDS PreRender, ReviewCore

\* The places of a definition: a query (of a dashboard: its dataset), and the prose of a
\* dashboard or the instructions and example queries of a Space.
Query(ref, dataset, parametrised) ==
  [ref |-> ref, prose |-> FALSE, dataset |-> dataset, parametrised |-> parametrised]
Aside(ref) == [ref |-> ref, prose |-> TRUE, dataset |-> None, parametrised |-> FALSE]

Queries(doc) == {place \in doc.places : ~place.prose}

\* genie_tables, dashboard_tables.
TablesOf(doc) == Refs(Queries(doc))

IsDashboard(doc) == doc.kind = "dashboard"

\* The plain rebind of the review, and of render.sh before the mapping.
Rebound(doc) == [doc EXCEPT !.places = Rebind(@, "dev", "prod")]

\* find_violations over what the kind scans.
Leaks(doc) == Violations(ScanText(doc.places, IsDashboard(doc)), "prod", {})

\* _pii_audience_findings.
PiiFindings(doc) == Raise(doc.pii, "PII-01", "SUGGESTION")

\* _dataset_names, _referenced_datasets over all widgets.
Defined(doc) == {place.dataset : place \in Queries(doc)}
Referenced(doc) == UNION doc.widgets

\* check_dashboard.
CheckDashboard(doc) ==
       Raise(doc.widgets = {}, "DASH-03", "BLOCKER")
  \cup Raise(Referenced(doc) \ Defined(doc) # {}, "DASH-01", "BLOCKER")
  \cup Raise(Defined(doc) \ Referenced(doc) # {}, "DASH-02", "SUGGESTION")
  \cup Raise(Violations(ProseText(doc.places), "prod", {}) # {}, "DASH-04", "SUGGESTION")

-----------------------------------------------------------------------------
(* What needs production.  down are the lookups that fail meanwhile.       *)

Lookups == {"directory", "catalog", "grants"}

Real(principals, prod, down)  == {p \in principals : "directory" \notin down /\ p \in prod.people}
There(doc, prod, down) == {t \in TablesOf(doc) : "catalog" \notin down /\ t \in prod.tables}

\* Slip: a directory that does not answer is a principal that does not exist.
CheckAudience_OutageIsMissing(doc, principals, prod, down) ==
  Raise(principals # Real(principals, prod, down), "AUDIENCE-01", "BLOCKER")

\* check_audience.
CheckAudience(doc, principals, prod, down) ==
  LET real  == Real(principals, prod, down)
      there == There(doc, prod, down)
  IN      Raise("directory" \in down /\ principals # {}, "AUDIENCE-01", "OPERATIONAL")
     \cup Raise("directory" \notin down /\ principals # real, "AUDIENCE-01", "BLOCKER")
     \cup Raise("catalog" \in down /\ TablesOf(doc) # {}, "AUDIENCE-01", "OPERATIONAL")
     \cup Raise("catalog" \notin down /\ TablesOf(doc) # there, "AUDIENCE-01", "BLOCKER")
     \cup Raise("grants" \in down /\ there # {}, "AUDIENCE-01", "OPERATIONAL")
     \cup Raise("grants" \notin down /\ there # {} /\ real \ prod.selects # {}, "AUDIENCE-01", "SUGGESTION")

-----------------------------------------------------------------------------
(* The jobs of a pull request: 0 is green.                                 *)

\* What render.sh writes: rebound, and then with the mapping of the pull request.
Rendered(doc, mapping) ==
  [doc EXCEPT !.places = ApplyTableMapping(Rebind(@, "dev", "prod"), mapping, "dev", "prod")]

\* Slip: looks for leaks only after the mapping, which may have taken one away.
RenderExit_CheckLast(doc, mapping) == IF Leaks(Rendered(doc, mapping)) # {} THEN 1 ELSE 0

\* render_one: the strict check of pre_render render, and again after apply-mapping.
RenderExit(doc, mapping) ==
  IF Leaks(Rebound(doc)) # {} THEN 2
  ELSE IF Leaks(Rendered(doc, mapping)) # {} THEN 1
  ELSE 0

\* check_eval.
EvalExit(doc, floor) == IF doc.benchmarks < floor THEN 1 ELSE 0

\* check_dashboard.py.
DashboardExit(doc) == IF Has(CheckDashboard(doc), "BLOCKER") THEN 1 ELSE 0

\* check_audience.py.
AudienceExit(findings) ==
  IF Has(findings, "OPERATIONAL") THEN 2
  ELSE IF Has(findings, "BLOCKER") THEN 1
  ELSE 0

Plannable(doc) == {place \in Queries(doc) : ~place.parametrised}

\* check_dashboard_sql: parametrised queries are skipped, but not all of them.
SqlExit(doc, prod, down) ==
  IF "catalog" \in down /\ Plannable(doc) # {} THEN 2
  ELSE IF \E place \in Plannable(doc) : place.ref \notin prod.tables THEN 1
  ELSE IF Queries(doc) # {} /\ Plannable(doc) = {} THEN 1
  ELSE 0
=============================================================================
