---------------------------- MODULE MCReviewGate ----------------------------
EXTENDS ReviewGate, TLC

MCRuleIds == {"ENV-01", "EVAL-01", "DASH-01", "CUSTOM"}

MCHandbook ==
  [r \in MCRuleIds \ {"CUSTOM"} |->
     [severity |-> "BLOCKER",
      kinds    |-> CASE r = "EVAL-01" -> {"genie"} [] r = "DASH-01" -> {"dashboard"} [] OTHER -> {"genie", "dashboard"}]]

Default == [r \in MCRuleIds |-> NoRow]

\* The defaults; EVAL-01 switched off, with its numbers kept; one benchmark, and a custom rule.
MCRowSets ==
  { Default,
    [Default EXCEPT !["EVAL-01"] = [@ EXCEPT !.stored = TRUE, !.enabled = FALSE, !.benchmarks = 2, !.threshold = 50]],
    [Default EXCEPT !["EVAL-01"] = [@ EXCEPT !.stored = TRUE, !.benchmarks = 1],
                    !["CUSTOM"]  = [@ EXCEPT !.stored = TRUE, !.custom = TRUE]] }

Sales(catalog)  == Ref(catalog, "sales", 0)
Orders(catalog) == Ref(catalog, "orders", 0)

Doc(kind, places, widgets, benchmarks, pii) ==
  [kind |-> kind, places |-> places, widgets |-> widgets, benchmarks |-> benchmarks, pii |-> pii]

Space(places, benchmarks, pii) == Doc("genie", places, {}, benchmarks, pii)
Dashboard(places, widgets)     == Doc("dashboard", places, widgets, 0, FALSE)

S == Query(Sales("dev"), "s", FALSE)
O == Query(Orders("dev"), "o", TRUE)

\* Spaces: sound; without benchmarks enough; with an example query on another catalog; in capitals.
\* Dashboards: sound; one widget without its dataset; empty; all parametrised, with prose on
\* another catalog; a query on another catalog.
MCDocs ==
  { Space({S, Aside(Orders("dev"))}, 2, FALSE), Space({S}, 1, FALSE),
    Space({S, Aside(Orders("other"))}, 2, TRUE), Space({Query(Sales("DEV"), None, FALSE)}, 2, FALSE),
    Dashboard({S, O}, {{"s"}, {"o"}}), Dashboard({S}, {{"s", "o"}}), Dashboard({S}, {}),
    Dashboard({O, Aside(Sales("other"))}, {{"o"}}),
    Dashboard({S, Query(Orders("other"), "o", FALSE)}, {{"s", "o"}}) }

Production(people, tables, selects) == [people |-> people, tables |-> tables, selects |-> selects]

\* The catalog of another domain is there as well.  All there; a table is missing, and nobody may select; the principal is missing.
MCProdStates ==
  LET tables == {Sales("prod"), Orders("prod"), Sales("other"), Orders("other")}
  IN { Production({"analysts"}, tables, {"analysts"}),
       Production({"analysts"}, tables \ {Sales("prod")}, {}), Production({}, tables, {}) }

Pair(s, t) == [source |-> s, target |-> t]

\* None; out of production; a foreign catalog into production.
MCMappings == { <<>>, <<Pair(Sales("dev"), Sales("other"))>>, <<Pair(Orders("other"), Orders("prod"))>> }
=============================================================================
