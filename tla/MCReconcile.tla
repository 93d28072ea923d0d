----------------------------- MODULE MCReconcile -----------------------------
(***************************************************************************)
(* Small instances of Reconcile: one browser, one scheduler.               *)
(***************************************************************************)
EXTENDS Reconcile

Smooth == [window |-> 2, pushes |-> 0, reopens |-> 0, reruns |-> 0, notices |-> 0,
           flaky |-> FALSE, legible |-> {TRUE}, visits |-> 0, faults |-> 0]

\* Checks, reviews, the revision and the gate go wrong, the pull request is reopened.
Adverse == [Smooth EXCEPT !.flaky = TRUE, !.reopens = 1]

\* The failed run is re-run, later pushes fill the page of runs.
Crowded == [Smooth EXCEPT !.window = 1, !.pushes = 1, !.reruns = 1, !.visits = 1]

\* Evidence is mirrored, a pass stops half way.
Interrupted == [Smooth EXCEPT !.notices = 1, !.visits = 1, !.faults = 1]

\* A read of the revision pair fails now and then; or never succeeds, as for a dashboard,
\* whose manifest has another name than _revision_pair looks for.
Blurred == [Smooth EXCEPT !.flaky = TRUE, !.legible = {TRUE, FALSE}]
Dashboard == [Blurred EXCEPT !.legible = {FALSE}]

HardCases == {Adverse, Crowded, Interrupted, Blurred, Dashboard}

=============================================================================
