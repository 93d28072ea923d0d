--------------------------- MODULE AttemptContract ---------------------------
(***************************************************************************)
(* What one production deployment Attempt promises to whoever reads its    *)
(* outcome, whatever stages it is made of: an Attempt that reports         *)
(* operational_failed has touched nothing, one that reports succeeded has  *)
(* settled every artifact it was asked to deploy, and an outcome once      *)
(* reported is final until the next Attempt begins.                        *)
(***************************************************************************)
CONSTANT Artifacts

VARIABLES
  outcome,   \* how the latest Attempt stands
  touched,   \* has it changed production
  wanted,    \* the artifacts it deploys
  settled    \* those it has finished with

cvars == <<outcome, touched, wanted, settled>>

Outcomes == {"none", "running", "operational_failed", "partial_failed", "succeeded", "lost"}

CTypeOK ==
  /\ outcome \in Outcomes
  /\ touched \in BOOLEAN
  /\ wanted \subseteq Artifacts
  /\ settled \subseteq wanted

CInit ==
  /\ outcome = "none"
  /\ touched = FALSE
  /\ wanted = {}
  /\ settled = {}

\* An Attempt begins when no other one is running.
Begin ==
  /\ outcome # "running"
  /\ outcome' = "running"
  /\ touched' = FALSE
  /\ wanted' \in SUBSET Artifacts
  /\ settled' = {}

\* It works on production; an artifact it has settled stays settled.
Work ==
  /\ outcome = "running"
  /\ touched' \in {touched, TRUE}
  /\ settled \subseteq settled'
  /\ settled' \subseteq wanted
  /\ settled' # {} => touched'
  /\ UNCHANGED <<outcome, wanted>>

\* It refuses before it has touched anything ...
Refuse ==
  /\ outcome = "running" /\ ~touched
  /\ outcome' = "operational_failed"
  /\ UNCHANGED <<touched, wanted, settled>>

\* ... or gives up half way ...
GiveUp ==
  /\ outcome = "running"
  /\ outcome' = "partial_failed"
  /\ UNCHANGED <<touched, wanted, settled>>

\* ... or finishes with everything settled ...
Finish ==
  /\ outcome = "running" /\ settled = wanted
  /\ outcome' = "succeeded"
  /\ UNCHANGED <<touched, wanted, settled>>

\* ... or its runner disappears without a report.
Vanish ==
  /\ outcome = "running"
  /\ outcome' = "lost"
  /\ UNCHANGED <<touched, wanted, settled>>

CNext == Begin \/ Work \/ Refuse \/ GiveUp \/ Finish \/ Vanish

CSpec == CInit /\ [][CNext]_cvars

=============================================================================
