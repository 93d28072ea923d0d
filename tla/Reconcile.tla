------------------------------ MODULE Reconcile ------------------------------
(***************************************************************************)
(* app/reconcile.py over one promotion: browsers polling its status and    *)
(* the scheduled sweep each read the stored row, read GitHub call by call, *)
(* and append what is new to the audit trail, while GitHub moves on and    *)
(* the others do the same.  The trail is the atomic one of AuditLog, which *)
(* AuditAppend implements.                                                 *)
(***************************************************************************)
EXTENDS ChangeRequest, Sequences, FiniteSets

CONSTANTS
  Viewers,      \* browsers with the promotion open, on any replica
  Schedulers    \* replicas of the app, each with its scheduled reconciler

Pollers == Viewers \cup Schedulers

ASSUME PollersAreDistinct == Viewers \cap Schedulers = {}

VARIABLES
  row,      \* the promotion: current_phase and terminal
  trail,    \* its audit events, by seq
  mirror,   \* deployment_attempts: the newest notice stored per run attempt
  pc,       \* where each poller is in its pass
  view,     \* what it has read
  visits, faults,
  blind     \* a pass has seen the successful run but not its revision pair (history)

MaxVisits == bounds.visits   \* polls by browsers
MaxFaults == bounds.faults   \* exceptions and restarts half way

avars == <<row, trail, mirror, pc, view, visits, faults, blind>>
vars  == <<gvars, avars>>

-----------------------------------------------------------------------------
(* Pure functions of an observation.                                       *)

MILESTONE_ORDER ==
  <<"pr_opened", "pr_review_approved", "merged", "deploy_approved", "deployed", "failed", "closed">>

Milestones == {MILESTONE_ORDER[i] : i \in 1 .. Len(MILESTONE_ORDER)}

TERMINAL_PHASES == {"deployed", "deploy_failed", "closed"}

Phases == TERMINAL_PHASES \cup
  {"awaiting_approval", "deploying", "merged", "checks_running", "checks_failed", "open",
   "revision_mismatch"}

DerivePhase(p, r) ==
  IF p.merged
    THEN CASE r.status = "waiting"                  -> "awaiting_approval"
           [] r.status \in {"queued", "in_progress"} -> "deploying"
           [] r.status = "completed" -> IF r.conclusion = "success" THEN "deployed" ELSE "deploy_failed"
           [] OTHER                                 -> "merged"
  ELSE IF p.state = "closed" THEN "closed"
  ELSE CASE p.checks = "pending" -> "checks_running"
         [] p.checks = "failure" -> "checks_failed"
         [] OTHER                -> "open"

\* Slip: when this promotion's run is not on the page, the newest one stands for it.
VisibleRun_Newest(r, newer) ==
  IF newer < Window THEN r ELSE [NoRun EXCEPT !.status = "completed", !.conclusion = "success"]

\* _deploy_status: this promotion's run, when the page of runs still shows it; never another's.
VisibleRun(r, newer) == IF newer < Window THEN r ELSE NoRun

\* Slip: nobody compares the revision pairs.
Phase_Unchecked(p, r, legible) == DerivePhase(p, r)

\* reject_mismatched_deployment replaces the phase of a run of another revision pair, where the
\* pair of the run is legible; an observation without one is left alone.
Phase(p, r, legible) ==
  IF legible /\ ~p.matches /\ r.status \notin {"none", "waiting"}
    THEN "revision_mismatch" ELSE DerivePhase(p, r)

\* A merged pull request reads as approved; otherwise its reviews decide.
ReviewDecision(p, decision) == IF p.merged THEN "approved" ELSE decision

Reached(p, r, legible, decision) ==
  {"pr_opened"}
    \cup (IF decision = "approved" THEN {"pr_review_approved"} ELSE {})
    \cup (IF p.merged THEN {"merged"} ELSE {})
    \cup (IF r.status = "completed" THEN {"deploy_approved"} ELSE {})
    \cup (CASE Phase(p, r, legible) = "deployed"      -> {"deployed"}
            [] Phase(p, r, legible) = "deploy_failed" -> {"failed"}
            [] Phase(p, r, legible) = "closed"        -> {"closed"}
            [] OTHER                         -> {})

Recorded == {trail[i] : i \in 1 .. Len(trail)}

\* Slip: the newest milestone is appended first.
NextOf_NewestFirst(pending) ==
  MILESTONE_ORDER[CHOOSE i \in 1 .. Len(MILESTONE_ORDER) :
                    /\ MILESTONE_ORDER[i] \in pending
                    /\ \A j \in i + 1 .. Len(MILESTONE_ORDER) : MILESTONE_ORDER[j] \notin pending]

\* The first milestone of the canonical order still to append.
NextOf(pending) ==
  MILESTONE_ORDER[CHOOSE i \in 1 .. Len(MILESTONE_ORDER) :
                    /\ MILESTONE_ORDER[i] \in pending
                    /\ \A j \in 1 .. i - 1 : MILESTONE_ORDER[j] \notin pending]

-----------------------------------------------------------------------------
NoPull   == [state |-> "none", merged |-> FALSE, checks |-> "none", matches |-> TRUE]
NoStatus == [phase |-> "none", reached |-> {}, attempt |-> 1, notices |-> 0]
Nothing  == [rowPhase |-> "none", pull |-> NoPull, status |-> NoStatus, pending |-> {}, news |-> FALSE]

\* The promote endpoint stores the promotion of a pull request it has just opened.
Init ==
  /\ GInit
  /\ row = [phase |-> "open", terminal |-> FALSE]
  /\ trail = <<>>
  /\ mirror = [a \in 1 .. MaxReruns + 1 |-> 0]
  /\ pc = [v \in Pollers |-> "idle"]
  /\ view = [v \in Pollers |-> Nothing]
  /\ visits = 0 /\ faults = 0 /\ blind = FALSE

Goto(v, label) == pc' = [pc EXCEPT ![v] = label]

(* A browser polls whatever the row says; a sweep lists the non-terminal   *)
(* promotions.                                                             *)
Visit(v) ==
  /\ pc[v] = "idle"
  /\ IF v \in Viewers THEN visits < MaxVisits /\ visits' = visits + 1
                      ELSE ~row.terminal /\ visits' = visits
  /\ view' = [view EXCEPT ![v].rowPhase = row.phase]
  /\ Goto(v, "pull")
  /\ UNCHANGED <<gvars, row, trail, mirror, faults, blind>>

\* get_status: the pull request and its checks ...
ReadPull(v) ==
  /\ pc[v] = "pull"
  /\ view' = [view EXCEPT ![v].pull = pull]
  /\ Goto(v, "run")
  /\ UNCHANGED <<gvars, row, trail, mirror, visits, faults, blind>>

\* ... then the deploy run of its merge commit with its revision pair, or the reviews.
ReadRun(v) ==
  LET p == view[v].pull
      r == IF p.merged THEN VisibleRun(run, pushes) ELSE NoRun
  IN
  /\ pc[v] = "run"
  /\ \E legible \in Legible :
       /\ view' = [view EXCEPT ![v].status =
                     [phase   |-> Phase(p, r, legible),
                      reached |-> Reached(p, r, legible, ReviewDecision(p, review)),
                      attempt |-> r.attempt, notices |-> r.notices],
                               ![v].pull = NoPull]
       /\ blind' = (blind \/ (r.conclusion = "success" /\ ~legible))
  /\ Goto(v, "events")
  /\ UNCHANGED <<gvars, row, trail, mirror, visits, faults>>

\* Only a browser that shows the support details asks for the Attempt evidence.
HasEvidence(v) == v \in Viewers /\ view[v].status.notices > 0

ListEvents(v) ==
  /\ pc[v] = "events"
  /\ view' = [view EXCEPT ![v].pending = view[v].status.reached \ Recorded,
                          ![v].news = view[v].status.reached \ Recorded # {}]
  /\ Goto(v, IF HasEvidence(v) THEN "mirror" ELSE "append")
  /\ UNCHANGED <<gvars, row, trail, mirror, visits, faults, blind>>

\* upsert_deployment_attempt: the last write wins.
Mirror(v) ==
  LET s == view[v].status IN
  /\ pc[v] = "mirror"
  /\ mirror' = [mirror EXCEPT ![s.attempt] = s.notices]
  /\ Goto(v, "append")
  /\ UNCHANGED <<gvars, row, trail, view, visits, faults, blind>>

\* append_audit_event of the next milestone; None when another poller was first.
AppendEvent(v) ==
  LET e == NextOf(view[v].pending) IN
  /\ pc[v] = "append" /\ view[v].pending # {}
  /\ trail' = IF e \in Recorded THEN trail ELSE Append(trail, e)
  /\ view' = [view EXCEPT ![v].pending = @ \ {e}]
  /\ UNCHANGED <<gvars, row, mirror, pc, visits, faults, blind>>

\* Slip: the cache is written only when a milestone is new.
UpdateCache_OnNewsOnly(v) ==
  LET s == view[v].status IN
  /\ pc[v] = "append" /\ view[v].pending = {}
  /\ row' = IF view[v].news THEN [phase |-> s.phase, terminal |-> s.phase \in TERMINAL_PHASES]
                            ELSE row
  /\ view' = [view EXCEPT ![v] = Nothing]
  /\ Goto(v, "idle")
  /\ UNCHANGED <<gvars, trail, mirror, visits, faults, blind>>

\* update_cache, only on an actual change against the row as this pass has read it.
UpdateCache(v) ==
  LET s == view[v].status IN
  /\ pc[v] = "append" /\ view[v].pending = {}
  /\ row' = IF view[v].news \/ s.phase # view[v].rowPhase
              THEN [phase |-> s.phase, terminal |-> s.phase \in TERMINAL_PHASES]
              ELSE row
  /\ view' = [view EXCEPT ![v] = Nothing]
  /\ Goto(v, "idle")
  /\ UNCHANGED <<gvars, trail, mirror, visits, faults, blind>>

\* A call raises, or the process stops: the rest of the pass is dropped.
Abandon(v) ==
  /\ pc[v] # "idle" /\ faults < MaxFaults
  /\ faults' = faults + 1
  /\ view' = [view EXCEPT ![v] = Nothing]
  /\ Goto(v, "idle")
  /\ UNCHANGED <<gvars, row, trail, mirror, visits, blind>>

Pass(v) ==
  ReadPull(v) \/ ReadRun(v) \/ ListEvents(v) \/ Mirror(v) \/ AppendEvent(v) \/ UpdateCache(v)

Next ==
  \/ GitHub /\ UNCHANGED avars
  \/ \E v \in Pollers : Visit(v) \/ Pass(v) \/ Abandon(v)

Spec == Init /\ [][Next]_vars

(***************************************************************************)
(* The scheduled reconciler keeps sweeping (the loop survives a failed     *)
(* sweep) and a pass that has begun goes on.  No browser has to poll.      *)
(***************************************************************************)
FairSpec ==
  /\ Spec
  /\ \A v \in Schedulers : WF_vars(Visit(v))
  /\ \A v \in Pollers : WF_vars(Pass(v))

-----------------------------------------------------------------------------
TypeOK ==
  /\ GTypeOK
  /\ row \in [phase : Phases, terminal : BOOLEAN]
  /\ Recorded \subseteq Milestones
  /\ mirror \in [1 .. MaxReruns + 1 -> 0 .. MaxNotices]
  /\ pc \in [Pollers -> {"idle", "pull", "run", "events", "mirror", "append"}]
  /\ \A v \in Pollers : view[v].pending \subseteq Milestones /\ view[v].news \in BOOLEAN
  /\ visits \in 0 .. MaxVisits /\ faults \in 0 .. MaxFaults /\ blind \in BOOLEAN

\* The trail says merged, deployed, failed or closed only of what has happened to this very
\* promotion, and that its gate was passed only once its run has ended: reads at different
\* moments and other promotions' runs invent no outcome.
OutcomesHappened ==
  /\ Recorded \cap {"merged", "deployed", "failed", "closed"} \subseteq happened
  /\ "deploy_approved" \in Recorded => happened \cap {"deployed", "failed"} # {}

\* A run of a revision pair nobody approved is recorded as this promotion's deployment only by
\* a pass that could not read the pair of the run: no pass that could lets one through.
MismatchIsSeen == "deployed" \in Recorded /\ ~pull.matches => blind

Before(e, f) ==
  f \in Recorded => \E i, j \in 1 .. Len(trail) : i < j /\ trail[i] = e /\ trail[j] = f

\* Read by seq, the trail tells a possible story, whichever poller appended what: no outcome
\* of the deployment comes before the milestones that lead to it.
TrailIsOrdered ==
  /\ Before("pr_opened", "merged") /\ Before("pr_opened", "closed")
  /\ Before("merged", "deploy_approved")
  /\ Before("deploy_approved", "deployed") /\ Before("deploy_approved", "failed")

\* What a poller that read everything at this moment would conclude.
IsTruth(legible) ==
  /\ row.phase = Phase(pull, run, legible)
  /\ row.terminal = (row.phase \in TERMINAL_PHASES)
  /\ Reached(pull, run, legible, "review_required") \subseteq Recorded

\* However the passes of several pollers overlap, and whichever of them writes last, the row
\* finally says what GitHub says, and the outcome is in the trail, with no browser open
\* (reconcile.reconcile_all).  For a run of another revision pair, what GitHub says depends on
\* whether its pair could be read.  A pull request reopened, or a run re-run, after the sweep
\* has seen the end of the promotion is beyond it (terminal promotions are not visited), and
\* so is a run that later pushes have moved off the page.
CacheConverges ==
  <>[](reopens = 0 /\ run.attempt = 1 /\ pushes < Window => \E legible \in Legible : IsTruth(legible))

=============================================================================
