---------------------------- MODULE ChangeRequest ----------------------------
(***************************************************************************)
(* The GitHub side of one promotion, as far as the app can observe it: the *)
(* pull request of its Change Request, the deploy run of its merge commit  *)
(* and the gate of that run.  GitHub is external; the module contains what *)
(* genie_reviewer/github_app.py distinguishes in it.                       *)
(***************************************************************************)
EXTENDS Integers

CONSTANT Cases   \* the combinations of bounds to explore

ASSUME CasesAreBounded ==
  \A c \in Cases :
    /\ {c.window, c.pushes, c.reopens, c.reruns, c.notices, c.visits, c.faults} \subseteq Nat
    /\ c.flaky \in BOOLEAN
    /\ c.legible \in (SUBSET BOOLEAN) \ {{}}

VARIABLES
  bounds,    \* the case this behaviour belongs to
  pull,      \* the pull request
  review,    \* what its reviews decide (_pr_review_decision)
  run,       \* the deploy run of its merge commit
  pushes,    \* newer pushes to the base branch
  reopens,
  happened   \* what has ever been true (history)

gvars == <<bounds, pull, review, run, pushes, reopens, happened>>

Window     == bounds.window    \* workflow runs one page of the runs API shows
MaxPushes  == bounds.pushes    \* later pushes to the base branch
MaxReopens == bounds.reopens   \* reopenings of the pull request
MaxReruns  == bounds.reruns    \* re-runs of the deploy run
MaxNotices == bounds.notices   \* annotations one Attempt emits
Flaky      == bounds.flaky     \* may checks, reviews and revisions go against the author
Legible    == bounds.legible   \* is the revision pair of a run there for a pass that reads it

NoRun == [status |-> "none", conclusion |-> "none", attempt |-> 1, notices |-> 0]

GInit ==
  /\ bounds \in Cases
  /\ pull = [state |-> "open", merged |-> FALSE, checks |-> "pending", matches |-> TRUE]
  /\ review = "review_required"
  /\ run = NoRun
  /\ pushes = 0 /\ reopens = 0
  /\ happened = {"pr_opened"}

Open == pull.state = "open"

ChecksEnd ==
  /\ Open /\ pull.checks = "pending"
  /\ \E c \in (IF Flaky THEN {"success", "failure"} ELSE {"success"}) : pull' = [pull EXCEPT !.checks = c]
  /\ UNCHANGED <<bounds, review, run, pushes, reopens, happened>>

\* A reviewer approves, asks for changes, or the decision is dismissed.
Review ==
  /\ Open
  /\ \E d \in (IF Flaky THEN {"approved", "changes_requested", "review_required"} ELSE {"approved"}) :
       /\ d # review
       /\ review' = d
       /\ happened' = IF d = "approved" THEN happened \cup {"pr_review_approved"} ELSE happened
  /\ UNCHANGED <<bounds, pull, run, pushes, reopens>>

\* The branch moves on after the promotion was recorded: it no longer is the approved pair.
NewCommit ==
  /\ Open /\ Flaky /\ pull.matches
  /\ pull' = [pull EXCEPT !.matches = FALSE, !.checks = "pending"]
  /\ UNCHANGED <<bounds, review, run, pushes, reopens, happened>>

Close ==
  /\ Open
  /\ pull' = [pull EXCEPT !.state = "closed"]
  /\ happened' = happened \cup {"closed"}
  /\ UNCHANGED <<bounds, review, run, pushes, reopens>>

Reopen ==
  /\ pull.state = "closed" /\ ~pull.merged /\ reopens < MaxReopens
  /\ pull' = [pull EXCEPT !.state = "open"]
  /\ reopens' = reopens + 1
  /\ UNCHANGED <<bounds, review, run, pushes, happened>>

\* Whether a review is required is the repository's setting.
MergePull ==
  /\ Open /\ pull.checks = "success" /\ review # "changes_requested"
  /\ pull' = [pull EXCEPT !.state = "closed", !.merged = TRUE]
  /\ happened' = happened \cup {"merged"}
  /\ UNCHANGED <<bounds, review, run, pushes, reopens>>

\* The run appears some time after the merge, and is queued until a runner takes it.
RunAppears ==
  /\ pull.merged /\ run.status = "none"
  /\ run' = [run EXCEPT !.status = "queued"]
  /\ UNCHANGED <<bounds, pull, review, pushes, reopens, happened>>

RunWaits ==
  /\ run.status = "queued"
  /\ run' = [run EXCEPT !.status = "waiting"]
  /\ UNCHANGED <<bounds, pull, review, pushes, reopens, happened>>

ReleaseGate ==
  /\ run.status = "waiting"
  /\ run' = [run EXCEPT !.status = "in_progress"]
  /\ happened' = happened \cup {"deploy_approved"}
  /\ UNCHANGED <<bounds, pull, review, pushes, reopens>>

\* The Steward rejects the gate, or somebody cancels the run before it was released.
RejectGate ==
  /\ run.status \in {"queued", "waiting"} /\ Flaky
  /\ run' = [run EXCEPT !.status = "completed", !.conclusion = "failure"]
  /\ happened' = happened \cup {"failed"}
  /\ UNCHANGED <<bounds, pull, review, pushes, reopens>>

\* The Attempt under way annotates its evidence.
Notice ==
  /\ run.status = "in_progress" /\ run.notices < MaxNotices
  /\ run' = [run EXCEPT !.notices = @ + 1]
  /\ UNCHANGED <<bounds, pull, review, pushes, reopens, happened>>

RunEnds ==
  /\ run.status = "in_progress"
  /\ \E c \in {"success", "failure"} :
       /\ run' = [run EXCEPT !.status = "completed", !.conclusion = c]
       /\ happened' = happened \cup {IF c = "success" THEN "deployed" ELSE "failed"}
  /\ UNCHANGED <<bounds, pull, review, pushes, reopens>>

RerunFailed ==
  /\ run.status = "completed" /\ run.conclusion = "failure" /\ run.attempt <= MaxReruns
  /\ run' = [NoRun EXCEPT !.status = "queued", !.attempt = run.attempt + 1]
  /\ UNCHANGED <<bounds, pull, review, pushes, reopens, happened>>

\* Another promotion is merged: its run is newer than this one's.
OtherPush ==
  /\ pull.merged /\ run.status # "none" /\ pushes < MaxPushes
  /\ pushes' = pushes + 1
  /\ UNCHANGED <<bounds, pull, review, run, reopens, happened>>

GitHub ==
  \/ ChecksEnd \/ Review \/ NewCommit \/ Close \/ Reopen \/ MergePull
  \/ RunAppears \/ RunWaits \/ ReleaseGate \/ RejectGate \/ Notice \/ RunEnds \/ RerunFailed
  \/ OtherPush

GTypeOK ==
  /\ bounds \in Cases
  /\ pull \in [state : {"open", "closed"}, merged : BOOLEAN,
               checks : {"pending", "success", "failure"}, matches : BOOLEAN]
  /\ review \in {"review_required", "approved", "changes_requested"}
  /\ run \in [status : {"none", "queued", "waiting", "in_progress", "completed"},
              conclusion : {"none", "success", "failure"},
              attempt : 1 .. MaxReruns + 1, notices : 0 .. MaxNotices]

=============================================================================
