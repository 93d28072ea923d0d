--------------------------- MODULE ReconcileProofs ---------------------------
(***************************************************************************)
(* What the trail says of a promotion, for any number of browsers and      *)
(* schedulers and every bound: it has happened, to the approved revision   *)
(* unless a pass could not read the revision of the run, and in an order   *)
(* that tells a possible story.                                            *)
(***************************************************************************)
EXTENDS Reconcile, TLAPS

Outcomes == {"merged", "deployed", "failed", "closed"}

-----------------------------------------------------------------------------
(* The inductive invariant.                                                *)

Pulls == [state : {"none", "open", "closed"}, merged : BOOLEAN,
          checks : {"none", "pending", "success", "failure"}, matches : BOOLEAN]

Runs == [status : {"none", "queued", "waiting", "in_progress", "completed"},
         conclusion : {"none", "success", "failure"}, attempt : Int, notices : Int]

SomePhase == Phases \cup {"none"}

Statuses == [phase : SomePhase, reached : SUBSET Milestones, attempt : Int, notices : Int]

Views == [rowPhase : SomePhase, pull : Pulls, status : Statuses, pending : SUBSET Milestones, news : BOOLEAN]

Shapes ==
  /\ pull \in Pulls /\ pull.state # "none"
  /\ run \in Runs
  /\ row \in [phase : SomePhase, terminal : BOOLEAN]
  /\ trail \in Seq(Milestones)
  /\ view \in [Pollers -> Views]
  /\ blind \in BOOLEAN

\* What is to be seen of the promotion has happened; only a merge has a run.
SeenHasHappened ==
  /\ pull.merged => pull.state = "closed" /\ "merged" \in happened
  /\ pull.state = "closed" /\ ~pull.merged => "closed" \in happened
  /\ run.status # "none" => pull.merged
  /\ run.status = "completed" =>
       IF run.conclusion = "success" THEN "deployed" \in happened ELSE "failed" \in happened

\* A poller's copy of the pull request may be old, but a merge is for good.
CopyIsPast(p) ==
  /\ p.merged => pull.merged /\ p.matches = pull.matches /\ "merged" \in happened
  /\ p.state = "closed" /\ ~p.merged => "closed" \in happened

\* Milestones that may be recorded: they have happened, and to the approved revision, unless
\* the revision of the run was not to be read.
JustifiedUnless(unread, S) ==
  /\ S \cap Outcomes \subseteq happened
  /\ "deploy_approved" \in S => happened \cap {"deployed", "failed"} # {}
  /\ "deployed" \in S => pull.merged /\ (pull.matches \/ unread)

Justified(S) == JustifiedUnless(blind, S)

\* Milestones that come with those that lead to them.
Story(S) ==
  /\ "merged" \in S \/ "closed" \in S => "pr_opened" \in S
  /\ "deploy_approved" \in S => "merged" \in S
  /\ "deployed" \in S \/ "failed" \in S => "deploy_approved" \in S

PassIsSound(v) ==
  /\ CopyIsPast(view[v].pull)
  /\ Justified(view[v].status.reached) /\ Story(view[v].status.reached)
  /\ Justified(view[v].pending) /\ Story(view[v].pending \cup Recorded)

TrailInv ==
  /\ Shapes
  /\ SeenHasHappened
  /\ \A v \in Pollers : PassIsSound(v)
  /\ Justified(Recorded)
  /\ TrailIsOrdered

-----------------------------------------------------------------------------
(* The trail.                                                              *)

LEMMA MilestoneNames ==
  /\ Milestones = {"pr_opened", "pr_review_approved", "merged", "deploy_approved", "deployed", "failed", "closed"}
  /\ Len(MILESTONE_ORDER) = 7
  /\ MILESTONE_ORDER[1] = "pr_opened" /\ MILESTONE_ORDER[2] = "pr_review_approved"
  /\ MILESTONE_ORDER[3] = "merged" /\ MILESTONE_ORDER[4] = "deploy_approved"
  /\ MILESTONE_ORDER[5] = "deployed" /\ MILESTONE_ORDER[6] = "failed"
  /\ MILESTONE_ORDER[7] = "closed"
<1>1. Len(MILESTONE_ORDER) = 7
  BY DEF MILESTONE_ORDER
<1>2. /\ MILESTONE_ORDER[1] = "pr_opened" /\ MILESTONE_ORDER[2] = "pr_review_approved"
      /\ MILESTONE_ORDER[3] = "merged" /\ MILESTONE_ORDER[4] = "deploy_approved"
      /\ MILESTONE_ORDER[5] = "deployed" /\ MILESTONE_ORDER[6] = "failed"
      /\ MILESTONE_ORDER[7] = "closed"
  BY DEF MILESTONE_ORDER
<1>3. 1 .. 7 = {1, 2, 3, 4, 5, 6, 7}
  OBVIOUS
<1>4. Milestones = {MILESTONE_ORDER[i] : i \in {1, 2, 3, 4, 5, 6, 7}}
  BY <1>1, <1>3 DEF Milestones
<1> QED BY <1>1, <1>2, <1>4

\* The next milestone is the first pending one: those that lead to it are not pending.
LEMMA NextIsFirst ==
  ASSUME NEW S \in SUBSET Milestones, S # {}
  PROVE  /\ NextOf(S) \in S
         /\ NextOf(S) \in {"merged", "closed"} => "pr_opened" \notin S
         /\ NextOf(S) = "deploy_approved" => "merged" \notin S
         /\ NextOf(S) \in {"deployed", "failed"} => "deploy_approved" \notin S
<1> DEFINE First(i) == /\ MILESTONE_ORDER[i] \in S
                       /\ \A j \in 1 .. i - 1 : MILESTONE_ORDER[j] \notin S
<1> DEFINE i0 == CHOOSE i \in 1 .. Len(MILESTONE_ORDER) : First(i)
<1>1. \E i \in 1 .. 7 : MILESTONE_ORDER[i] \in S
  <2>1. PICK m \in S : m \in Milestones
    OBVIOUS
  <2> QED BY <2>1, MilestoneNames
<1>2. \E i \in 1 .. 7 : First(i)
  <2>1. CASE "pr_opened" \in S
    BY <2>1, MilestoneNames
  <2>2. CASE "pr_opened" \notin S /\ "pr_review_approved" \in S
    <3>1. First(2)  BY <2>2, MilestoneNames
    <3> QED BY <3>1
  <2>3. CASE S \cap {"pr_opened", "pr_review_approved"} = {} /\ "merged" \in S
    <3>1. 1 .. 3 - 1 = {1, 2}  OBVIOUS
    <3>2. First(3)  BY <2>3, <3>1, MilestoneNames
    <3> QED BY <3>2
  <2>4. CASE S \cap {"pr_opened", "pr_review_approved", "merged"} = {} /\ "deploy_approved" \in S
    <3>1. 1 .. 4 - 1 = {1, 2, 3}  OBVIOUS
    <3>2. First(4)  BY <2>4, <3>1, MilestoneNames
    <3> QED BY <3>2
  <2>5. CASE S \cap {"pr_opened", "pr_review_approved", "merged", "deploy_approved"} = {} /\ "deployed" \in S
    <3>1. 1 .. 5 - 1 = {1, 2, 3, 4}  OBVIOUS
    <3>2. First(5)  BY <2>5, <3>1, MilestoneNames
    <3> QED BY <3>2
  <2>6. CASE S \cap {"pr_opened", "pr_review_approved", "merged", "deploy_approved", "deployed"} = {} /\ "failed" \in S
    <3>1. 1 .. 6 - 1 = {1, 2, 3, 4, 5}  OBVIOUS
    <3>2. First(6)  BY <2>6, <3>1, MilestoneNames
    <3> QED BY <3>2
  <2>7. CASE S \subseteq {"closed"}
    <3>1. 1 .. 7 - 1 = {1, 2, 3, 4, 5, 6}  OBVIOUS
    <3>2. First(7)  BY <2>7, <3>1, MilestoneNames
    <3> QED BY <3>2
  <2>8. S \subseteq {"pr_opened", "pr_review_approved", "merged", "deploy_approved", "deployed", "failed", "closed"}
    BY MilestoneNames
  <2> QED BY <2>1, <2>2, <2>3, <2>4, <2>5, <2>6, <2>7, <2>8
<1>3. i0 \in 1 .. 7 /\ First(i0)
  BY <1>2, MilestoneNames
<1>4. NextOf(S) = MILESTONE_ORDER[i0]
  BY DEF NextOf
<1> HIDE DEF i0
<1>5. NextOf(S) \in S /\ \A j \in 1 .. i0 - 1 : MILESTONE_ORDER[j] \notin S
  BY <1>3, <1>4
<1>6. i0 \in {1, 2, 3, 4, 5, 6, 7}
  BY <1>3
<1>7. NextOf(S) \in {"merged", "closed"} => "pr_opened" \notin S
  BY <1>4, <1>5, <1>6, MilestoneNames
<1>8. NextOf(S) = "deploy_approved" => "merged" \notin S
  <2>1. NextOf(S) = "deploy_approved" => i0 = 4
    BY <1>4, <1>6, MilestoneNames
  <2>2. 3 \in 1 .. 4 - 1
    OBVIOUS
  <2> QED BY <1>5, <2>1, <2>2, MilestoneNames
<1>9. NextOf(S) \in {"deployed", "failed"} => "deploy_approved" \notin S
  BY <1>4, <1>5, <1>6, MilestoneNames
<1> QED BY <1>5, <1>7, <1>8, <1>9

LEMMA RecordedAppend ==
  ASSUME trail \in Seq(Milestones), NEW e \in Milestones, trail' = Append(trail, e)
  PROVE  Recorded' = Recorded \cup {e}
<1>1. Len(trail') = Len(trail) + 1 /\ Len(trail) \in Nat
  OBVIOUS
<1>2. trail'[Len(trail) + 1] = e /\ \A i \in 1 .. Len(trail) : trail'[i] = trail[i]
  OBVIOUS
<1>3. 1 .. Len(trail) + 1 = (1 .. Len(trail)) \cup {Len(trail) + 1}
  BY <1>1
<1> QED BY <1>1, <1>2, <1>3 DEF Recorded

\* A milestone whose predecessor is recorded may be appended.
LEMMA BeforeAppend ==
  ASSUME trail \in Seq(Milestones), NEW e \in Milestones, trail' = Append(trail, e),
         NEW a, NEW b, Before(a, b), e = b => a \in Recorded
  PROVE  Before(a, b)'
<1>1. Len(trail') = Len(trail) + 1 /\ Len(trail) \in Nat
  OBVIOUS
<1>2. trail'[Len(trail) + 1] = e /\ \A i \in 1 .. Len(trail) : trail'[i] = trail[i]
  OBVIOUS
<1>3. CASE b \in Recorded
  <2>1. PICK i, j \in 1 .. Len(trail) : i < j /\ trail[i] = a /\ trail[j] = b
    BY <1>3 DEF Before
  <2> QED BY <1>1, <1>2, <2>1 DEF Before
<1>4. CASE b \notin Recorded /\ e = b
  <2>1. PICK i \in 1 .. Len(trail) : trail[i] = a
    BY <1>4 DEF Recorded
  <2>2. i < Len(trail) + 1 /\ trail'[i] = a /\ trail'[Len(trail) + 1] = b
    BY <1>1, <1>2, <1>4, <2>1
  <2> QED BY <1>1, <2>1, <2>2 DEF Before
<1>5. CASE b \notin Recorded /\ e # b
  BY <1>5, RecordedAppend DEF Before
<1> QED BY <1>3, <1>4, <1>5

LEMMA StoryOfTheTrail ==
  ASSUME TrailIsOrdered
  PROVE  Story(Recorded)
<1>1. \A a, b : Before(a, b) /\ b \in Recorded => a \in Recorded
  BY DEF Before, Recorded
<1> QED BY <1>1 DEF TrailIsOrdered, Story

LEMMA StoriesUnite ==
  ASSUME NEW S, NEW T, Story(S), Story(T)
  PROVE  Story(S \cup T)
BY DEF Story

-----------------------------------------------------------------------------
(* The steps.                                                              *)

LEMMA NothingIsAView == Nothing \in Views
BY DEF Nothing, NoPull, NoStatus, Views, Pulls, Statuses, SomePhase

LEMMA TrailInit == Init => TrailInv
<1> SUFFICES ASSUME Init PROVE TrailInv
  OBVIOUS
<1>1. Shapes
  <2>1. Nothing \in Views
    BY NothingIsAView
  <2>2. blind = FALSE /\ blind \in BOOLEAN
    BY DEF Init
  <2>3. /\ pull \in Pulls /\ pull.state # "none" /\ run \in Runs
        /\ row \in [phase : SomePhase, terminal : BOOLEAN] /\ trail \in Seq(Milestones)
    BY DEF Init, GInit, Pulls, Runs, SomePhase, Phases, NoRun
  <2>4. view \in [Pollers -> Views]
    BY <2>1 DEF Init
  <2> QED BY <2>2, <2>3, <2>4 DEF Shapes
<1>2. SeenHasHappened
  BY DEF Init, GInit, SeenHasHappened, NoRun
<1>3. Recorded = {}
  BY DEF Init, Recorded
<1>4. \A v \in Pollers : PassIsSound(v)
  BY <1>3 DEF Init, PassIsSound, CopyIsPast, Justified, JustifiedUnless, Story, Nothing, NoPull, NoStatus
<1>5. Justified(Recorded) /\ TrailIsOrdered
  BY <1>3 DEF Justified, JustifiedUnless, TrailIsOrdered, Before
<1> QED BY <1>1, <1>2, <1>4, <1>5 DEF TrailInv

\* GitHub only adds to what has happened, and a merge is for good.
LEMMA GitHubGoesOn ==
  ASSUME TrailInv, GitHub
  PROVE  /\ SeenHasHappened' /\ happened \subseteq happened'
         /\ pull.merged => pull' = pull
         /\ pull' \in Pulls /\ pull'.state # "none" /\ run' \in Runs
<1> USE DEF TrailInv, Shapes, SeenHasHappened, Open, Pulls, Runs
<1>1. CASE ChecksEnd
  BY <1>1 DEF ChecksEnd
<1>2. CASE Review
  BY <1>2 DEF Review
<1>3. CASE NewCommit
  BY <1>3 DEF NewCommit
<1>4. CASE Close
  BY <1>4 DEF Close
<1>5. CASE Reopen
  BY <1>5 DEF Reopen
<1>6. CASE MergePull
  BY <1>6 DEF MergePull
<1>7. CASE RunAppears
  BY <1>7 DEF RunAppears
<1>8. CASE RunWaits
  BY <1>8 DEF RunWaits
<1>9. CASE ReleaseGate
  BY <1>9 DEF ReleaseGate
<1>10. CASE RejectGate
  BY <1>10 DEF RejectGate
<1>11. CASE Notice
  BY <1>11 DEF Notice
<1>12. CASE RunEnds
  BY <1>12 DEF RunEnds
<1>13. CASE RerunFailed
  <2>1. /\ run' = [NoRun EXCEPT !.status = "queued", !.attempt = run.attempt + 1]
        /\ UNCHANGED <<pull, happened>> /\ run.status = "completed"
    BY <1>13 DEF RerunFailed
  <2>2. run' = [status |-> "queued", conclusion |-> "none", attempt |-> run.attempt + 1, notices |-> 0]
    BY <2>1 DEF NoRun
  <2>3. run' \in Runs /\ run'.status = "queued"
    BY <2>2
  <2> QED BY <2>1, <2>3
<1>14. CASE OtherPush
  BY <1>14 DEF OtherPush
<1> QED BY <1>1, <1>2, <1>3, <1>4, <1>5, <1>6, <1>7, <1>8, <1>9, <1>10, <1>11, <1>12, <1>13, <1>14 DEF GitHub

LEMMA GitHubStep ==
  ASSUME TrailInv, GitHub, UNCHANGED avars
  PROVE  TrailInv'
<1>1. UNCHANGED <<row, trail, view, blind>> /\ Recorded' = Recorded
  BY DEF avars, Recorded
<1>2. \A S : Justified(S) => Justified(S)'
  BY <1>1, GitHubGoesOn DEF Justified, JustifiedUnless
<1>3. \A p : CopyIsPast(p) => CopyIsPast(p)'
  BY GitHubGoesOn DEF CopyIsPast
<1>4. Shapes'
  BY <1>1, GitHubGoesOn DEF TrailInv, Shapes
<1>5. \A v \in Pollers : PassIsSound(v)'
  BY <1>1, <1>2, <1>3 DEF TrailInv, PassIsSound
<1>6. Justified(Recorded)' /\ TrailIsOrdered'
  BY <1>1, <1>2 DEF TrailInv, TrailIsOrdered, Before
<1> QED BY <1>4, <1>5, <1>6, GitHubGoesOn DEF TrailInv

\* A step of a poller that appends nothing: its view becomes x.
LEMMA OffTheTrail ==
  ASSUME TrailInv, NEW v \in Pollers, NEW x \in Views, view' = [view EXCEPT ![v] = x],
         UNCHANGED <<pull, run, happened, trail>>, row' \in [phase : SomePhase, terminal : BOOLEAN],
         blind' \in BOOLEAN, blind => blind',
         CopyIsPast(x.pull), Justified(x.status.reached)', Story(x.status.reached),
         Justified(x.pending), Story(x.pending \cup Recorded)
  PROVE  TrailInv'
<1>1. Recorded' = Recorded
  BY DEF Recorded
<1>2. view'[v] = x /\ \A w \in Pollers \ {v} : view'[w] = view[w]
  BY DEF TrailInv, Shapes
<1>3. Shapes'
  BY DEF TrailInv, Shapes
<1>4. \A S : Justified(S) => Justified(S)'
  BY DEF Justified, JustifiedUnless
<1>5. \A p : CopyIsPast(p)' <=> CopyIsPast(p)
  BY DEF CopyIsPast
<1>6. ASSUME NEW w \in Pollers PROVE PassIsSound(w)'
  <2>1. CASE w = v
    BY <1>1, <1>2, <1>4, <1>5, <2>1 DEF PassIsSound
  <2>2. CASE w # v
    BY <1>1, <1>2, <1>4, <1>5, <2>2 DEF TrailInv, PassIsSound
  <2> QED BY <2>1, <2>2
<1>7. SeenHasHappened'
  BY DEF TrailInv, SeenHasHappened
<1>8. Justified(Recorded)' /\ TrailIsOrdered'
  BY <1>1, <1>4 DEF TrailInv, TrailIsOrdered, Before
<1> QED BY <1>3, <1>6, <1>7, <1>8 DEF TrailInv

\* ... and that has not read a run.
LEMMA OffTheRun ==
  ASSUME TrailInv, NEW v \in Pollers, NEW x \in Views, view' = [view EXCEPT ![v] = x],
         UNCHANGED <<pull, run, happened, trail, blind>>, row' \in [phase : SomePhase, terminal : BOOLEAN],
         CopyIsPast(x.pull), Justified(x.status.reached), Story(x.status.reached),
         Justified(x.pending), Story(x.pending \cup Recorded)
  PROVE  TrailInv'
<1>1. blind' \in BOOLEAN
  BY DEF TrailInv, Shapes
<1>2. blind => blind'
  OBVIOUS
<1>3. Justified(x.status.reached)'
  BY DEF Justified, JustifiedUnless
<1> QED BY <1>1, <1>2, <1>3, OffTheTrail

\* What a pass concludes from its copy of the pull request and from the run it sees.
LEMMA ReachedIsSound ==
  ASSUME TrailInv, NEW p, CopyIsPast(p), p.merged \in BOOLEAN, NEW legible,
         NEW r, r = NoRun \/ (r = run /\ p.merged), NEW decision
  PROVE  /\ Reached(p, r, legible, decision) \in SUBSET Milestones
         /\ JustifiedUnless(r.conclusion = "success" /\ ~legible, Reached(p, r, legible, decision))
         /\ Story(Reached(p, r, legible, decision))
         /\ Phase(p, r, legible) \in Phases
<1> DEFINE phase == Phase(p, r, legible)
           R == Reached(p, r, legible, decision)
<1>1. phase \in Phases
  BY DEF Phase, DerivePhase, Phases, TERMINAL_PHASES
<1>2. phase = "deployed" => /\ p.merged /\ (p.matches \/ ~legible)
                            /\ r = run /\ run.status = "completed" /\ run.conclusion = "success"
  BY DEF Phase, DerivePhase, NoRun
<1>3. phase = "deploy_failed" => /\ p.merged /\ r = run
                                 /\ run.status = "completed" /\ run.conclusion # "success"
  BY DEF Phase, DerivePhase, NoRun
<1>4. phase = "closed" => ~p.merged /\ p.state = "closed"
  BY DEF Phase, DerivePhase
<1>5. r.status = "completed" => p.merged /\ r = run
  BY DEF NoRun
<1>6. R \in SUBSET Milestones
  BY MilestoneNames DEF Reached
<1>7. /\ "merged" \in R <=> p.merged
      /\ "deploy_approved" \in R <=> r.status = "completed"
      /\ "deployed" \in R <=> phase = "deployed"
      /\ "failed" \in R <=> phase = "deploy_failed"
      /\ "closed" \in R <=> phase = "closed"
      /\ "pr_opened" \in R
  BY DEF Reached
<1> HIDE DEF phase, R
<1>8. JustifiedUnless(r.conclusion = "success" /\ ~legible, R)
  BY <1>2, <1>3, <1>4, <1>5, <1>7 DEF JustifiedUnless, Outcomes, CopyIsPast, TrailInv, SeenHasHappened
<1>9. Story(R)
  BY <1>2, <1>3, <1>4, <1>5, <1>7 DEF Story
<1> QED BY <1>1, <1>6, <1>8, <1>9 DEF phase, R

\* What every pass begins and ends with.
LEMMA NothingIsSound ==
  ASSUME TrailInv
  PROVE  /\ CopyIsPast(Nothing.pull) /\ Justified(Nothing.status.reached) /\ Story(Nothing.status.reached)
         /\ Justified(Nothing.pending) /\ Story(Nothing.pending \cup Recorded)
<1>1. Story(Recorded)
  BY StoryOfTheTrail DEF TrailInv
<1>2. Nothing.pending = {} /\ Nothing.pending \cup Recorded = Recorded
  BY DEF Nothing
<1>3. Nothing.status.reached = {} /\ Nothing.pull = NoPull
  BY DEF Nothing, NoStatus
<1>4. CopyIsPast(NoPull)
  BY DEF CopyIsPast, NoPull
<1>5. Justified({}) /\ Story({})
  BY DEF Justified, JustifiedUnless, Story
<1> QED BY <1>1, <1>2, <1>3, <1>4, <1>5

LEMMA AppendStep ==
  ASSUME TrailInv, NEW v \in Pollers, AppendEvent(v)
  PROVE  TrailInv'
<1> DEFINE e == NextOf(view[v].pending)
<1>1. view[v].pending \in SUBSET Milestones /\ view[v].pending # {}
  BY DEF AppendEvent, TrailInv, Shapes, Views
<1>2. e \in view[v].pending /\ e \in Milestones
  BY <1>1, NextIsFirst
<1>3. /\ e \in {"merged", "closed"} => "pr_opened" \in Recorded
      /\ e = "deploy_approved" => "merged" \in Recorded
      /\ e \in {"deployed", "failed"} => "deploy_approved" \in Recorded
  <2>1. /\ e \in {"merged", "closed"} => "pr_opened" \notin view[v].pending
        /\ e = "deploy_approved" => "merged" \notin view[v].pending
        /\ e \in {"deployed", "failed"} => "deploy_approved" \notin view[v].pending
    BY <1>1, NextIsFirst
  <2>2. Story(view[v].pending \cup Recorded)
    BY DEF TrailInv, PassIsSound
  <2> HIDE DEF e
  <2> QED BY <1>2, <2>1, <2>2 DEF Story
<1>4. /\ trail' = IF e \in Recorded THEN trail ELSE Append(trail, e)
      /\ view' = [view EXCEPT ![v].pending = @ \ {e}]
      /\ UNCHANGED <<pull, run, happened, row, blind>>
  BY DEF AppendEvent, gvars
<1> HIDE DEF e
<1>5. trail \in Seq(Milestones) /\ trail' \in Seq(Milestones)
  BY <1>2, <1>4 DEF TrailInv, Shapes
<1>6. Recorded' = Recorded \cup {e}
  <2>1. CASE e \in Recorded
    BY <1>4, <2>1 DEF Recorded
  <2>2. CASE e \notin Recorded
    BY <1>2, <1>4, <1>5, <2>2, RecordedAppend
  <2> QED BY <2>1, <2>2
<1>7. TrailIsOrdered'
  <2>1. CASE e \in Recorded
    BY <1>4, <2>1 DEF TrailInv, TrailIsOrdered, Before, Recorded
  <2>2. CASE e \notin Recorded
    <3>1. trail' = Append(trail, e)
      BY <1>4, <2>2
    <3>2. \A a, b : Before(a, b) /\ (e = b => a \in Recorded) => Before(a, b)'
      BY <1>2, <1>5, <3>1, BeforeAppend
    <3> QED BY <1>3, <3>2 DEF TrailInv, TrailIsOrdered
  <2> QED BY <2>1, <2>2
<1>8. Justified(Recorded)'
  BY <1>2, <1>4, <1>6 DEF TrailInv, PassIsSound, Justified, JustifiedUnless
<1>9. Shapes'
  <2>1. [view[v] EXCEPT !.pending = @ \ {e}] \in Views
    BY DEF TrailInv, Shapes, Views
  <2> QED BY <1>4, <1>5, <2>1 DEF TrailInv, Shapes
<1>10. view'[v].pending = view[v].pending \ {e} /\ view'[v].pull = view[v].pull
         /\ view'[v].status = view[v].status
  BY <1>4 DEF TrailInv, Shapes, Views
<1>11. \A w \in Pollers \ {v} : view'[w] = view[w]
  BY <1>4 DEF TrailInv, Shapes
<1>12. Story(Recorded \cup {e})
  BY <1>3, StoryOfTheTrail DEF TrailInv, Story
<1>13. ASSUME NEW w \in Pollers PROVE PassIsSound(w)'
  <2>1. view'[w].pull = view[w].pull /\ view'[w].status = view[w].status
    BY <1>10, <1>11
  <2>2. view'[w].pending \subseteq view[w].pending
        /\ view'[w].pending \cup Recorded' = (view[w].pending \cup Recorded) \cup (Recorded \cup {e})
    BY <1>2, <1>6, <1>10, <1>11
  <2>3. Story(view[w].pending \cup Recorded)'
    <3>1. Story(view[w].pending \cup Recorded)
      BY DEF TrailInv, PassIsSound
    <3>2. Story((view[w].pending \cup Recorded) \cup (Recorded \cup {e}))
      BY <1>12, <3>1, StoriesUnite
    <3> QED BY <2>2, <3>2 DEF Story
  <2>4. Justified(view[w].pending)'
    <3>1. Justified(view[w].pending)
      BY DEF TrailInv, PassIsSound
    <3> QED BY <1>4, <2>2, <3>1 DEF Justified, JustifiedUnless
  <2>5. /\ CopyIsPast(view[w].pull)'
        /\ Justified(view[w].status.reached)' /\ Story(view[w].status.reached)'
    <3>1. /\ CopyIsPast(view[w].pull)
          /\ Justified(view[w].status.reached) /\ Story(view[w].status.reached)
      BY DEF TrailInv, PassIsSound
    <3> QED BY <1>4, <2>1, <3>1 DEF Justified, JustifiedUnless, CopyIsPast, Story
  <2> QED BY <2>3, <2>4, <2>5 DEF PassIsSound
<1>14. SeenHasHappened'
  BY <1>4 DEF TrailInv, SeenHasHappened
<1> QED BY <1>7, <1>8, <1>9, <1>13, <1>14 DEF TrailInv

\* Three steps that change a poller's view.
LEMMA PullStep ==
  ASSUME TrailInv, NEW v \in Pollers, ReadPull(v)
  PROVE  TrailInv'
<1> DEFINE x == [view[v] EXCEPT !.pull = pull]
<1>1. view' = [view EXCEPT ![v] = x] /\ UNCHANGED <<pull, run, happened, row, trail, blind>>
  BY DEF ReadPull, gvars
<1>2. view[v] \in Views /\ pull \in Pulls /\ row \in [phase : SomePhase, terminal : BOOLEAN]
  BY DEF TrailInv, Shapes
<1>3. x \in Views /\ x.pull = pull /\ x.status = view[v].status /\ x.pending = view[v].pending
  BY <1>2 DEF Views
<1>4. CopyIsPast(pull)
  BY DEF TrailInv, SeenHasHappened, CopyIsPast
<1> HIDE DEF x
<1>5. PassIsSound(v)
  BY DEF TrailInv
<1> QED BY <1>1, <1>2, <1>3, <1>4, <1>5, OffTheRun DEF PassIsSound

LEMMA StillJustified ==
  ASSUME NEW S, NEW unread, JustifiedUnless(unread, S), unread => blind', UNCHANGED <<pull, happened>>
  PROVE  Justified(S)'
BY DEF Justified, JustifiedUnless

LEMMA RunStep ==
  ASSUME TrailInv, NEW v \in Pollers, ReadRun(v)
  PROVE  TrailInv'
<1> DEFINE p == view[v].pull
           r == IF p.merged THEN VisibleRun(run, pushes) ELSE NoRun
           decision == ReviewDecision(p, review)
           status(legible) == [phase |-> Phase(p, r, legible), reached |-> Reached(p, r, legible, decision),
                               attempt |-> r.attempt, notices |-> r.notices]
<1>1. PICK legible \in Legible :
        /\ view' = [view EXCEPT ![v].status = status(legible), ![v].pull = NoPull]
        /\ blind' = (blind \/ (r.conclusion = "success" /\ ~legible))
        /\ UNCHANGED <<pull, run, happened, row, trail>>
  BY DEF ReadRun, gvars
<1> DEFINE s == status(legible)
           x == [view[v] EXCEPT !.status = s, !.pull = NoPull]
           unread == r.conclusion = "success" /\ ~legible
<1>2. view[v] \in Views /\ row \in [phase : SomePhase, terminal : BOOLEAN] /\ PassIsSound(v)
  BY DEF TrailInv, Shapes
<1>3. CopyIsPast(p) /\ p.merged \in BOOLEAN
  BY <1>2 DEF PassIsSound, Views, Pulls
<1>4. r = NoRun \/ (r = run /\ p.merged)
  BY DEF VisibleRun
<1>5. r.attempt \in Int /\ r.notices \in Int
  BY <1>4 DEF TrailInv, Shapes, Runs, NoRun
<1> HIDE DEF p, r, decision
<1>6. /\ Reached(p, r, legible, decision) \in SUBSET Milestones /\ Phase(p, r, legible) \in Phases
      /\ JustifiedUnless(unread, Reached(p, r, legible, decision)) /\ Story(Reached(p, r, legible, decision))
  BY <1>3, <1>4, ReachedIsSound
<1>7. s \in Statuses /\ JustifiedUnless(unread, s.reached) /\ Story(s.reached)
  BY <1>5, <1>6 DEF Statuses, SomePhase
<1> HIDE DEF s, unread
<1>8. view' = [view EXCEPT ![v] = x]
  BY <1>1 DEF s
<1>9. x \in Views /\ x.pull = NoPull /\ x.status = s /\ x.pending = view[v].pending
  BY <1>2, <1>7 DEF Views, Pulls, NoPull
<1>10. CopyIsPast(NoPull)
  BY DEF CopyIsPast, NoPull
<1>11. blind' \in BOOLEAN /\ (blind => blind') /\ (unread => blind')
  <2>1. blind' = (blind \/ unread) /\ blind \in BOOLEAN
    BY <1>1 DEF unread, TrailInv, Shapes
  <2> QED BY <2>1
<1> HIDE DEF x
<1>12. PICK y \in Views : y = x
  BY <1>9
<1>13. view' = [view EXCEPT ![v] = y] /\ UNCHANGED <<pull, run, happened, row, trail>>
  BY <1>1, <1>8, <1>12
<1>14. JustifiedUnless(unread, y.status.reached) /\ Story(y.status.reached) /\ CopyIsPast(y.pull)
  BY <1>7, <1>9, <1>10, <1>12
<1>15. Justified(y.pending) /\ Story(y.pending \cup Recorded)
  BY <1>2, <1>9, <1>12 DEF PassIsSound
<1>16. Justified(y.status.reached)'
  BY <1>11, <1>13, <1>14, StillJustified
<1> QED BY <1>2, <1>11, <1>13, <1>14, <1>15, <1>16, OffTheTrail

LEMMA ListStep ==
  ASSUME TrailInv, NEW v \in Pollers, ListEvents(v)
  PROVE  TrailInv'
<1> DEFINE pending == view[v].status.reached \ Recorded
           x == [view[v] EXCEPT !.pending = pending, !.news = (pending # {})]
<1>1. view' = [view EXCEPT ![v].pending = pending, ![v].news = (pending # {})]
        /\ UNCHANGED <<pull, run, happened, row, trail, blind>>
  BY DEF ListEvents, gvars
<1>2. view[v] \in Views /\ row \in [phase : SomePhase, terminal : BOOLEAN] /\ PassIsSound(v)
  BY DEF TrailInv, Shapes
<1>3. pending \in SUBSET Milestones /\ pending \subseteq view[v].status.reached
  BY <1>2 DEF Views, Statuses
<1>4. Story(pending \cup Recorded)
  <2>1. pending \cup Recorded = view[v].status.reached \cup Recorded
    OBVIOUS
  <2>2. Story(Recorded) /\ Story(view[v].status.reached)
    BY <1>2, StoryOfTheTrail DEF TrailInv, PassIsSound
  <2> HIDE DEF pending
  <2> QED BY <2>1, <2>2, StoriesUnite
<1>5. Justified(pending)
  <2>1. Justified(view[v].status.reached)
    BY <1>2 DEF PassIsSound
  <2> HIDE DEF pending
  <2> QED BY <1>3, <2>1 DEF Justified, JustifiedUnless
<1> HIDE DEF pending
<1>6. view' = [view EXCEPT ![v] = x]
  BY <1>1
<1>7. x \in Views /\ x.pull = view[v].pull /\ x.status = view[v].status /\ x.pending = pending
  BY <1>2, <1>3 DEF Views
<1> HIDE DEF x
<1> QED BY <1>1, <1>2, <1>4, <1>5, <1>6, <1>7, OffTheRun DEF PassIsSound

LEMMA PassStep ==
  ASSUME TrailInv, NEW v \in Pollers, Visit(v) \/ Pass(v) \/ Abandon(v)
  PROVE  TrailInv'
<1>1. CASE Visit(v)
  <2> DEFINE x == [view[v] EXCEPT !.rowPhase = row.phase]
  <2>1. view' = [view EXCEPT ![v] = x] /\ UNCHANGED <<pull, run, happened, row, trail, blind>>
    BY <1>1 DEF Visit, gvars
  <2>2. view[v] \in Views /\ row \in [phase : SomePhase, terminal : BOOLEAN] /\ PassIsSound(v)
    BY DEF TrailInv, Shapes
  <2>3. x \in Views /\ x.pull = view[v].pull /\ x.status = view[v].status /\ x.pending = view[v].pending
    BY <2>2 DEF Views
  <2> HIDE DEF x
  <2> QED BY <2>1, <2>2, <2>3, OffTheRun DEF PassIsSound
<1>2. CASE ReadPull(v)
  BY <1>2, PullStep
<1>3. CASE ReadRun(v)
  BY <1>3, RunStep
<1>4. CASE ListEvents(v)
  BY <1>4, ListStep
<1>5. CASE Mirror(v)
  <2>1. view[v] \in Views /\ row \in [phase : SomePhase, terminal : BOOLEAN] /\ PassIsSound(v)
    BY DEF TrailInv, Shapes
  <2>2. UNCHANGED <<pull, run, happened, row, trail, view, blind>>
    BY <1>5 DEF Mirror, gvars
  <2>3. view' = [view EXCEPT ![v] = view[v]]
    BY <2>2 DEF TrailInv, Shapes
  <2> QED BY <2>1, <2>2, <2>3, OffTheRun DEF PassIsSound
<1>6. CASE AppendEvent(v)
  BY <1>6, AppendStep
<1>7. CASE UpdateCache(v)
  <2> DEFINE ended == view[v].status.phase \in TERMINAL_PHASES
  <2>1. /\ view' = [view EXCEPT ![v] = Nothing] /\ UNCHANGED <<pull, run, happened, trail, blind>>
        /\ row' = row \/ row' = [phase |-> view[v].status.phase, terminal |-> ended]
    BY <1>7 DEF UpdateCache, gvars
  <2>2. row' \in [phase : SomePhase, terminal : BOOLEAN]
    <3>1. row \in [phase : SomePhase, terminal : BOOLEAN] /\ view[v].status.phase \in SomePhase
      BY DEF TrailInv, Shapes, Views, Statuses
    <3>2. ended \in BOOLEAN
      OBVIOUS
    <3> HIDE DEF ended
    <3> QED BY <2>1, <3>1, <3>2
  <2> QED BY <2>1, <2>2, NothingIsSound, NothingIsAView, OffTheRun
<1>8. CASE Abandon(v)
  <2>1. view' = [view EXCEPT ![v] = Nothing] /\ UNCHANGED <<pull, run, happened, row, trail, blind>>
    BY <1>8 DEF Abandon, gvars
  <2>2. row' \in [phase : SomePhase, terminal : BOOLEAN]
    BY <2>1 DEF TrailInv, Shapes
  <2> QED BY <2>1, <2>2, NothingIsSound, NothingIsAView, OffTheRun
<1> QED BY <1>1, <1>2, <1>3, <1>4, <1>5, <1>6, <1>7, <1>8 DEF Pass

LEMMA TrailStep == TrailInv /\ [Next]_vars => TrailInv'
<1> SUFFICES ASSUME TrailInv, [Next]_vars PROVE TrailInv'
  OBVIOUS
<1>1. CASE GitHub /\ UNCHANGED avars
  BY <1>1, GitHubStep
<1>2. ASSUME NEW v \in Pollers, Visit(v) \/ Pass(v) \/ Abandon(v) PROVE TrailInv'
  BY <1>2, PassStep
<1>3. CASE UNCHANGED vars
  <2>1. UNCHANGED <<pull, run, happened, row, trail, view, blind>> /\ Recorded' = Recorded
    BY <1>3 DEF vars, gvars, avars, Recorded
  <2>2. (\A S : Justified(S) <=> Justified(S)') /\ (\A p : CopyIsPast(p) <=> CopyIsPast(p)')
    BY <2>1 DEF Justified, JustifiedUnless, CopyIsPast
  <2>3. Shapes' /\ SeenHasHappened'
    BY <2>1 DEF TrailInv, Shapes, SeenHasHappened
  <2>4. \A v \in Pollers : PassIsSound(v)'
    BY <2>1, <2>2 DEF TrailInv, PassIsSound
  <2>5. Justified(Recorded)' /\ TrailIsOrdered'
    BY <2>1, <2>2 DEF TrailInv, TrailIsOrdered, Before
  <2> QED BY <2>3, <2>4, <2>5 DEF TrailInv
<1> QED BY <1>1, <1>2, <1>3 DEF Next

LEMMA TrailInvHolds == Spec => []TrailInv
  BY TrailInit, TrailStep, PTL DEF Spec

-----------------------------------------------------------------------------
(* The theorems.                                                           *)

\* reconcile.py: whatever the reads of a pass were torn over and whoever else was appending,
\* the trail says merged, deployed, failed or closed only of what has happened, and that the
\* gate was passed only of a run that has ended.
THEOREM TrailIsTrue == Spec => []OutcomesHappened
<1>1. TrailInv => OutcomesHappened
  BY DEF TrailInv, Justified, JustifiedUnless, OutcomesHappened, Outcomes
<1> QED BY <1>1, TrailInvHolds, PTL

\* reject_mismatched_deployment: a run of a revision that nobody approved becomes this
\* promotion's deployment only through a pass that could not read the revision of the run,
\* even when the branch moves on between the reads of a pass.
THEOREM DeployedWasApproved == Spec => []MismatchIsSeen
<1>1. TrailInv => MismatchIsSeen
  BY DEF TrailInv, Justified, JustifiedUnless, MismatchIsSeen
<1> QED BY <1>1, TrailInvHolds, PTL

\* reconcile.py, MILESTONE_ORDER: read by seq, no outcome comes before the milestones that lead
\* to it, however the appends of several passes interleave and wherever one of them stops.
THEOREM TrailTellsAStory == Spec => []TrailIsOrdered
<1>1. TrailInv => TrailIsOrdered
  BY DEF TrailInv
<1> QED BY <1>1, TrailInvHolds, PTL

=============================================================================
