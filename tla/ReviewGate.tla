----------------------------- MODULE ReviewGate -----------------------------
(***************************************************************************)
(* The review of a resource, and what a pull request makes of it.          *)
(*                                                                         *)
(* review_space goes from one remote call to the next: the rules, the      *)
(* export, production (if the app can reach it), the language model, the   *)
(* eval-run, the handbook's assistant.  A request then commits what was    *)
(* reviewed, sets the label and posts the review; the jobs of the pull     *)
(* request check the committed definition on their own.  Meanwhile the     *)
(* owner edits the resource and production changes; any call may fail, and *)
(* the eval-run may take for ever.                                         *)
(*                                                                         *)
(* The access guard of the export is Rehydrate's, the commit call by call  *)
(* is PromotionRequest's.                                                  *)
(***************************************************************************)
EXTENDS ArtifactChecks

CONSTANTS
  Docs,          \* what the resource may be
  RowSets,       \* rows that administrators store over the handbook
  ProdStates,    \* what production may be
  Mappings,      \* table mappings of requests
  Audience,      \* declared principals
  Invented,      \* a rule id that the handbook does not have
  MaxPolls,      \* APP_EVAL_WAIT_SEC over the poll interval
  CiFloor,       \* EVAL_MIN_BENCHMARKS, or its default
  MaxReviews,    \* bound on reviews
  MaxChanges,    \* bound on changes by others
  MaxFaults      \* bound on failing calls

\* A definition as the exports have it; a number of a row that no review may use is Unusable.
ASSUME DefinitionsAreSane ==
  LET refs == [catalog : Catalogs, table : STRING, more : Nat]
  IN /\ Docs \subseteq [kind : {"genie", "dashboard"},
                        places : SUBSET [ref : refs, prose : BOOLEAN, dataset : STRING, parametrised : BOOLEAN],
                        widgets : SUBSET (SUBSET STRING), benchmarks : Nat, pii : BOOLEAN]
     /\ Mappings \subseteq Seq([source : refs, target : refs])

ASSUME RowsAreSane ==
  /\ "EVAL-01" \in RuleIds
  /\ RowSets # {}
  /\ RowSets \subseteq [RuleIds -> [stored : BOOLEAN, custom : BOOLEAN, enabled : BOOLEAN,
                                    severity : Severities \cup {None}, text : STRING,
                                    benchmarks : Nat \cup {Unusable}, threshold : 0..100 \cup {Unusable}]]

VARIABLES
  space,         \* the resource in development
  prod,          \* production: [people, tables, selects]
  review,        \* the review
  run,           \* its eval-run
  pr,            \* the pull request
  ci,            \* the jobs on its head
  reviews, changes, faults

vars == <<space, prod, review, run, pr, ci, reviews, changes, faults>>

ReviewSteps == {"idle", "export", "audience", "model", "create", "poll", "details", "assistant",
                "decided", "label", "comment"}

NoDoc  == [kind |-> None, places |-> {}, widgets |-> {}, benchmarks |-> 0, pii |-> FALSE]
Unread == [correct |-> 0, incorrect |-> 0, review |-> 0]

NewReview == [at |-> "idle", rows |-> CHOOSE r \in RowSets : TRUE, doc |-> NoDoc, audience |-> {}, llm |-> {}, findings |-> {},
              eval |-> "advisory", gate |-> None, polls |-> 0, read |-> Unread]

NoRun == [at |-> "none", questions |-> 0, result |-> Unread]
NoPull == [content |-> NoDoc, mapping |-> <<>>, label |-> FALSE]
NoJobs == [at |-> "none", built |-> NoDoc]

Init ==
  /\ space \in Docs
  /\ prod \in ProdStates
  /\ review = NewReview
  /\ run = NoRun
  /\ pr = NoPull
  /\ ci = NoJobs
  /\ reviews = 0
  /\ changes = 0
  /\ faults = 0

At(step) == review.at = step

Fault == faults < MaxFaults /\ faults' = faults + 1

World == <<space, prod>>

-----------------------------------------------------------------------------
(* The review.                                                             *)

\* The stored rules are read once, before the resource is exported: an edit during the review
\* is one after it.
Start ==
  /\ At("idle")
  /\ reviews < MaxReviews
  /\ reviews' = reviews + 1
  /\ \E rows \in RowSets : review' = [NewReview EXCEPT !.at = "export", !.rows = rows]
  /\ run' = NoRun
  /\ UNCHANGED <<World, pr, ci, changes, faults>>

\* export_serialized.  The app can only look at production where APP_PROD_PROFILE is set.
Export ==
  /\ At("export")
  /\ \E next \in {"audience", "model"} : review' = [review EXCEPT !.at = next, !.doc = space]
  /\ UNCHANGED <<World, run, pr, ci, reviews, changes, faults>>

\* check_audience in the app, over the plain rebind: the mapping is not known to it.
CheckAudienceInApp ==
  /\ At("audience")
  /\ \E down \in {{}} \cup {{lookup} : lookup \in Lookups} :
       /\ IF down = {} THEN UNCHANGED faults ELSE Fault
       /\ review' = [review EXCEPT !.at = "model",
                                   !.audience = CheckAudience(Rebound(review.doc), Audience, prod, down)]
  /\ UNCHANGED <<World, run, pr, ci, reviews, changes>>

\* What the definition itself says, whatever the model answers.
Deterministic(doc, audience) ==
  Raise(Leaks(Rebound(doc)) # {}, "ENV-01", "BLOCKER") \cup audience \cup PiiFindings(doc)
    \cup (IF IsDashboard(doc) THEN CheckDashboard(Rebound(doc)) ELSE {})

\* A dashboard has no benchmarks to count.
Minimum(doc, rws) == IF IsDashboard(doc) THEN 0 ELSE MinBenchmarks(rws["EVAL-01"])

\* What the model may answer: nothing that can be read, or a finding of some rule it was shown,
\* or of one that it invents, with a severity that exists or not.
Answers(doc, rws) ==
  {{}} \cup {{Finding(rule, severity)} :
               rule \in {r.id : r \in EffectiveRules(rws, doc.kind)} \cup {Invented},
               severity \in {"BLOCKER", "STYLE", "OPERATIONAL"}}

AskModel ==
  /\ At("model")
  /\ \E answer \in Answers(review.doc, review.rows) :
       LET doc == review.doc
           llm == ParseFindings(answer)
       IN review' = [review EXCEPT
            !.at       = IF IsDashboard(doc) THEN "assistant" ELSE "create",
            !.llm      = llm,
            !.findings = FinalizeFindings(llm, Deterministic(doc, review.audience), doc.benchmarks,
                           Minimum(doc, review.rows), EvalSeverity(review.rows["EVAL-01"]))]
  /\ UNCHANGED <<World, run, pr, ci, reviews, changes, faults>>

\* A read or a call without a fallback fails: the endpoint answers with a 5xx.
CallFails ==
  /\ Fault
  /\ review.at \in {"export", "model", "decided", "comment"}
  /\ review' = NewReview
  /\ run' = NoRun
  /\ UNCHANGED <<World, pr, ci, reviews, changes>>

\* Going on without a verdict: it stays advisory.
Advisory == review' = [review EXCEPT !.at = "assistant", !.polls = 0] /\ run' = NoRun

\* genie_create_eval_run: of the resource as it is by now, and only if it has questions.
CreateRun ==
  /\ At("create")
  /\ IF space.benchmarks = 0
       THEN Advisory
       ELSE /\ review' = [review EXCEPT !.at = "poll"]
            /\ run' = [at |-> "running", questions |-> space.benchmarks, result |-> Unread]
  /\ UNCHANGED <<World, pr, ci, reviews, changes, faults>>

\* The service ends the run, with results or without.
RunEnds ==
  /\ run.at = "running"
  /\ \/ \E result \in Results(run.questions) : run' = [run EXCEPT !.at = "DONE", !.result = result]
     \/ run' = [run EXCEPT !.at = "EVALUATION_FAILED"]
  /\ UNCHANGED <<World, review, pr, ci, reviews, changes, faults>>

\* Slip: waits until the run has ended.
TimeIsOver_Never == FALSE

TimeIsOver == review.polls = MaxPolls

\* The loop of run_eval_gate_rest: until the run has ended, or the time is over.
Poll ==
  /\ At("poll")
  /\ CASE run.at = "DONE" -> review' = [review EXCEPT !.at = "details", !.polls = 0] /\ UNCHANGED run
       [] run.at = "running" /\ ~TimeIsOver
                          -> review' = [review EXCEPT !.polls = IF @ < MaxPolls THEN @ + 1 ELSE @]
                             /\ UNCHANGED run
       [] OTHER           -> Advisory
  /\ UNCHANGED <<World, pr, ci, reviews, changes, faults>>

Judged(read) ==
  review' = [review EXCEPT !.at = "assistant", !.read = read,
               !.eval = Verdict(run.result, read, Threshold(review.rows["EVAL-01"]))]

\* _fetch_eval_questions, and the verdict.
ReadDetails ==
  /\ At("details")
  /\ Judged(run.result)
  /\ UNCHANGED <<World, run, pr, ci, reviews, changes, faults>>

\* Some details, or the whole list, cannot be read.
DetailsFail ==
  /\ At("details")
  /\ Fault
  /\ \E read \in Parts(run.result) \ {run.result} : Judged(read)
  /\ UNCHANGED <<World, run, pr, ci, reviews, changes>>

OnEvalOutage == Advisory

\* Creating or polling fails.
EvalFails ==
  /\ review.at \in {"create", "poll"}
  /\ Fault
  /\ OnEvalOutage
  /\ UNCHANGED <<World, pr, ci, reviews, changes>>

\* cicd_ka_endpoints, _ka_advisory_findings: no assistant is configured, or its finding, or the
\* notice that it did not answer.
Assistant(answers) ==
  CASE answers = "no assistant" -> {}
    [] answers = "yes"          -> {Finding("KA", "SUGGESTION")}
    [] answers = "fails"        -> {Finding("KA", "STYLE")}

\* The gate over everything.
AskAssistant ==
  /\ At("assistant")
  /\ \E answers \in {"no assistant", "yes", "fails"} :
       /\ IF answers = "fails" THEN Fault ELSE UNCHANGED faults
       /\ LET findings == review.findings \cup Raise(review.eval = "block", "EVAL-RUN", "BLOCKER")
                            \cup Assistant(answers)
          IN review' = [review EXCEPT !.at = "decided", !.findings = findings, !.gate = DecideGate(findings)]
  /\ UNCHANGED <<World, run, pr, ci, reviews, changes>>

-----------------------------------------------------------------------------
(* The request.                                                            *)

\* A review on its own, or a request with nothing to promote, ends here.
Answer ==
  /\ At("decided")
  /\ review' = NewReview
  /\ run' = NoRun
  /\ UNCHANGED <<World, pr, ci, reviews, changes, faults>>

\* open_or_update_promotion of what was reviewed: a new head, on which the jobs start.
Commit ==
  /\ At("decided")
  /\ \E mapping \in Mappings :
       pr' = [pr EXCEPT !.content = review.doc, !.mapping = mapping]
  /\ ci' = [NoJobs EXCEPT !.at = "render"]
  /\ review' = [NewReview EXCEPT !.at = "label", !.rows = review.rows, !.gate = review.gate]
  /\ run' = NoRun
  /\ UNCHANGED <<World, reviews, changes, faults>>

Blocked(gate) == gate = "failure"

\* apply_blocker_label or clear_blocker_label.
Label ==
  /\ At("label")
  /\ pr' = [pr EXCEPT !.label = Blocked(review.gate)]
  /\ review' = [review EXCEPT !.at = "comment"]
  /\ UNCHANGED <<World, run, ci, reviews, changes, faults>>

\* It fails: nobody is told.
LabelFails ==
  /\ At("label")
  /\ Fault
  /\ review' = [review EXCEPT !.at = "comment"]
  /\ UNCHANGED <<World, run, pr, ci, reviews, changes>>

\* post_review_comment, and the answer.
Comment ==
  /\ At("comment")
  /\ review' = NewReview
  /\ UNCHANGED <<World, run, pr, ci, reviews, changes, faults>>

-----------------------------------------------------------------------------
(* The jobs on the head of the pull request.                               *)

Job(at) == ci.at = at

\* The next job, or red for ever (a person may start the jobs once more).
Ends(exit, next) == ci' = [ci EXCEPT !.at = IF exit = 0 THEN next ELSE "red"]

\* render.sh, and the checks that need nothing but its result.
RenderJob ==
  /\ Job("render")
  /\ LET built   == Rendered(pr.content, pr.mapping)
         offline == IF IsDashboard(built) THEN DashboardExit(built) ELSE EvalExit(built, CiFloor)
         green   == RenderExit(pr.content, pr.mapping) = 0 /\ offline = 0
     IN ci' = IF green THEN [at |-> "audience", built |-> built] ELSE [NoJobs EXCEPT !.at = "red"]
  /\ UNCHANGED <<World, review, run, pr, reviews, changes, faults>>

\* check_audience.py.
AudienceJob ==
  /\ Job("audience")
  /\ \E down \in {{}} \cup {{lookup} : lookup \in Lookups} :
       /\ IF down = {} THEN UNCHANGED faults ELSE Fault
       /\ Ends(AudienceExit(CheckAudience(ci.built, Audience, prod, down)), "quality")
  /\ UNCHANGED <<World, review, run, pr, reviews, changes>>

\* check_eval_run.py: an eval-run of the live resource; only its block is red.
EvalRunJob ==
  /\ Job("quality")
  /\ ~IsDashboard(ci.built)
  /\ \/ \E result \in Results(space.benchmarks) : \E read \in Parts(result) :
          Ends(IF Verdict(result, read, DefaultThreshold) = "block" THEN 1 ELSE 0, "green")
     \/ Ends(0, "green")     \* it cannot be run, does not end in time, or the slug names no resource
  /\ UNCHANGED <<World, review, run, pr, reviews, changes, faults>>

\* check_dashboard_sql.py.
SqlJob ==
  /\ Job("quality")
  /\ IsDashboard(ci.built)
  /\ \E down \in {{}, {"catalog"}} :
       /\ IF down = {} THEN UNCHANGED faults ELSE Fault
       /\ Ends(SqlExit(ci.built, prod, down), "green")
  /\ UNCHANGED <<World, review, run, pr, reviews, changes>>

\* Somebody starts the jobs of this head once more.
JobsAgain ==
  /\ Job("red")
  /\ changes < MaxChanges
  /\ changes' = changes + 1
  /\ ci' = [NoJobs EXCEPT !.at = "render"]
  /\ UNCHANGED <<World, review, run, pr, reviews, faults>>

-----------------------------------------------------------------------------
(* Meanwhile.                                                              *)

Change ==
  /\ changes < MaxChanges
  /\ changes' = changes + 1
  /\ \/ /\ space' \in {doc \in Docs \ {space} : doc.kind = space.kind}
        /\ UNCHANGED prod
     \/ /\ prod' \in ProdStates \ {prod}
        /\ UNCHANGED space
  /\ UNCHANGED <<review, run, pr, ci, reviews, faults>>

ReviewStep ==
  \/ Export \/ CheckAudienceInApp \/ AskModel \/ CreateRun \/ Poll \/ ReadDetails \/ AskAssistant
  \/ Answer \/ Commit \/ Label \/ Comment

Jobs == RenderJob \/ AudienceJob \/ EvalRunJob \/ SqlJob \/ JobsAgain

Next ==
  \/ Start
  \/ ReviewStep
  \/ CallFails \/ EvalFails \/ DetailsFail \/ LabelFails
  \/ RunEnds
  \/ Jobs
  \/ Change

Spec == Init /\ [][Next]_vars

\* The handler goes on; nobody promises that the eval-run ends.
FairSpec == Spec /\ WF_vars(ReviewStep)

-----------------------------------------------------------------------------
(* Properties.                                                             *)

\* Type invariant; a verdict other than advisory is of a run that has ended.
TypeOK ==
  /\ space \in Docs /\ prod \in ProdStates
  /\ review.at \in ReviewSteps
  /\ review.doc \in Docs \cup {NoDoc}
  /\ \A f \in review.findings : f.severity \in Severities \cup {"OPERATIONAL"}
  /\ review.eval \in {"advisory", "block", "pass"}
  /\ review.eval # "advisory" => run.at = "DONE" /\ ~IsDashboard(review.doc)
  /\ review.gate \in Conclusions \cup {None}
  /\ review.polls \in 0..MaxPolls
  /\ pr.content \in Docs \cup {NoDoc}
  /\ pr.label \in BOOLEAN
  /\ ci.at \in {"none", "render", "audience", "quality", "green", "red"}
  /\ reviews \in 0..MaxReviews /\ changes \in 0..MaxChanges /\ faults \in 0..MaxFaults

Gated == review.at \in {"decided", "label", "comment"}

\* What was reviewed, and once it is committed what everybody sees of it.
Shown == IF At("decided") THEN review.doc ELSE pr.content

\* The rule on the number of benchmarks, as an administrator has left it.
TooFewBenchmarks(doc) ==
  LET row == review.rows["EVAL-01"]
  IN /\ doc.kind = "genie"
     /\ row.enabled
     /\ doc.benchmarks < (IF row.benchmarks = Unusable THEN DefaultBenchmarks ELSE row.benchmarks)

Broken(doc) ==
  \/ \E place \in doc.places :
       /\ doc.kind = "dashboard" => ~place.prose
       /\ place.ref.catalog \notin {"dev", "prod", "PROD"}
  \/ doc.kind = "dashboard" /\ (doc.widgets = {} \/ \E widget \in doc.widgets : ~(widget \subseteq Defined(doc)))

\* review_core.py:347: whatever the model answers (nothing, garbage, a softer finding of the
\* same rule, a severity of its own) and whatever is edited meanwhile, a gate that does not
\* block stands over a definition with the catalogs of production, wired widgets and enough
\* benchmarks, and over no failed eval-run.
BrokenIsBlocked ==
  Gated /\ review.gate \in {"success", "neutral"} =>
    /\ ~Broken(Shown)
    /\ TooFewBenchmarks(Shown) => review.rows["EVAL-01"].severity \notin {None, "BLOCKER"}
    /\ review.eval # "block"

\* The eval-run missed the configured pass-rate; one whose details were read in part may only seem so.
Missed ==
  LET configured == review.rows["EVAL-01"].threshold
      threshold  == IF configured = Unusable THEN DefaultThreshold ELSE configured
  IN 100 * run.result.correct < threshold * Questions(run.result)

AllRead == Questions(review.read) \in {0, Questions(run.result)}

\* No red step of the timeline stands next to a gate that lets the resource pass, and no
\* blocked gate next to a timeline without a red step.
TimelineAgrees ==
  LET red == RedSteps(Leaks(Rebound(review.doc)), review.gate, review.eval, review.doc.kind, review.findings)
  IN /\ red # {} => review.gate \in {"failure", "operational_failure"}
     /\ review.gate = "failure" => red # {}

\* eval_gate.py:3, audience_check.py:4: nobody is blocked by an outage.  A failure names a
\* defect of the definition, a missing principal or table, a finding of the model or a missed
\* pass-rate; an operational failure, a lookup in production that failed; and the timeline, which
\* app_logic.py:688 derives from other facts, says the same.
OutageNeverBlocks ==
  At("decided") =>
    /\ review.gate = "failure" =>
         \/ Broken(review.doc) \/ TooFewBenchmarks(review.doc)
         \/ Has(review.audience, "BLOCKER") \/ Has(review.llm, "BLOCKER")
         \/ review.eval = "block" /\ (AllRead => Missed)
    /\ review.gate = "operational_failure" <=> Has(review.audience, "OPERATIONAL")
    /\ TimelineAgrees

\* eval_gate.py:213: when every detail was read, or none, the verdict is that of the run's own
\* counters: a pass means that enough questions were confirmed, and no ambiguous one counts.
VerdictIsOfTheRun ==
  review.eval # "advisory" /\ AllRead => (review.eval = "pass" <=> ~Missed)

\* audience_check.py:4: a missing principal or table is named as such only when production
\* really lacks one, whatever lookups fail at that moment.
BlameIsDeserved ==
  [][At("audience") /\ Has(review'.audience, "BLOCKER") =>
       ~(Audience \subseteq prod.people) \/ ~(TablesOf(Rebound(review.doc)) \subseteq prod.tables)]_vars

\* The head of a pull request turns green only if it deserves it.  A draft is opened also for a
\* definition that the review found broken (app_logic.py:1011); the jobs refuse it, and every
\* mapping that leads out of production's catalogs.  A green dashboard had one of its queries
\* planned at least, and no query that can be planned named a table that production lacked at
\* that moment (check_dashboard_sql.py:22).
GreenIsDeserved ==
  [][ci.at # "green" /\ ci'.at = "green" =>
       /\ ~Broken(pr.content)
       /\ \A place \in ci.built.places :
            place.ref.catalog \in {"prod", "PROD"} \/ (IsDashboard(ci.built) /\ place.prose)
       /\ IsDashboard(ci.built) =>
            /\ Queries(ci.built) # {} => Plannable(ci.built) # {}
            /\ \A place \in Plannable(ci.built) : place.ref \in prod.tables]_vars

\* eval_gate.py:202: every review ends, also when its eval-run does not.
ReviewEnds == review.at # "idle" ~> review.at = "idle"
=============================================================================
