# Verification of the Genie promotion pipeline

TLA+ models of the governed promotion of Genie Spaces and AI/BI dashboards from
development to production: the deployment that the content repository's workflow
runs (`scripts/deploy_attempt.py`), the audit trail the app keeps
(`app/promotion_store.py`), the reconciliation of that trail with GitHub
(`app/reconcile.py`), the request that starts a promotion (`app/app_logic.py`,
`genie_reviewer/github_app.py`), the review and the checks that judge it
(`genie_reviewer/review_core.py`, `eval_gate.py`, `scripts/check_*.py`), the
administration of roles, rules and prompt template, the copy back into
development (`app/rehydrate.py`), and the page on which a user follows all this
(`web/src/lib/promotion.svelte.ts`). The models are checked by TLC on small
instances; the properties that matter most are proved with TLAPS for every
instance.

All paths below are relative to the repository (`src/`).

## 1. The system

A user picks a Genie Space or dashboard in the app and requests its promotion.
The app reviews it, opens or updates a pull request on the content repository and
stores a promotion row. CI renders, checks and reviews it again; reviewers approve
it; the merge starts the deploy workflow, which waits at a protected-environment
gate and then runs one *Attempt* of the deployment against production. The app
never deploys. It follows GitHub by polling and keeps an index and an audit trail
in Postgres (Lakebase). Administrators tune the rules of the review. A Space of
production can be copied back into development.

### Components

| Component | Where | State | Operations |
|---|---|---|---|
| Production deployment Attempt | `scripts/deploy_attempt.py`, `genie_reviewer/workspace_resource.py` | `AttemptEvidence` (stage, `mutation_started`, completed and failed stages, terminal state) in memory and in GitHub annotations; `target_ids`; the production workspace | `run_attempt`: preflight, bundle_deploy, resolve_space, assert_app_manage, reconcile_audience, verify_live_state, certify_space, complete |
| Audience reconciliation | `scripts/reconcile_audience.py` | the direct ACL of one resource | `desired_acl`, `reconcile` (read, replace all, read back) |
| Audit trail | `app/promotion_store.py` | table `audit_events`, its two unique indexes | `append_audit_event`, `list_audit_events` |
| Promotion store, other tables | `app/promotion_store.py` | `promotions` (with `current_phase`, `terminal`), snapshots, `deployment_attempts`, `rehydrate_events` | create, `update_cache`, `update_change_request`, `upsert_deployment_attempt`, `append_rehydrate_event` |
| GitHub observation | `genie_reviewer/github_app.py`, `change_request.py` | none (a token cache) | `get_status`: pull request, checks, deploy run and reviews, one call after the other |
| Reconciliation | `app/reconcile.py`, `engine_api/main.py` | none of its own; the scheduler thread | `reconcile` on every poll of a browser, `reconcile_all` every few minutes |
| Promotion request | `app/app_logic.py`, `engine_api/main.py`, `genie_reviewer/github_app.py` | branch, pull request, promotion row | `request_promotion`, `open_or_update_promotion`, `_persist_promotion`, re-review |
| Review | `app/app_logic.py`, `genie_reviewer/review_core.py`, `eval_gate.py`, `rules_config.py`, `audience_check.py`, `dashboard_check.py` | none; an eval-run in development, the pull request's label and comment | `review_space`: rules, export, deterministic checks, model, merge of findings, eval-run, assistant, gate, timeline |
| Checks of a pull request | `scripts/render.sh`, `pre_render.py`, `check_*.py` | the rendered definition | one job after the other, each by its exit code |
| Roles | `app/roles_store.py` | table of roles | assign, revoke (never the last admin), lookup with environment fallback |
| Access guard | `app/authz.py` | none | `assert_can_access` over an access list |
| Rules, prompt template | `app/rules_store.py`, `app/prompt_template_store.py` | tables with their own audit | seed at start-up, upsert, reset, save |
| Rehydrate | `app/rehydrate.py` | a Space of development, two trails | preview, create, overwrite |
| Web client | `web/src/lib/promotion.svelte.ts`, `PromotionReview.svelte` | the promotion on screen, the calls in flight, an interval | select, request, open, recover, poll, evidence |
| Resource kinds, validation of declarations | `genie_reviewer/resource_kind.py` and others | none | tables, validations of one document |
| Scripts, agents | `scripts/`, `genie_reviewer/agent.py` | none | provisioning, reports, prompts |

### Interactions

- **Merge → Attempt.** The workflow starts an Attempt for each merge commit; its
  `concurrency` group runs one at a time and never cancels an approved one. A
  failed run can be re-run by hand, at any later time, also after a newer release
  has been deployed. There is no resume: each run begins with the preflight.
- **Attempt → workspace.** Title is the only identity. The bundle CLI creates,
  updates, recreates or deletes what it manages; the later stages find the
  resource again through a listing that lags behind, and write its ACL and its
  tag. Administrators edit the same workspace.
- **Attempt → app.** The evidence travels as annotations of the run, emitted only
  at stage boundaries, that the app polls and mirrors.
- **GitHub → trail.** `get_status` reads a moving target in several calls;
  `reconcile` turns the observation into milestones, appends the missing ones one
  by one and caches phase and `terminal`. Several browsers and the scheduler of
  each replica do this at the same time; terminal promotions leave the sweep.
- **Writers → audit_events.** One INSERT … SELECT computes the next `seq`; two
  unique indexes and a bounded retry resolve the races.
- **Administrators → reviews.** `effective_rules` merges the handbook with the
  stored rows at the start of each review; CI does not see those rows.
- **Review → pull request → CI.** A request commits what the review exported and
  sets a label from its gate. It opens a draft even for a definition the review
  found broken; CI checks the committed text for itself, with the table mapping.
- **Rehydrate → two trails.** A copy of a Space with a promotion is a `rehydrated`
  event of it, any other a row of `rehydrate_events`. Both sites are guarded by
  their access lists, each read once.
- **Engine → browser.** Answers come in any order, and late: each method checks
  after its await that the page still shows what it had asked for.

### What is hard here, and what makes each component correct

- *Attempt*: failure at any stage, loss of the runner between a write and the
  annotation, re-runs over half-done work, stale listings, manual edits. Correct:
  what it reports is true (completed stages, success, "production untouched"),
  it ends, and re-running it converges.
- *Audience*: a complete replacement computed from an earlier read. Correct: it
  takes away exactly the app's own former grants, and all of them.
- *Trail*: concurrent appends. Correct: gapless, append-only, each milestone
  once; an append fails only under real contention.
- *Reconciliation*: reads torn over time, a revision pair that cannot be read,
  overlapping passes, stale writes of the cache, crashes between appends. Correct:
  no outcome is recorded that did not happen, another pair is let through only
  unread, the order tells a possible story, the row ends up equal to GitHub.
- *Promotion request*: a dozen calls to GitHub and then to the database, any of
  which can fail, overlapping with other requests and with people on the pull
  request. Correct: one promotion per pull request, one slug per resource, no
  empty pull request, and a request that runs through leaves exactly its content
  whatever was left before it.
- *Review and checks*: an unreliable model, services that fail or never answer,
  a resource and a production that change between the calls. Correct: what is
  broken never passes, nobody is blocked by an outage or blamed for one, the
  verdict is that of the run, and every review ends.
- *Roles, rules, template*: check-then-act over single statements, several
  replicas that seed and stop, two transactions per change. Correct: nobody locks
  everybody out, who was revoked stays out, edits outlive every start (but a
  seeding they race with, section 5), the trails tell the changes.
- *Rehydrate*: guard, export and write apart in time, text substitutions over one
  another's result, lost answers. Correct: nothing of production's catalogs
  arrives, the mapping is honoured, both sites are guarded, each copy is recorded.
- *Web client*: late answers. Correct: as long as the page takes only answers it
  waits for, what is shown belongs together and nothing loads for ever; a stored
  status is never taken for the current one.

`PROJECT.json` lists each hazard at its line, with the properties about it.

## 2. Modules

| Module | Models | State → code |
|---|---|---|
| `AudienceAcl` | the pure functions of `reconcile_audience.py` | an ACL is a function from principals to `_LEVEL_RANK`, 0 for no direct entry |
| `DeployAttempt` | `run_attempt` with `ProductionOperations`, over the workspace | see below |
| `AttemptContract` | the abstract promise of an Attempt to a reader of its outcome | `outcome`, `touched`, `wanted`, `settled` |
| `AuditAppend` | `append_audit_event` / `insert_audit_event`, statement by statement | `rows` is `audit_events`; `pc`, `picked`, `tries` are a call's progress |
| `AuditLog` | the abstract append-only log | `log` |
| `ChangeRequest` | GitHub, external: pull request, reviews, deploy run, gate | what `github_app.py` distinguishes |
| `Reconcile` | `get_status`, `reconcile`, `reconcile_all` over one promotion | `row`, `trail`, `mirror` are the three tables; `pc` and `view` a pass under way |
| `PromotionRequest` | `POST /promote` for one resource | `base`, `branch`, `pulls` are the content repository, `rows` the promotions; `pc` and `req` a request under way |
| `RulesConfig` | `rules_config.py`, pure: handbook and stored rows merged, the numbers of EVAL-01 | `rows` is the table, by rule id |
| `RolesStore`, `RulesStore`, `PromptTemplateStore` | the three stores, one operator per statement | `roles`, `rules`, `ruleEvents`, `template`, `templateEvents` are their tables |
| `AdminConsole` | the admin endpoints and the start-up of each replica over the three stores | see below |
| `PreRender` | `pre_render.py`, pure: rebind, violations, table mapping | a definition is the set of places where it names a table |
| `Authz` | `assert_can_access`, pure | |
| `Rehydrate` | `POST /rehydrate` and its preview | see below |
| `ReviewCore` | verdicts of `review_core.py` and `eval_gate.py`, pure | a finding is a rule and a severity |
| `ArtifactChecks` | `audience_check.py`, `dashboard_check.py` and the exits of the CI scripts, pure | |
| `ReviewGate` | `review_space`, the label and the comment of a request, the jobs of its pull request | see below |
| `WebPromotion` | the class `Promotion` and its screen | see below |
| `MC…` | instances for TLC | |
| `DeployAttemptProofs`, `AuditAppendProofs`, `ReconcileProofs`, `PromotionRequestProofs`, `AdminConsoleProofs`, `RehydrateProofs`, `ReviewGateProofs`, `WebPromotionProofs` | theorems, section 4 | |

`Reconcile` EXTENDS `ChangeRequest` and appends to the trail atomically, which is
what `AuditAppend` is shown to implement (`ImplementsLog`). `DeployAttempt`
EXTENDS `AudienceAcl` and is shown to implement `AttemptContract`. `AdminConsole`
composes the three stores and, with `ReviewGate`, reads the rules through
`RulesConfig`. `ReviewGate` EXTENDS `ArtifactChecks`, which stands on `ReviewCore`
and `PreRender`; `Rehydrate` EXTENDS `PreRender` and `Authz`.

An operator marked *Slip* is a plausible mistake in the definition that follows
it. No action uses one; each property of each run is shown to fail when one of
them takes the definition's place.

### DeployAttempt

`currentStage`, `mutationStarted`, `completedStages`, `failedStage` and
`terminalState` are the fields of `AttemptEvidence`; `shown` is what the last
annotation said (`EvidenceEmitter.emit`). `Advance` is one turn of the stage loop:
append to `completed_stages`, go on, emit. A stage that loops over the artifacts
works off `todo`; a stage that makes several calls per artifact goes through
`busy` and `call`, so that other actors can act between them. `seen` is the ACL
read before the replacement.

- The CLI (`Deploy*`) is external: it handles the artifacts one by one in any
  order, refuses a plan with deletions without `--auto-approve`, and can fail
  after any number of them.
- `Resolve` needs exactly one listed resource with the title, which an existence
  probe confirms. The bounded retry of `resolve_by_title` is the stage waiting
  for `ListingCatchesUp`; that it runs out of attempts is a fault (`StageFails`).
- `Refused` is what the code itself rejects, so that such a failure is always
  possible and costs no fault; every other failure of a call counts against
  `MaxFaults`.
- `granted` is history: who holds a grant on a resource only through the app. It
  states what "the app's own grants" are and guards nothing.
- A release is a function from artifacts to audiences; the empty audience stands
  for an artifact that is not in the release (an AudienceSpec needs a principal).
- `dirty` and `quiet` are history: the Attempt has written; nobody else has.
- `passedOver` is history: the people whom the Attempt before this one may have
  left with a grant (`MayHold`: those it declared or had been passed, and, unless it
  succeeded, those of its previous AudienceSpec) and whom neither this release nor
  its commit's parent declares. `_previous` cannot know of them. Releases are
  deployed in any order: an Attempt may never run, fail half way, or be re-run after
  a newer one (`Backwards`).

### Reconcile

`GitHub` steps interleave with every read of a pass: `ReadPull` (pull request,
checks), `ReadRun` (deploy run of the merge commit, reviews), `ListEvents`, then
`Mirror`, one `AppendEvent` per missing milestone, `UpdateCache`. `Abandon` is an
exception or a restart anywhere in between. A browser polls whenever it likes
(`MaxVisits` times); the scheduler only visits a row that is not terminal.
The checks, the revision pair and the run are read within single calls of the
model where the code reads them from one response or where no property can tell
the order; between pull request and run anything can happen. `ReadRun` reads the
revision pair of a successful run, or does not: `_revision_pair` is best-effort and
answers None for a failed read, a malformed manifest and anything but exactly one
`.revision.json` (`legible`, whose values a case lists: always, sometimes, or never,
as for a dashboard), and `Phase` then leaves the observation alone, as
`reject_mismatched_deployment` does (a row stored without a pair has the same effect
as one whose run's pair is never read). `blind` is history: some pass has not
compared the pair of a successful run. The bounds are one record, `bounds`, chosen in
`Init` from `Cases`, so that one run goes through several kinds of trouble.

### PromotionRequest

One request is `Start` (the stored promotions are read and the slug chosen), then
the calls of `open_or_update_promotion` — `FindPull`, the no-op guard
(`NothingToPromote`, `SomethingToPromote`, `MatchUnknown`), `ResetBranch`, one
`WriteFile` per commit, `Demote` or `CreatePull` — then those of
`_persist_promotion`: `FindRow`, `InsertRow`, `AppendSnapshot`,
`UpdateDeclarations`, `UpdateChangeRequest`, `AppendEvent`. `Fail` is an exception
or a restart between any two of them; `Refused` are the calls GitHub rejects by
itself, which cost no fault.

- A *content* is all that one request declares. The tree keeps three of its files:
  the artifact (for the title and the audience as well, which are always written),
  the mapping sidecar, which is written or removed, and the revision manifest.
- `PriorSlug` takes any stored promotion where the code takes the most recently
  updated one, because every reconcile updates one.
- `last`, `raced`, `alone` and `clean` are history: the last request if it ran
  alone; somebody marked the pull request ready during this request; nothing ran
  at the same time; nothing has failed or overlapped so far.
- The review itself, the label and the comment are `ReviewGate`'s; that the
  comment fails is a `Fail` before `FindRow`.

### AdminConsole

Each replica starts (`BootRoles`, `BootRules`, `ListForSeed`, one `SeedOne` per
handbook rule) and then serves. A request is the gate (`Accept`: the caller is an
administrator *now*), the read the store begins with (`Read`, `ListRoles`), the
row's statement (`WriteRow`, `WriteRole`) and, as another transaction, the audit
event: `NextSeq` is the snapshot its sequence number comes from, `InsertEvent` and
`Collide` its fate. `Fault` is a statement that raises or a process that stops,
anywhere.

- `env` is APP_ADMINS, which no step changes.
- `intended`, `raced`, `ledger`, `muddled` and `revoked` are history: what
  administrators last wrote over each rule, the rules whose last change was made
  while a replica had yet to seed them, every committed change as it was, the keys
  whose changes overlapped or failed, the people whose role was taken away.
- A replica that starts shares the store with those that serve already, at each of
  its statements.

### Rehydrate

A request goes `Resolve` (the promotion it is recorded under), `Guard` of the
source, `Export` (with everything computed from it: rebinding, mapping, both
checks), for an overwrite `Guard` of the target, `Write`, `Audit`. `CallFails` and
`AnswerLost` may happen at each call. Lists, source and promotions change at any
moment. A reference is the catalog as spelled, a table, and how often one suffix
was added to its name: `sales` is the beginning of `sales_x`, which is what the
substitutions of `apply_table_mapping` trip over. `held` is history: the sites to
which the caller has had access since the request began.

### ReviewGate

The steps up to `Answer` are those of `review_space` in the code's order; a request
goes on with `Commit`, `Label`, `Comment`. `Answers` is anything the model may say:
nothing readable, or a finding of a rule it was shown or invents, of any severity.
`CallFails` ends the request with a 5xx; the outages the code falls back from have
actions of their own (`EvalFails`, `DetailsFail`, `LabelFails`, the choices within
`CheckAudienceInApp`, `AskModel` and `Assistant`). `RunEnds` is the evaluation
service, `Poll` the loop that waits for it at most `MaxPolls` times. `RenderJob`,
`AudienceJob`, `EvalRunJob` and `SqlJob` are the jobs on the head of the pull
request; anybody may start them once more. `Change` edits the resource or
production.

A definition is its kind, its places, the datasets its widgets use, the number of
its benchmarks and whether it holds personal data: what the deterministic rules
look at.

### WebPromotion

`ui` holds the reactive fields, `calls` the bag of calls without an answer yet,
`polling` the interval. A method is one step up to its call and one from its
answer, with exactly the guard the code has after that await (`StillSelected`,
`StillOpening`, `StillShown`). What an answer says is chosen when it arrives, so
that an older one may come later. The phases of a status are left out: any status
may be the last one (`StopPolling`).

The user may act whenever the screens let them: `Select` has no guard, since
`Paineis.svelte:153` leaves its rows enabled during a review (only
`MeusEspacos.svelte:273` locks them). `mixed` is history: since the last selection or
opening, the page has taken an answer it was not waiting for. Two of the guards let
one in (`Takes`): `Idle`, where the latest promotion arrives while another one is
being opened, and `StillSelected`, where a review arrives on a page that is no longer
reviewing.

## 3. Runs

| Run | Instance | What it shows |
|---|---|---|
| `DeployStages` | Genie Space and dashboard; two releases that keep, retire one or retire all; both flag settings; re-runs of old releases; one fault, one edit between Attempts | `PublishedStagesHold`, `SucceededIsLive`, `EvidenceHonest`, `TargetIsManaged`, and the refinement `ImplementsContract` |
| `DeployAudience` | one Genie Space, every sequence of three audiences over two people, deployed in any order, skipped or re-run after a newer one; one fault, one manual edit | `AudienceConverges`, `UnmanagedGrantsKept` |
| `DeployLive` | one artifact, two releases deployed forwards, two faults, one edit at any moment, fair | `AttemptEnds`, `ReplayConverges` |
| `AuditAppend` | three writers, a milestone and a recurring event, three attempts, five rows | `AnswersAreTrue` and the refinement `ImplementsLog` |
| `Reconcile` | a browser and a scheduler, fair, in five cases: checks, reviews, revision and gate go wrong and the pull request is reopened; a re-run and a newer push that hides the run; annotations and a crash; a revision pair that can be read now and then; one that never can, as a dashboard's | `OutcomesHappened`, `MismatchIsSeen`, `TrailIsOrdered`, `CacheConverges` |
| `PromotionOverlap` | two users, three requests, one slug, no faults but those GitHub refuses | `OnePromotionPerPull`, `ResubmissionReplaces`, `ResubmissionIsDraft` |
| `PromotionRetry` | one user, two requests with either of two slugs, one failing call, fair | `SlugIsPinnedInOrder`, `NoEmptyPull`, `OrphanIsAdopted`, and `ResubmissionReplaces` over half-written branches |
| `AdminConsole` | two replicas, two people, a handbook of two rules and a retired id, three requests, one fault | `AlwaysAnAdmin`, `RevokedStaysOut`, `EditsAreKept`, `TrailIsTheHistory` |
| `AdminSeedRace` | the same | `SeedNeverClobbers` fails: section 5 |
| `Rehydrate` | two requests; four documents, six mappings, three list entries; two changes by others, one fault | `NothingOfProduction`, `MappingHonoured`, `CopiesAreRecorded`, `BothSitesGuarded` |
| `ReviewGate` | nine definitions, three sets of stored rules, three productions, three mappings; one review with its pull request, one change, one fault, fair | `BrokenIsBlocked`, `OutageNeverBlocks`, `VerdictIsOfTheRun`, `BlameIsDeserved`, `GreenIsDeserved`, `ReviewEnds` |
| `WebClient` | two resources with a promotion each (one without its review), two runs; three acts, one failing call, fair | `ShownTogether`, `NothingLoadsForEver`, `StatusIsConfirmed` |

`TypeOK` of `DeployAttempt` is checked and proved, that of `AuditAppend` proved.
The other modules state one for their readers, and no run is spent on it.

### Bounds, and why they are enough

*Deployment.* Two artifacts are needed for a stage that stops between them, one of
each kind because the derived level differs. Two releases give every pair
(previous, current); three are needed for the audience, whose convergence relates
a release to the one before the previous. Two resources per title give the
namesake and the recreate; three where an edit can add one more. One fault
suffices for safety (each stage can fail, then everything is re-run); liveness
uses two, so that the replay of a failed Attempt can fail as well. `MaxRuns`
bounds only Attempts begun after a success; re-runs of failed ones are free.

*Trail.* Three writers are the smallest number of which two can lose to a third;
the retry budget of three (five in the code) lets a writer exhaust it within five
rows. In `Reconcile` a page of one run (`window`; 20 in the code) makes the run
leave the page with one push.

*Request.* Two users race for one pull request, and the third request is the one
that must find their mixture and replace it; two contents differ in the one
optional file; one fault stops a request at any of its calls, and retries are not
counted.

*Administration.* Two replicas and two people are the smallest race of each kind
(two seeds, two edits, two administrators who revoke each other), and people and
replicas are symmetric. Three requests let a third one act on what a race of two
left. Of the two handbook rules one is for Genie Spaces only; a custom rule may be
typed with its id or with the retired one (`TypedIds`).

*Rehydrate.* Two requests race for the one existing Space and for the trail of a
promotion. The documents and mappings are one each of the shapes the
substitutions tell apart: tables of which one's name begins the other's, a chain,
capitals, a foreign catalog, a malformed target.

*Review.* One review: nothing of it outlives its end but the pull request, whose
jobs follow. Two polls let the run end in time, at the limit, or never. Each
definition of `MCDocs` violates another rule, or none.

*Browser.* Three acts suffice to request, leave and come back, or to select, declare
and request while the latest promotion is recovered: the page reaches both mixtures
of section 5. `MaxCalls` bounds only what the interval adds.

`CHECK_DEADLOCK FALSE` appears where the bounds, or the end of a promotion's life,
really stop the system. The largest runs are `AdminConsole` (2.4 million distinct
states), `PromotionOverlap` (2.2 million), `Rehydrate` (1.5 million), `DeployAudience`
(1.4 million) and `Reconcile` (0.9 million); each run takes a few minutes at most.

### Fairness

`DeployAttempt.FairSpec`: the runner keeps executing the Attempt (`WF` of its
steps; the runner may still be lost, a bounded number of times); the listing
catches up, which the code's bounded retries rely on; and somebody re-runs an
Attempt that did not succeed, which is how `docs/adr/0007` and
`docs/PILOT-GO-NO-GO.md` describe recovery. Without that last conjunct nothing
after a failure is promised, and `AttemptEnds` does not need it.

`Reconcile.FairSpec`: the scheduled loop keeps visiting a row that is not
terminal (`engine_api/main.py`, `_start_scheduled_reconciler`, catches every
exception of a sweep) and a pass that has begun goes on. No browser is assumed to
poll, and nothing is assumed of GitHub.

`PromotionRequest.FairSpec`: a request that is under way makes its next call or
fails, and a user who got an error tries again, with these declarations or with
others. The second half is what `OrphanIsAdopted` rests on: the code has no
repair of its own for a pull request without a promotion.

`ReviewGate.FairSpec`: the handler goes on to its next call (each has a timeout or
raises). That the eval-run ends is not assumed: `ReviewEnds` is about the budget
of the loop that waits for it.

`WebPromotion.FairSpec`: each call for the status of a pull request is answered or
fails, as any HTTP request of a browser. Nothing is assumed of the user, of the
interval or of other calls.

## 4. Proofs

Every safety invariant and action property that a passing run checks is also a
theorem.

Assumptions, named in the modules that declare the constants: the app's service
principal is not a declared person (`AppIsNotDeclared`); nobody who asks for a
rehydrate is the model's mark for "nobody" (`NobodyAsks`); contents with a mapping
are contents (`MappedAreContents`); the handbook has the fields its type says
(`HandbookIsSane`); definitions, documents and mappings have the fields their
comments say, and a mapping, which is a dict, names no source twice
(`DefinitionsAreSane`, `DocumentsAreSane`); stored rows are rows, EVAL-01 is a rule,
and the template is not one (`RowsAreSane`, `RowsAreStored`); a status is not null
(`StatusIsNotNone`); constants have the kinds their comments say
(`ConstantsAreSane`, `BoundsAreNat`, `TypedIdsAreRules`, `WebAssumption`); `None` is not an artifact.
Nothing is assumed about the number of artifacts, people, releases, writers,
pollers, requesters, replicas, requests, calls or faults, nor that these sets are
finite, the rule ids of the handbook excepted. TLC evaluates each assumption on
every run of its module.

One theorem has a hypothesis: `UnmanagedGrantsStay` is about production that
administrators leave alone while an Attempt runs (`~EditsDuringRuns`), because an edit
between the read and the replacement of an ACL is overwritten (section 5).
`OnlyLeaversAreLowered` says without it what holds of every step that no edit has
crossed. Where the code does let something bad through, the other theorems do not
assume it away: a history variable says what was let through (`blind`, `passedOver`,
`raced`, `mixed`), for whom and since when, and the theorem that this is all.

| Theorem | Module | Says |
|---|---|---|
| `TypeCorrect` | `DeployAttemptProofs` | `Spec => []TypeOK` |
| `EvidenceIsHonest` | `DeployAttemptProofs` | `Spec => []EvidenceHonest` |
| `PublishedStagesAreTrue` | `DeployAttemptProofs` | `Spec => []PublishedStagesHold` |
| `SuccessIsLive` | `DeployAttemptProofs` | `Spec => []SucceededIsLive` |
| `NoTombstones` | `DeployAttemptProofs` | `Spec => []TargetIsManaged` |
| `OnlyLeaversAreLowered` | `DeployAttemptProofs` | `Spec => GrantsKeptInQuiet` |
| `UnmanagedGrantsStay` | `DeployAttemptProofs` | `~EditsDuringRuns`: `Spec => UnmanagedGrantsKept` |
| `AudienceIsTheDeclaredOne` | `DeployAttemptProofs` | `Spec => []AudienceConverges` |
| `StagesImplementContract` | `DeployAttemptProofs` | `Spec => ImplementsContract`: the stages implement `AttemptContract` |
| `AppendsImplementLog` | `AuditAppendProofs` | `Spec => ImplementsLog`: interleaved appends implement the atomic log |
| `AnswersAreTrueAlways` | `AuditAppendProofs` | `Spec => []AnswersAreTrue` |
| `TrailIsGapless`, `MilestonesAreUnique`, `AuditTypeCorrect` | `AuditAppendProofs` | `Gapless`, `MilestoneOnce`, `TypeOK` |
| `TrailIsTrue` | `ReconcileProofs` | `Spec => []OutcomesHappened` |
| `DeployedWasApproved` | `ReconcileProofs` | `Spec => []MismatchIsSeen` |
| `TrailTellsAStory` | `ReconcileProofs` | `Spec => []TrailIsOrdered` |
| `OnePromotion` | `PromotionRequestProofs` | `Spec => []OnePromotionPerPull` |
| `RewrittenIsDraft` | `PromotionRequestProofs` | `Spec => []ResubmissionIsDraft` |
| `SlugStays` | `PromotionRequestProofs` | `Spec => []SlugIsPinnedInOrder` |
| `TheLastRequestCounts` | `PromotionRequestProofs` | `Spec => []ResubmissionReplaces` |
| `NothingIsOpenedForNothing` | `PromotionRequestProofs` | `Spec => NoEmptyPull` |
| `SomebodyAdministers` | `AdminConsoleProofs` | `Spec => []AlwaysAnAdmin` |
| `TheRevokedStayOut` | `AdminConsoleProofs` | `Spec => []RevokedStaysOut` |
| `TrailsTellTheChanges` | `AdminConsoleProofs` | `Spec => []TrailIsTheHistory` |
| `WhatWasWrittenStays` | `AdminConsoleProofs` | `Spec => []EditsAreKept` |
| `ProductionStaysOut` | `RehydrateProofs` | `Spec => []NothingOfProduction` |
| `EveryCopyIsRecorded` | `RehydrateProofs` | `Spec => []CopiesAreRecorded` |
| `GuardsHold` | `RehydrateProofs` | `Spec => BothSitesGuarded` |
| `MappingIsHonoured` | `RehydrateProofs` | `Spec => []MappingHonoured` |
| `PassedMeansSound` | `ReviewGateProofs` | `Spec => []BrokenIsBlocked` |
| `OutagesBlameNobody` | `ReviewGateProofs` | `Spec => []OutageNeverBlocks` |
| `VerdictsAreHonest` | `ReviewGateProofs` | `Spec => []VerdictIsOfTheRun` |
| `BlameNamesTheMissing` | `ReviewGateProofs` | `Spec => BlameIsDeserved` |
| `GreenHeadsAreSound` | `ReviewGateProofs` | `Spec => GreenIsDeserved` |
| `OnePromotionAtATime` | `WebPromotionProofs` | `Spec => []ShownTogether` |
| `FlagsAreAnswered` | `WebPromotionProofs` | `Spec => []NothingLoadsForEver` |
| `MarksAreTrue` | `WebPromotionProofs` | `Spec => [](FreshIsLive /\ EvidenceIsOfTheRun)`, of mixed pages as well |

**Deployment.** `EvidenceHonest` is not inductive: it does not say why a stage
that writes can only run once `mutation_started` is set. `EvidenceInv` adds that
the stage and `mutationStarted` agree, that the annotation's outcome is always
current, and that its `mutation` is, outside bundle_deploy.

`PublishedStagesHold` speaks of stages that are over. `StageInv` says, per
artifact, what holds as soon as the artifact is *handled* — its stage is over, or
under way and done with it — which makes the end of a stage (`todo = {}`) exactly
the step from "handled so far" to "all". Two things are needed besides: between
the read and the replacement of an ACL, `seen` is still what is there as long as
nobody else writes (`BusyInv`), and the app is not a declared principal, so that
the replacement copies its CAN_MANAGE; without these the audience stage could
undo assert_app_manage. There is one lemma per kind of step: the end of a stage
(`StageAdvance`), a step on one artifact (`OneArtifact`, then one lemma per
call), a step that leaves the stages alone (`StageFrame`), a manual edit
(`StageEdit`).

*Grants.* `GrantsKeptInQuiet` is a step property over `StageInv`: `DesiredAclLowers`
says whom `desired_acl` may lower, and `BusyInv` that what it was computed from is
what is replaced. `TargetIsManaged` follows from `TargetInv` (who has a target was
resolved by this Attempt), from what `StageInv` says of it as long as nobody else
writes, and from one resource only carrying the title (`OnlyOne`).

*Audience.* What a release must take back is on the ACL only because some release
before it put it there. `Bounded` says so of the *leftovers*, the people who hold
the derived level on the managed resource only through the app: this release declares
them, or an Attempt has passed them over, or, until the replacement, the release
before declares them. The step that starts an Attempt keeps it whatever the order of
the releases, because what `MayHold` of the last Attempt and neither this release nor
its parent declares is passed over. That nobody else comes back needs the history of
the resources: they are numbered as created (`Numbered`), what the app has granted on
stays in the listing (`Known`), a retired artifact is not managed (`Retired`), acting
on another resource than the managed one leaves none of the app's grants on it
(`Reached`), and what was read of these people is still so (`FreshRead`).

*Contract.* The mapping reads `touched` off `dirty` and `settled` off the stage and
what it has still to do; `DeployedInv` and `StageInv` give the abstract guards. One
lemma each maps the start of an Attempt, a failure, the loss of the runner, the end
of a stage, a call and the end of the Attempt to its abstract action
(`StartRefines` to `CompleteRefines`); the other steps stutter (`MapsToStutter`).

**Trail.** `AuditInv`: the rows of a promotion are a sequence; a seq that was
picked was in use or next when it was, and only gets older (`PickedWasNext`), so
that the insert either is refused or appends exactly one entry (`InsertAppends`);
each collision is paid for by a row of somebody else (`CollisionsArePaid`), which
is why only contention exhausts the retry. The refinement needs, besides, that a
milestone that conflicts is in the log already (`SkippedIsRecorded`).

**Reconciliation.** The three properties are about the trail, but a pass carries
what it has read for many steps. `TrailInv` therefore says of each pass what its
copies mean: a copy of the pull request is its past (`CopyIsPast`: a merge is for
good), what the pass holds to be reached is justified by what has happened
(`Justified`) and comes with the milestones that lead to it (`Story`), and what it
has still to append completes the story of the trail as it is *now*, with what
others have appended since. `NextIsFirst` is the fact about `NextOf` this rests on:
the milestone appended first is one whose predecessors are not missing. That a pass
holds `deployed` to be reached means that its run was of the approved pair, or that
the pair was not read (`JustifiedUnless`), in which case `blind` is set by that read.

**Request.** `RequestInv` ties a request to what it stands on: its pull request
exists and has its slug, its row exists once it writes to it (`RequestIsSound`);
whoever is about to record a promotion as requested is the only one, and it is not
recorded (`FirstRequester`); one row per pull request (`RowIsSound`). While nothing
has failed or overlapped (`InOrder`) every pull request but the one being stored
has its row, so that the slug a request starts with is theirs.

`ResubmissionReplaces` is about a request that ran alone and about what people and
other requests do after it. `ContentInv` follows such a request file by file: what
it has written is its content and what it has not is `Pending` (`Lone`), on a fresh
branch everything is (`Planned`), what it is about to open differs from the base
(`Different`); and what the last one left is kept until another request leaves the
steps that write nothing (`LastHolds`). `NoEmptyPull` is the step from `Different`.

**Administration.** `OnlyRoles`: rows of retired roles exist only before the first
migration, hence a table that is not empty has an administrator; `RevokedHaveNoRow`;
and a replica that is down serves nobody (`StoppedServesNothing`).

The trails: a change is two transactions, the row and then its event. `Faithful`
says of a key whose changes neither overlapped nor failed that one replica at most
is busy with it, that what it saw is what it writes over, and that between its two
transactions the trail lacks exactly its event. For `EditsAreKept`, each row is
what was written, or the handbook's where nothing was written or the last change
raced with a seeding (`KeptRow`), and what a replica has still to seed is such a rule
(`Seeding`): the store was empty when it was listed, and a change since then is in
`raced`. The set that the property asks for is that of the raced rules whose row is
not what was written (`Lost`).

**Rehydrate.** `RehydrateInv`: a step behind a guard has passed it (`GuardsPassed`),
what is about to be written has passed both checks (`ChecksPassed`), and the lemma
`NotRefusedIsClean` says that this is enough, whatever the spelling of the
catalogs; what was written is accounted for (`Accounted`), and is the exported
document with its mapping applied (`CopiesAreClean`). That the substitutions, each
over the result of the last, come to what was meant when the tables can be told
apart is an induction over the mapping.

**Review.** `GateInv` follows a review from call to call: from the model's answer to
the assistant's, the findings are exactly those of the definition and of the answer
with what the rows and the checks make of it (`Grounded`); the gate is what they,
the verdict and the assistant's finding come to (`Decided`); a verdict is of a run
that has ended, and is `Verdict` of what was read of it (`Judgement`); and what is
labelled and committed with a gate that passes deserves it (`Committed`).
`VerdictIsOfTheRun` is then arithmetic, about rounding and the count of the details
that were read. `JobsInv` does the same for the jobs: past the first one, what they
look at is the rendered commit, and it was found sound; that rendering keeps the
queries of a dashboard is the second induction over the mapping
(`MappingKeepsDatasets`).

**Web client.** `PageInv` has two halves. `MarksInv` is inductive of every page,
mixed or not, because an answer about a status replaces what it says as a whole, and
keeps the steps of the same run only: that is `MarksAreTrue`. The other half holds of
a page that is not `mixed` (`Settled`): `PageOK` relates the page to the set of calls
in flight. What it shows is of its resource or of its promotion (`Selection`), the
status and its errors are of the pull request (`Status`), what is loading has a call
that ends it (`Loads`), and a page that reviews has nothing of an earlier pull request
on it (`Reviewing`). Nothing is assumed of which other calls are
in flight: an answer that arrives when the page does not wait for it makes it `mixed`
if the guard lets it through, and changes nothing otherwise. A selection makes
the page settled again, because it starts from an empty one.

TLC checks each strengthened invariant too, over the whole instance of its run
(`RequestInv` and `ContentInv` over both).

The two proofs by induction over a mapping do not use the library's induction
theorems, whose parameter is an operator. `SmallestNat` gets a least element of a
*set* of numbers from the well-founded order of the library, `Induct` the induction
from it, and `Recursion` that the recursive function of the mapping exists: without
that, `CHOOSE` says nothing of its values. A proof also cannot use a `CASE` whose
guards overlap, since the language leaves open which arm is taken where TLC takes
the first; the exits of the CI scripts, the verdicts of the gate and the phase of a
promotion are chains of `IF`, in the order of the code.

Only model-checked: liveness (`AttemptEnds`, `ReplayConverges`, `CacheConverges`,
`OrphanIsAdopted`, `ReviewEnds`, `StatusIsConfirmed`), which rests on fairness and
`ENABLED` and is out of the prover's reach.

## 5. Findings

**A seeding writes over an edit** (`AdminSeedRace`). A replica that finds the table of
rules empty upserts every rule of the handbook (`app/rules_store.py:176`), also over
a row that an administrator has written through another replica since it looked. The
docstring of `seed_defaults` (line 162) says that it "never clobbers admin edits" and
that "a multi-replica startup race" is a no-op. `EditsAreKept` shows, and
`WhatWasWrittenStays` proves, that a change is lost in this way only, and only to the
handbook's rule: the rule was still to be seeded when it was last changed (`raced`).

More disagreements with a document or a comment came up while modelling. The
properties of the passing runs do not assume them away: they say exactly how far the
promise is kept, and name the exception in a history variable where one is needed.

- *A grant outlives its declaration.* `_previous` (`scripts/deploy_attempt.py:437`)
  takes the AudienceSpec of the parent commit for the previous state of production,
  so that nobody dropped "would linger" (its docstring, line 440; `docs/adr/0007`,
  line 64, promises convergence "on the declared managed set"). If a release's Attempt
  grants somebody and its runner is lost, the Attempt of the next release, which drops
  them, never runs, and a third release succeeds, its previous AudienceSpec does not
  name them and the grant stays, although the deployment is reported as succeeded.
  `AudienceConverges` is about every order of releases: it shows that whoever lingers
  has been passed over in this way (`passedOver`).
- *A run of another pair is recorded as deployed.* `reject_mismatched_deployment`
  promises to "reject, rather than report, a deployment that ran a different approved
  pair" (`genie_reviewer/change_request.py:156`), but returns the observation as it
  is when the pair of the run is None (`:161`). `_revision_pair`
  (`github_app.py:546-573`) answers None for a failed read, a malformed manifest, and
  anything but exactly one file ending in `.revision.json`, which the nested
  `revision.json` of a dashboard never does (`resource_kind.py:139-143`): for
  dashboards the check never takes place. `deployed` is terminal, so that no later
  sweep corrects it. `MismatchIsSeen` says that a pass which could read the pair lets
  none through; `blind` marks the others.
- *An approval nobody gave.* `get_status` calls every merged pull request approved
  (`github_app.py:500`), and `_reached` records the milestone, against its own comment,
  "don't fabricate it from `merged` alone" (`app/reconcile.py:57`). `TrailIsOrdered`
  and `OutcomesHappened` therefore say nothing of `pr_review_approved`.
- *A gate that was never released.* A run whose gate was rejected is completed too, and
  `deploy_approved`, "the gate was RELEASED", is recorded of it (`reconcile.py:64`).
  `OutcomesHappened` says of this milestone only that the run has ended.
- *A late review, a late recovery.* `request` drops its answer when the "selection
  changed mid-flight" (`promotion.svelte.ts:281`), but compares the resource only: when
  the user has meanwhile opened another promotion of the resource, or come back to it
  by a recovery that was still in flight, the review lands on that page, and the flag of
  a status poll may stay set. `recover` yields when "a selection raced in" (`:312`), but
  looks at `phase` and `resource`, which an `open` under way has not set yet: the
  recovered promotion appears, and `opening` stays. `ShownTogether` and
  `NothingLoadsForEver` show that these two guards are all that mixes a page (`mixed`),
  and that the next selection mends it.
- *A second rehydrate leaves no trace.* The predicate of `uq_audit_milestone`
  (`app/promotion_store.py:648`) exempts `requested` and `re_reviewed`, but not
  `rehydrated`, which `RECURRING_EVENTS` lists: the second one of a promotion conflicts
  and is dropped. `CopiesAreRecorded` excepts it.
- *A fork of a resource.* A promotion pins the slug only once it is stored, after
  the pull request is opened and its comment posted (`app/app_logic.py:1051`
  reads, `engine_api/main.py:625` writes). A first request that fails in between,
  or a second one that overlaps it, lets another title or area choose a second
  slug, against "it is pinned by the first promotion" (`app/app_logic.py:131`).
  `SlugIsPinnedInOrder` shows, and `SlugStays` proves, that nothing else does.

### Limits of the code that the properties state as exceptions

*Deployment*

- An edit between read and replace is lost (`scripts/reconcile_audience.py:100`):
  the complete replacement is computed from the earlier read, so a grant an
  administrator makes in between disappears. `DeployAudience` therefore edits
  between Attempts only.
- A write before the first annotation (`scripts/deploy_attempt.py:161`):
  `mutation_started` is set before the CLI runs but shown only when bundle_deploy
  ends. A runner lost in between leaves an annotation that reads as untouched.
  `EvidenceHonest` excepts exactly this window.
- A namesake (`workspace_resource.py:118`): while the listing still lacks the
  recreated resource but shows another live bearer of its title, the title
  resolves to the wrong one. `TargetIsManaged` is conditional on a single bearer.
- A duplicate title blocks the replay until somebody removes it, by design;
  `ReplayConverges` excepts it.

*Trail and reconciliation*

- A reopened pull request (`promotion_store.py:60`) stays terminal and is never
  swept again; a re-run after the end was recorded likewise. `CacheConverges`
  excepts both.
- The page of 20 runs (`github_app.py:655`): once the run has left it, its
  outcome is never seen. Nothing false is recorded then.
- The mirror of the evidence (`promotion_store.py:883`) is last-writer-wins: a
  slow poller can put an older notice over a newer one until the next poll.

*Request*

- Overlapping requests mix their files (`github_app.py:297`) and the row may keep
  the revision pair of the other one, until somebody requests again:
  `ResubmissionReplaces` is about a request that ran alone. Their label may be the
  other one's as well (not modelled: `ReviewGate` has one request).
- A merge during a request leaves the row with the new revision pair and the
  base with the old tree: the run then is of another pair, which a pass rejects if it
  can read it, and takes for the promotion's if not.
- Marked ready during a request (`github_app.py:307`): the pull request was a
  draft when it was found, so it is not demoted; `ResubmissionIsDraft` excepts it.
- An unreadable base counts as different (`github_app.py:327`), by design:
  `NoEmptyPull` holds as long as nothing fails or overlaps.
- `scripts/content_revision.py` leaves `*.revision.json` out of what it hashes, but
  the manifest of a dashboard is a nested `revision.json`
  (`resource_kind.py:142`).

*Administration*

- The guard of the last administrator (`roles_store.py:144`) can only fire over
  rows of other roles, and `admin` is the only one left: the last one can always be
  revoked, whereupon APP_ADMINS is in force again. With an empty APP_ADMINS that
  locks everybody out: `AlwaysAnAdmin` asks for a name in it, `RevokedStaysOut`
  excepts the empty store.
- The gate of a request is check-then-act: an administrator revoked meanwhile still
  completes what has passed the gate.
- A row and its audit event are two transactions, and the event's insert is not
  retried (`rules_store.py:140`): a change may have no event, or its request end in
  an error although it took effect. `TrailIsTheHistory` is about keys whose changes
  neither overlapped nor failed (`muddled`).
- The retired ids GRANT-01 and GRANT-02 are removed at every start
  (`rules_store.py:296`), also where an administrator has since used one for a
  custom rule; `intended` follows the code here.
- A custom rule whose id is typed with a blank may take the id of a handbook rule:
  the check compares it as typed, the store strips it.

*Rehydrate*

- A mapping is a sequence of substitutions over the result of the earlier ones, and
  a pattern also matches a longer name that begins like it
  (`scripts/pre_render.py:202`): `MappingHonoured` is about definitions and mappings
  that are `Separate`. `NothingOfProduction` has no such condition.
- A mapping cannot rescue a definition that names another domain's catalog: the
  plain rebind is checked first.
- Creating is not idempotent (`rehydrate.py:297`): when the answer is lost, a retry
  makes another Space. An explicit `promotion_id` of another resource is accepted.
  Of two rehydrates of one promotion only the first leaves a row, which is the last
  exception of `CopiesAreRecorded`.

*Review and checks*

- An operational failure outranks a blocker (`review_core.py:330`): the gate is
  then not `failure`, and the blocker label is cleared.
- The pass-rate is over the questions whose details could be read
  (`eval_gate.py:211`): `VerdictIsOfTheRun` is about all or none.
- The deterministic finding of PII-01 is a suggestion (`app_logic.py:773`) and
  replaces a blocker of that rule from the model: `BrokenIsBlocked` does not count
  personal data.
- The eval-run, in the app and in CI, questions the live resource of development
  and not the text under review.
- CI takes the numbers of EVAL-01 from its environment or the default
  (`scripts/check_eval.py:53`), not from the administrators' rows; and finds the
  resource only behind a slug that is pinned or begins with `s_`
  (`check_eval_run.py:57`), otherwise its eval-run is advisory.
- The app checks the tables as rebound, CI as mapped; the stored rules are read
  once, before the export.

*Browser.* `ShownTogether` and `NothingLoadsForEver` are of pages that are not `mixed`,
and `StatusIsConfirmed` ends with one that is; `FreshIsLive` and `EvidenceIsOfTheRun`
hold of every page.

Not in the model, seen in the code: the button "Tentar novamente" of
`screens/PromotionDetail.svelte:55` calls `openById`, whose guard (`:356`) returns at
once; that of `PromotionReview.svelte:91` after a failed `open` finds no resource;
the evidence of a run re-run under the same id is not loaded again (`:185`); an
older status that arrives later moves the page backwards until the next poll.

## 6. Not modelled, and why

- The transport (tokens, HTTP, JSON), `verify_identity` (a request has an identity),
  the wording of annotations, findings and comments.
- The spelling of principals: a service principal's entry is sent back as
  `user_name` (`reconcile_audience.py:46`), and names are folded on one side only.
- Who is credited with a milestone (`audit_facts`, `reconcile.py:111`).
- `resource_kind.py`, `audience_spec.py`, `business_area.py`: constants and
  validations of one document, without state; unit tests cover them.
- Provisioning scripts and `pilot_readiness.py`: run by hand, without state.
- Agents, handbook texts and `fix_core.py`: prompts and the answers of a language
  model; `ReviewGate` takes any answer. `run_eval_gate`, the CLI twin of
  `run_eval_gate_rest`, decides by the same `decide_eval`.
- The in-memory backends of the stores, which serve tests and single processes.
- The rest of the web client: components and screens without calls of their own,
  the phases inside a status.

## 7. Plan

1. Proofs of the type invariants that the other theorems imply only in part.
2. Composition of the promotion request with `Reconcile` over `ChangeRequest`.
3. `audit_facts`, as a function of the observation, once the observation carries
   actors.
