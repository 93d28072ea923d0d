---------------------------- MODULE DeployAttempt ----------------------------
(***************************************************************************)
(* The governed production deployment: scripts/deploy_attempt.py run once  *)
(* per Attempt by the content repository's workflow, over the production   *)
(* workspace it mutates.                                                   *)
(*                                                                         *)
(* A release is what one merge leaves on the content branch: the set of    *)
(* artifacts with the AudienceSpec of each.  The title of an artifact is   *)
(* its only identity in production, so it is the artifact itself here; the *)
(* resources that carry it are numbered.  The workspace lists resources    *)
(* with a delay, the runner can be lost at any point, any platform call    *)
(* can fail, and workspace administrators edit what is deployed.           *)
(***************************************************************************)
EXTENDS AudienceAcl, Sequences, FiniteSets

CONSTANTS
  Artifacts,        \* Genie Spaces and dashboards, by production title
  LevelOf,          \* the audience level each one's kind derives
  Releases,         \* the contents a merge may leave behind
  Keys,             \* the opt-in flag settings an operator uses
  MaxId,            \* bound: resources ever created per artifact
  MaxReleases,      \* bound: merges
  MaxRuns,          \* bound: Attempts begun when the last one had succeeded
  MaxFaults,        \* bound: platform failures and lost runners
  MaxEdits,         \* bound: manual edits of production
  Backwards,        \* may the run of an older release be re-run after a newer one
  EditsDuringRuns   \* do administrators also edit while an Attempt runs

ASSUME ConstantsAreSane ==
  /\ LevelOf \in [Artifacts -> {CanRead, CanRun}]
  /\ Releases \subseteq [Artifacts -> SUBSET People]
  /\ Keys \subseteq [destructive : BOOLEAN, allowEmpty : BOOLEAN]
  /\ {MaxId, MaxReleases, MaxRuns, MaxFaults, MaxEdits} \subseteq Nat
  /\ {Backwards, EditsDuringRuns} \subseteq BOOLEAN

None == "none"

ASSUME NoneIsNotAnArtifact == None \notin Artifacts

VARIABLES
  content,          \* the releases merged so far, oldest first
  \* the Attempt in progress, or the last one
  rel,              \* the release it deploys
  keys,             \* its opt-in flags
  alive,            \* its runner still exists
  passedOver,       \* whom earlier Attempts declared, and neither this one nor the
                    \* AudienceSpec it takes for the previous one does (history)
  todo,             \* artifacts the current stage has still to handle
  busy,             \* the artifact whose several calls are under way
  call,             \* the next of these calls
  seen,             \* the ACL the audience stage has read for it
  target,           \* target_ids: the resource resolved for each artifact
  \* its AttemptEvidence, and the part of it the annotations show
  currentStage, mutationStarted, completedStages, failedStage, terminalState,
  shown,
  \* the production workspace
  live,             \* resources that exist, by the title they carry
  listed,           \* resources the list call returns
  managed,          \* the resource the bundle manages (0: none)
  minted,           \* how many have ever been created
  acl, certified,
  \* bounds and history
  runs, faults, edits,
  dirty,            \* this Attempt has changed production
  quiet,            \* nobody else has changed it since this Attempt began
  granted           \* people who hold a grant on a resource only through the app

evidence == <<currentStage, mutationStarted, completedStages, failedStage, terminalState>>
working  == <<todo, busy, call, seen, target>>
attempt  == <<rel, keys, alive, passedOver>>
estate   == <<live, listed, managed, minted, acl, certified>>
counters == <<runs, faults, edits>>
history  == <<dirty, quiet, granted>>

vars == <<content, attempt, working, evidence, shown, estate, counters, history>>

-----------------------------------------------------------------------------
(* What the code reads from a release.                                     *)

StageOrder ==
  <<"preflight", "bundle_deploy", "resolve_space", "assert_app_manage", "reconcile_audience",
    "verify_live_state", "certify_space", "complete">>

Stages == {StageOrder[i] : i \in 1 .. Len(StageOrder)}

\* AudienceSpec requires a principal: an empty audience stands for "not in the release".
Declares(release) == {a \in Artifacts : release[a] # {}}

Audience(r, a) == IF r = 0 THEN {} ELSE content[r][a]

Desired == IF rel = 0 THEN {} ELSE Declares(content[rel])

\* Slip: the previous AudienceSpec is read from the checkout that is being deployed.
Previous_SameCheckout(a) == Audience(rel, a)

\* _previous: the AudienceSpec in the checkout of the commit the merge was made on.
Previous(a) == IF rel = 0 THEN {} ELSE Audience(rel - 1, a)

Ids == 1 .. MaxId

Outcomes == {None, "running", "operational_failed", "partial_failed", "succeeded"}

Running == terminalState = "running" /\ alive

-----------------------------------------------------------------------------
Init ==
  /\ content = <<>>
  /\ rel = 0 /\ keys = [destructive |-> FALSE, allowEmpty |-> FALSE] /\ alive = FALSE
  /\ passedOver = [a \in Artifacts |-> {}]
  /\ todo = {} /\ busy = None /\ call = None /\ seen = NoGrants
  /\ target = [a \in Artifacts |-> 0]
  /\ currentStage = "preflight" /\ mutationStarted = FALSE
  /\ completedStages = <<>> /\ failedStage = None /\ terminalState = None
  /\ shown = [terminal |-> None, mutation |-> FALSE, completed |-> <<>>]
  /\ live = [a \in Artifacts |-> {}] /\ listed = live
  /\ managed = [a \in Artifacts |-> 0] /\ minted = managed
  /\ acl = [a \in Artifacts |-> [i \in Ids |-> NoGrants]]
  /\ certified = [a \in Artifacts |-> {}]
  /\ runs = 0 /\ faults = 0 /\ edits = 0
  /\ dirty = FALSE /\ quiet = TRUE
  /\ granted = [a \in Artifacts |-> [i \in Ids |-> {}]]

-----------------------------------------------------------------------------
(* EvidenceEmitter.emit: the annotation shows the evidence as it is now.   *)

Emit ==
  shown' = [terminal |-> terminalState', mutation |-> mutationStarted',
            completed |-> completedStages']

\* One stage has succeeded: record it, move on, and show it.
Advance(stage, next, work) ==
  /\ currentStage = stage /\ todo = {} /\ busy = None
  /\ completedStages' = Append(completedStages, stage)
  /\ currentStage' = next
  /\ todo' = work
  /\ UNCHANGED <<mutationStarted, failedStage, terminalState, busy, call, seen>>
  /\ Emit

-----------------------------------------------------------------------------
(* Merges and Attempts.                                                    *)

Merge ==
  /\ Len(content) < MaxReleases
  /\ \E release \in Releases : content' = Append(content, release)
  /\ UNCHANGED <<attempt, working, evidence, shown, estate, counters, history>>

\* Whom the Attempts so far may have left a grant: a successful one has taken it from those
\* only its previous AudienceSpec declares.
MayHold(a) ==
  passedOver[a] \cup Audience(rel, a) \cup IF terminalState = "succeeded" THEN {} ELSE Previous(a)

(* The workflow starts an Attempt for a merged release, or a person        *)
(* re-runs it: there is no resume, every run begins with the preflight.    *)
(* The workflow runs one Attempt at a time.                                *)
StartAttempt ==
  /\ terminalState # "running" \/ ~alive
  /\ terminalState \in {None, "succeeded"} => runs < MaxRuns
  /\ \E r \in DOMAIN content, k \in Keys :
       /\ Backwards \/ r >= rel
       /\ rel' = r /\ keys' = k
       /\ passedOver' = [a \in Artifacts |-> MayHold(a) \ (Audience(r, a) \cup Audience(r - 1, a))]
  /\ alive' = TRUE
  /\ currentStage' = "preflight" /\ mutationStarted' = FALSE
  /\ completedStages' = <<>> /\ failedStage' = None /\ terminalState' = "running"
  /\ todo' = {} /\ busy' = None /\ call' = None /\ seen' = NoGrants
  /\ target' = [a \in Artifacts |-> 0]
  /\ runs' = IF terminalState \in {None, "succeeded"} THEN runs + 1 ELSE runs
  /\ dirty' = FALSE /\ quiet' = TRUE
  /\ UNCHANGED <<content, estate, faults, edits, granted>>
  /\ Emit

-----------------------------------------------------------------------------
(* preflight: nothing is mutated.  An empty tree needs both opt-in flags,  *)
(* and a title two live resources share is refused.                        *)

PreflightHolds ==
  /\ Desired = {} => keys.allowEmpty /\ keys.destructive
  /\ \A a \in Desired : Cardinality(listed[a]) <= 1

Preflight ==
  /\ Running
  /\ PreflightHolds
  /\ Advance("preflight", "bundle_deploy", Desired \cup {a \in Artifacts : managed[a] # 0})
  /\ UNCHANGED <<content, attempt, target, estate, counters, history>>

-----------------------------------------------------------------------------
(* bundle_deploy.  mutation_started is set before the CLI is invoked and   *)
(* shown only with the next annotation.                                    *)

BeginMutation ==
  /\ Running
  /\ currentStage = "bundle_deploy" /\ ~mutationStarted
  /\ mutationStarted' = TRUE
  /\ UNCHANGED <<content, attempt, working, currentStage, completedStages, failedStage,
                 terminalState, shown, estate, counters, history>>

\* Without --auto-approve the CLI refuses a plan that deletes something.
PlanDestroys == \E a \in Artifacts \ Desired : managed[a] # 0

\* The CLI brings one artifact to the declared state; `id' is managed[a] afterwards.
Deploy(a, id, removed) ==
  /\ Running
  /\ currentStage = "bundle_deploy" /\ mutationStarted /\ a \in todo
  /\ keys.destructive \/ ~PlanDestroys
  /\ todo' = todo \ {a}
  /\ managed' = [managed EXCEPT ![a] = id]
  /\ live' = [live EXCEPT ![a] = (@ \ removed) \cup ({id} \ {0})]
  /\ minted' = [minted EXCEPT ![a] = IF id > @ THEN id ELSE @]
  /\ dirty' = TRUE
  /\ UNCHANGED <<content, attempt, busy, call, seen, target, evidence, shown, listed, acl,
                 certified, counters, quiet, granted>>

\* The artifact is new, or somebody deleted its resource: create one.
DeployCreate(a) ==
  /\ a \in Desired /\ managed[a] \notin live[a]
  /\ minted[a] < MaxId
  /\ Deploy(a, minted[a] + 1, {})

DeployUpdate(a) ==
  /\ a \in Desired /\ managed[a] \in live[a]
  /\ Deploy(a, managed[a], {})

\* A change of the resource key reads as delete and create.  (Bound: the ids the manual edits
\* still to come may need are left.)
DeployRecreate(a) ==
  /\ a \in Desired /\ managed[a] \in live[a] /\ keys.destructive
  /\ minted[a] + (MaxEdits - edits) < MaxId
  /\ Deploy(a, minted[a] + 1, {managed[a]})

DeployDelete(a) ==
  /\ a \notin Desired
  /\ Deploy(a, 0, {managed[a]})

BundleDeployed ==
  /\ Running
  /\ mutationStarted
  /\ Advance("bundle_deploy", "resolve_space", Desired)
  /\ UNCHANGED <<content, attempt, target, estate, counters, history>>

-----------------------------------------------------------------------------
(* resolve_space: the one listed resource with the title, confirmed to     *)
(* exist.  The bounded retry is the stage waiting for the listing; running *)
(* out of it is StageFails.                                                *)

\* Slip: the listing is trusted, without the existence probe.
Resolve_FromListing(a) ==
  /\ Running
  /\ currentStage = "resolve_space" /\ a \in todo
  /\ \E id \in listed[a] :
       /\ listed[a] = {id}
       /\ target' = [target EXCEPT ![a] = id]
  /\ todo' = todo \ {a}
  /\ UNCHANGED <<content, attempt, busy, call, seen, evidence, shown, estate, counters, history>>

Resolve(a) ==
  /\ Running
  /\ currentStage = "resolve_space" /\ a \in todo
  /\ \E id \in live[a] :
       /\ listed[a] = {id}
       /\ target' = [target EXCEPT ![a] = id]
  /\ todo' = todo \ {a}
  /\ UNCHANGED <<content, attempt, busy, call, seen, evidence, shown, estate, counters, history>>

Resolved ==
  /\ Running
  /\ Advance("resolve_space", "assert_app_manage", Desired)
  /\ UNCHANGED <<content, attempt, target, estate, counters, history>>

-----------------------------------------------------------------------------
(* assert_app_manage: add CAN_MANAGE for the app's service principal.      *)

OnTarget(a) == target[a] \in live[a]

AssertAppManage(a) ==
  /\ Running
  /\ currentStage = "assert_app_manage" /\ a \in todo /\ OnTarget(a)
  /\ acl' = [acl EXCEPT ![a][target[a]][App] = IF AtLeast(@, CanManage) THEN @ ELSE CanManage]
  /\ todo' = todo \ {a}
  /\ dirty' = TRUE
  /\ UNCHANGED <<content, attempt, busy, call, seen, target, evidence, shown, live, listed,
                 managed, minted, certified, counters, quiet, granted>>

AppManageAsserted ==
  /\ Running
  /\ Advance("assert_app_manage", "reconcile_audience", Desired)
  /\ UNCHANGED <<content, attempt, target, estate, counters, history>>

-----------------------------------------------------------------------------
(* reconcile_audience: read the ACL, replace all of it, read it back.      *)

ReadAcl(a) ==
  /\ Running
  /\ currentStage = "reconcile_audience" /\ a \in todo /\ busy = None /\ OnTarget(a)
  /\ busy' = a /\ call' = "set"
  /\ seen' = acl[a][target[a]]
  /\ UNCHANGED <<content, attempt, todo, target, evidence, shown, estate, counters, history>>

ReplaceAcl(a) ==
  /\ Running
  /\ currentStage = "reconcile_audience" /\ busy = a /\ call = "set" /\ OnTarget(a)
  /\ LET want == Audience(rel, a)
         new  == DesiredAcl(seen, want, Previous(a), LevelOf[a])
     IN  /\ acl' = [acl EXCEPT ![a][target[a]] = new]
         /\ granted' = [granted EXCEPT ![a][target[a]] =
                          (@ \cup {p \in want : ~AtLeast(seen[p], LevelOf[a])})
                          \cap {p \in People : new[p] # 0}]
  /\ call' = "readback"
  /\ dirty' = TRUE
  /\ UNCHANGED <<content, attempt, todo, busy, seen, target, evidence, shown, live, listed,
                 managed, minted, certified, counters, quiet>>

ReadBackAcl(a) ==
  /\ Running
  /\ currentStage = "reconcile_audience" /\ busy = a /\ call = "readback" /\ OnTarget(a)
  /\ Missing(acl[a][target[a]], Audience(rel, a), LevelOf[a]) = {}
  /\ busy' = None /\ call' = None /\ seen' = NoGrants
  /\ todo' = todo \ {a}
  /\ UNCHANGED <<content, attempt, target, evidence, shown, estate, counters, history>>

AudienceReconciled ==
  /\ Running
  /\ Advance("reconcile_audience", "verify_live_state", Desired)
  /\ UNCHANGED <<content, attempt, target, estate, counters, history>>

-----------------------------------------------------------------------------
(* verify_live_state: what was granted is read back once more, the         *)
(* audience at its kind's level and the app at CAN_MANAGE.                 *)

LiveStateHolds(a) ==
  /\ OnTarget(a)
  /\ AtLeast(acl[a][target[a]][App], CanManage)
  /\ Missing(acl[a][target[a]], Audience(rel, a), LevelOf[a]) = {}

Verify(a) ==
  /\ Running
  /\ currentStage = "verify_live_state" /\ a \in todo
  /\ LiveStateHolds(a)
  /\ todo' = todo \ {a}
  /\ UNCHANGED <<content, attempt, busy, call, seen, target, evidence, shown, estate, counters,
                 history>>

LiveStateVerified ==
  /\ Running
  /\ Advance("verify_live_state", "certify_space", Desired)
  /\ UNCHANGED <<content, attempt, target, estate, counters, history>>

-----------------------------------------------------------------------------
(* certify_space: get, then create or update the tag unless it is there,   *)
(* then read it back (the bounded retry waits for it to propagate).        *)

\* Slip: the tag is always created, also when an earlier Attempt has left it there.
WriteTag_CreateOnly(a) ==
  /\ Running
  /\ currentStage = "certify_space" /\ a \in todo /\ busy = None /\ OnTarget(a)
  /\ target[a] \notin certified[a]
  /\ busy' = a /\ call' = "readback"
  /\ certified' = [certified EXCEPT ![a] = @ \cup {target[a]}]
  /\ dirty' = TRUE
  /\ UNCHANGED <<content, attempt, todo, seen, target, evidence, shown, live, listed, managed,
                 minted, acl, counters, quiet, granted>>

WriteTag(a) ==
  /\ Running
  /\ currentStage = "certify_space" /\ a \in todo /\ busy = None /\ OnTarget(a)
  /\ busy' = a /\ call' = "readback"
  /\ certified' = [certified EXCEPT ![a] = @ \cup {target[a]}]
  /\ dirty' = (dirty \/ target[a] \notin certified[a])
  /\ UNCHANGED <<content, attempt, todo, seen, target, evidence, shown, live, listed, managed,
                 minted, acl, counters, quiet, granted>>

\* Slip: the loop over the artifacts returns after the first certified one.
ReadBackTag_Returns(a) ==
  /\ Running
  /\ currentStage = "certify_space" /\ busy = a /\ OnTarget(a)
  /\ target[a] \in certified[a]
  /\ busy' = None /\ call' = None
  /\ todo' = {}
  /\ UNCHANGED <<content, attempt, seen, target, evidence, shown, estate, counters, history>>

ReadBackTag(a) ==
  /\ Running
  /\ currentStage = "certify_space" /\ busy = a /\ OnTarget(a)
  /\ target[a] \in certified[a]
  /\ busy' = None /\ call' = None
  /\ todo' = todo \ {a}
  /\ UNCHANGED <<content, attempt, seen, target, evidence, shown, estate, counters, history>>

Certified ==
  /\ Running
  /\ Advance("certify_space", "complete", {})
  /\ UNCHANGED <<content, attempt, target, estate, counters, history>>

\* Slip: a certification that fails does not fail the Attempt.
Complete_CertifyOptional ==
  /\ Running
  /\ currentStage \in {"certify_space", "complete"}
  /\ completedStages' = Append(completedStages, "complete")
  /\ terminalState' = "succeeded"
  /\ UNCHANGED <<content, attempt, working, currentStage, mutationStarted, failedStage, estate,
                 counters, history>>
  /\ Emit

\* The complete stage does nothing; its annotation is the one that shows success.
Complete ==
  /\ Running
  /\ currentStage = "complete"
  /\ completedStages' = Append(completedStages, "complete")
  /\ terminalState' = "succeeded"
  /\ UNCHANGED <<content, attempt, working, currentStage, mutationStarted, failedStage, estate,
                 counters, history>>
  /\ Emit

-----------------------------------------------------------------------------
(* Failures.  Refused is what the code itself turns down (or the platform  *)
(* must: a call on a resource that is gone); any other failure of a        *)
(* platform call is a fault.                                               *)

\* Slip: a call on a resource that is gone is retried for ever.
OutOfReach_Retried == FALSE

OutOfReach == \E a \in todo : ~OnTarget(a)

Refused ==
  \/ currentStage = "preflight" /\ ~PreflightHolds
  \/ currentStage = "bundle_deploy" /\ PlanDestroys /\ ~keys.destructive
  \/ currentStage = "resolve_space" /\ \E a \in todo :
       \/ Cardinality(listed[a]) > 1
       \/ listed[a] = live[a] /\ live[a] = {}
  \/ currentStage \in {"assert_app_manage", "reconcile_audience", "certify_space"} /\ OutOfReach
  \/ currentStage = "reconcile_audience" /\ busy # None /\ call = "readback"
       /\ Missing(acl[busy][target[busy]], Audience(rel, busy), LevelOf[busy]) # {}
  \/ currentStage = "verify_live_state" /\ \E a \in todo : ~LiveStateHolds(a)
  \/ currentStage = "certify_space" /\ busy # None /\ target[busy] \notin certified[busy]

Fails(terminal) ==
  /\ Running
  /\ Refused \/ faults < MaxFaults
  /\ faults' = IF Refused THEN faults ELSE faults + 1
  /\ failedStage' = currentStage
  /\ terminalState' = terminal
  /\ UNCHANGED <<content, attempt, working, currentStage, mutationStarted, completedStages,
                 estate, runs, edits, history>>
  /\ Emit

PreflightFails ==
  /\ currentStage = "preflight"
  /\ Fails("operational_failed")

\* Slip: an outcome the evidence vocabulary does not have.
StageFails_Unnamed ==
  /\ mutationStarted /\ currentStage # "complete"
  /\ Fails("failed")

\* Slip: the mutation counts as started only once the bundle is deployed.
StageFails_Late ==
  /\ mutationStarted /\ currentStage # "complete"
  /\ Fails(IF currentStage = "bundle_deploy" THEN "operational_failed" ELSE "partial_failed")

StageFails ==
  /\ mutationStarted /\ currentStage # "complete"
  /\ Fails("partial_failed")

\* The runner disappears: nothing is recorded, nothing more is shown.
RunnerLost ==
  /\ Running
  /\ faults < MaxFaults
  /\ faults' = faults + 1
  /\ alive' = FALSE
  /\ UNCHANGED <<content, rel, keys, passedOver, working, evidence, shown, estate, runs, edits,
                 history>>

-----------------------------------------------------------------------------
(* The workspace: its listing catches up, administrators edit it.          *)

ListingCatchesUp(a) ==
  /\ listed[a] # live[a]
  /\ listed' = [listed EXCEPT ![a] = live[a]]
  /\ UNCHANGED <<content, attempt, working, evidence, shown, live, managed, minted, acl,
                 certified, counters, history>>

Edit ==
  /\ edits < MaxEdits
  /\ ~EditsDuringRuns => ~Running
  /\ edits' = edits + 1
  /\ quiet' = FALSE
  /\ UNCHANGED <<content, attempt, working, evidence, shown, listed, managed, runs, faults, dirty>>

EditGrant ==
  /\ Edit
  /\ \E a \in Artifacts : \E id \in live[a], p \in People, l \in {0, CanRead, CanRun, CanManage} :
       /\ l # acl[a][id][p]
       /\ acl' = [acl EXCEPT ![a][id][p] = l]
       /\ granted' = [granted EXCEPT ![a][id] = @ \ {p}]
  /\ UNCHANGED <<live, minted, certified>>

EditDelete ==
  /\ Edit
  /\ \E a \in Artifacts : \E id \in live[a] : live' = [live EXCEPT ![a] = @ \ {id}]
  /\ UNCHANGED <<minted, acl, certified, granted>>

EditDuplicate ==
  /\ Edit
  /\ \E a \in Artifacts :
       /\ minted[a] < MaxId
       /\ minted' = [minted EXCEPT ![a] = @ + 1]
       /\ live' = [live EXCEPT ![a] = @ \cup {minted[a] + 1}]
  /\ UNCHANGED <<acl, certified, granted>>

EditTag ==
  /\ Edit
  /\ \E a \in Artifacts : \E id \in certified[a] :
       certified' = [certified EXCEPT ![a] = @ \ {id}]
  /\ UNCHANGED <<live, minted, acl, granted>>

-----------------------------------------------------------------------------
StageStep ==
  \/ Preflight \/ BeginMutation \/ BundleDeployed \/ Resolved \/ AppManageAsserted
  \/ AudienceReconciled \/ LiveStateVerified \/ Certified \/ Complete
  \/ \E a \in Artifacts :
       \/ DeployCreate(a) \/ DeployUpdate(a) \/ DeployRecreate(a) \/ DeployDelete(a)
       \/ Resolve(a) \/ AssertAppManage(a)
       \/ ReadAcl(a) \/ ReplaceAcl(a) \/ ReadBackAcl(a)
       \/ Verify(a) \/ WriteTag(a) \/ ReadBackTag(a)

AttemptStep == StageStep \/ PreflightFails \/ StageFails

Listing == \E a \in Artifacts : ListingCatchesUp(a)

Edits == EditGrant \/ EditDelete \/ EditDuplicate \/ EditTag

Next == Merge \/ StartAttempt \/ AttemptStep \/ RunnerLost \/ Listing \/ Edits

Spec == Init /\ [][Next]_vars

(***************************************************************************)
(* The runner keeps executing, the listing catches up, and somebody        *)
(* re-runs an Attempt that did not succeed (ADR-0007: a retry converges    *)
(* forward).                                                               *)
(***************************************************************************)
Rerun == terminalState \notin {None, "succeeded"} /\ StartAttempt

FairSpec ==
  /\ Spec
  /\ WF_vars(AttemptStep)
  /\ \A a \in Artifacts : WF_vars(ListingCatchesUp(a))
  /\ WF_vars(Rerun)

-----------------------------------------------------------------------------
ReleaseType ==
  /\ content \in Seq(Releases)
  /\ rel \in 0 .. Len(content)
  /\ keys \in [destructive : BOOLEAN, allowEmpty : BOOLEAN]
  /\ alive \in BOOLEAN
  /\ passedOver \in [Artifacts -> SUBSET People]

WorkType ==
  /\ todo \subseteq Artifacts
  /\ busy \in Artifacts \cup {None}
  /\ call \in {None, "set", "readback"}
  /\ seen \in Acl
  /\ target \in [Artifacts -> Ids \cup {0}]

EvidenceType ==
  /\ currentStage \in Stages
  /\ failedStage \in Stages \cup {None}
  /\ mutationStarted \in BOOLEAN
  /\ completedStages \in Seq(Stages)
  /\ terminalState \in Outcomes
  /\ shown \in [terminal : Outcomes, mutation : BOOLEAN, completed : Seq(Stages)]

EstateType ==
  /\ live \in [Artifacts -> SUBSET Ids]
  /\ listed \in [Artifacts -> SUBSET Ids]
  /\ managed \in [Artifacts -> Ids \cup {0}]
  /\ minted \in [Artifacts -> Ids \cup {0}]
  /\ acl \in [Artifacts -> [Ids -> Acl]]
  /\ certified \in [Artifacts -> SUBSET Ids]
  /\ granted \in [Artifacts -> [Ids -> SUBSET People]]

CountType ==
  /\ runs \in Nat /\ faults \in Nat /\ edits \in 0 .. MaxEdits
  /\ dirty \in BOOLEAN /\ quiet \in BOOLEAN

TypeOK == ReleaseType /\ WorkType /\ EvidenceType /\ EstateType /\ CountType

-----------------------------------------------------------------------------
(* What each completed stage has established, for every artifact of the    *)
(* release.                                                                *)

Effect(stage) ==
  \A a \in Artifacts :
    CASE stage = "bundle_deploy"      -> IF a \in Desired THEN managed[a] \in live[a] ELSE managed[a] = 0
      [] stage = "resolve_space"      -> a \in Desired => OnTarget(a)
      [] stage = "assert_app_manage"  -> a \in Desired => AtLeast(acl[a][target[a]][App], CanManage)
      [] stage = "reconcile_audience" -> a \in Desired => Missing(acl[a][target[a]], Audience(rel, a), LevelOf[a]) = {}
      [] stage = "certify_space"      -> a \in Desired => target[a] \in certified[a]
      [] OTHER                        -> TRUE

\* Every stage the annotations list as completed still holds of production, as long as
\* only the Attempt writes to it: a later stage, and the replay of an earlier one, never
\* undo what was reported (ADR-0007, "show exactly what production has already received").
PublishedStagesHold ==
  quiet => \A i \in DOMAIN shown.completed : Effect(shown.completed[i])

\* A deployment reported as succeeded is in place as a whole: exactly the declared artifacts
\* are managed, and each one is resolved, the app's, its audience's, and certified.
SucceededIsLive ==
  terminalState = "succeeded" /\ quiet => \A stage \in Stages : Effect(stage)

\* The annotations never hide a change of production, but while the bundle is being deployed
\* (mutation_started is shown with the end of that stage): once the Attempt has changed
\* anything they say so, and an Attempt that is over with operational_failed, which tells the
\* operator that production is untouched, has not.
EvidenceHonest ==
  dirty =>
    /\ shown.mutation \/ (currentStage = "bundle_deploy" /\ shown.terminal = "running")
    /\ shown.terminal # "operational_failed"

\* When one resource only carries an artifact's title, the id the title resolves to is the
\* one the bundle manages: the stages after resolve_space never act on a tombstone.
TargetIsManaged ==
  quiet => \A a \in Desired :
             target[a] # 0 /\ Cardinality(live[a]) = 1 => target[a] = managed[a]

\* No step of an Attempt lowers anybody's grant, but for people the previous AudienceSpec
\* declares and this one does not, who hold exactly the derived level.
UnmanagedGrantsKept ==
  [][edits' = edits =>
       \A a \in Artifacts : \A i \in Ids : \A p \in Principals :
         acl'[a][i][p] < acl[a][i][p] =>
           p \in Previous(a) \ Audience(rel, a) /\ acl[a][i][p] = LevelOf[a]]_vars

\* Who holds the derived level on a managed resource only because an earlier release declared them.
Lingering(a) ==
  {p \in granted[a][target[a]] : acl[a][target[a]][p] = LevelOf[a]} \ Audience(rel, a)

\* After a successful deployment the audience is the declared one, but for people whom an Attempt
\* has passed over: the one before it declared them, and neither its own AudienceSpec nor that of
\* its commit's parent does.  Whatever the order, nobody else keeps a grant of the app.
AudienceConverges ==
  terminalState = "succeeded" /\ quiet =>
    \A a \in Desired : target[a] = managed[a] => Lingering(a) \subseteq passedOver[a]

\* An Attempt ends, whatever fails and whoever edits production meanwhile: no stage waits
\* for ever.
AttemptEnds == Running ~> ~Running

\* An Attempt that failed or whose runner was lost, at whatever stage, is followed by one
\* that succeeds when somebody keeps re-running it: nothing half done, and no manual edit but
\* a duplicate of a title (which every run refuses), blocks the replay.
ReplayConverges ==
  (terminalState \in {"operational_failed", "partial_failed"} \/ (terminalState = "running" /\ ~alive))
    ~> (terminalState = "succeeded" \/ \E a \in Artifacts : Cardinality(live[a]) > 1)

\* What the Attempt promises to a reader of its outcome, see AttemptContract.
Contract == INSTANCE AttemptContract WITH
  outcome <- IF terminalState = "running" /\ ~alive THEN "lost" ELSE terminalState,
  touched <- dirty,
  wanted  <- Desired,
  settled <- CASE currentStage = "certify_space" -> Desired \ todo
               [] currentStage = "complete"      -> Desired
               [] OTHER                          -> {}

\* Every behaviour of the stages is one the contract allows.
ImplementsContract == Contract!CSpec

=============================================================================
