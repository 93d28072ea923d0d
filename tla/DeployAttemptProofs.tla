------------------------- MODULE DeployAttemptProofs -------------------------
(***************************************************************************)
(* Proofs about DeployAttempt, for every set of artifacts, people and      *)
(* releases and every value of the bounds: its types, what an Attempt      *)
(* reports, what its completed stages established, and what it may do to   *)
(* production beyond them - the grants it may lower, the resource it acts  *)
(* on, the audience it converges to, and the contract its outcome keeps.   *)
(***************************************************************************)
EXTENDS DeployAttempt, FiniteSetTheorems, TLAPS

\* The stages, written out.
LEMMA StageNames ==
  Stages = {"preflight", "bundle_deploy", "resolve_space", "assert_app_manage",
            "reconcile_audience", "verify_live_state", "certify_space", "complete"}
<1>1. Len(StageOrder) = 8
  BY DEF StageOrder
<1> QED BY <1>1 DEF Stages, StageOrder

\* The bounds are natural numbers and the derived levels are levels.
LEMMA Bounds ==
  /\ MaxId \in Nat /\ MaxRuns \in Nat /\ MaxFaults \in Nat /\ MaxEdits \in Nat
  /\ \A a \in Artifacts : LevelOf[a] \in {1, 2}
  BY ConstantsAreSane DEF CanRead, CanRun

\* A reconciled ACL is an ACL.
LEMMA DesiredAclType ==
  ASSUME NEW cur \in Acl, NEW desired, NEW previous, NEW level \in Levels
  PROVE  DesiredAcl(cur, desired, previous, level) \in Acl
  BY DEF DesiredAcl, Acl, Levels

LEMMA NoGrantsType == NoGrants \in Acl
  BY DEF NoGrants, Acl, Levels

\* There is an id left for one more resource.
LEMMA Minting ==
  ASSUME TypeOK, NEW a \in Artifacts, minted[a] < MaxId
  PROVE  minted[a] + 1 \in Ids
<1>1. minted[a] \in Ids \cup {0}
  BY DEF TypeOK, EstateType
<1> QED BY <1>1, Bounds DEF Ids

\* Replacing the ACL of one resource.
LEMMA AclUpdate ==
  ASSUME TypeOK, NEW a \in Artifacts, NEW id \in Ids, NEW new \in Acl,
         acl' = [acl EXCEPT ![a][id] = new]
  PROVE  acl' \in [Artifacts -> [Ids -> Acl]]
BY DEF TypeOK, EstateType

-----------------------------------------------------------------------------
(* Every variable keeps its type.                                          *)

\* The step that ends a stage.
LEMMA AdvanceType ==
  ASSUME TypeOK, NEW stage \in Stages, NEW next \in Stages, NEW work \in SUBSET Artifacts,
         Advance(stage, next, work),
         UNCHANGED <<content, attempt, target, estate, counters, history>>
  PROVE  TypeOK'
<1>1. ReleaseType'
  BY DEF TypeOK, ReleaseType, attempt
<1>2. WorkType'
  BY DEF TypeOK, WorkType, Advance
<1>3. EvidenceType'
  <2>1. completedStages' \in Seq(Stages)
    BY DEF TypeOK, EvidenceType, Advance
  <2> QED BY <2>1 DEF TypeOK, EvidenceType, Advance, Emit
<1>4. EstateType'
  BY DEF TypeOK, EstateType, estate, history
<1>5. CountType'
  BY DEF TypeOK, CountType, counters, history
<1> QED BY <1>1, <1>2, <1>3, <1>4, <1>5 DEF TypeOK

\* The step that ends an Attempt with a failure.
LEMMA FailsType ==
  ASSUME TypeOK, NEW terminal \in {"operational_failed", "partial_failed"}, Fails(terminal)
  PROVE  TypeOK'
<1>1. ReleaseType'
  BY DEF TypeOK, ReleaseType, Fails, attempt
<1>2. WorkType'
  BY DEF TypeOK, WorkType, Fails, working
<1>3. EvidenceType'
  BY DEF TypeOK, EvidenceType, Fails, Emit, Outcomes
<1>4. EstateType'
  BY DEF TypeOK, EstateType, Fails, estate, history
<1>5. CountType'
  BY DEF TypeOK, CountType, Fails, history
<1> QED BY <1>1, <1>2, <1>3, <1>4, <1>5 DEF TypeOK

\* The step that deploys one artifact.
LEMMA DeployType ==
  ASSUME TypeOK, NEW a \in Artifacts, NEW id \in Ids \cup {0}, NEW removed, Deploy(a, id, removed)
  PROVE  TypeOK'
<1>1. ReleaseType'
  BY DEF TypeOK, ReleaseType, Deploy, attempt
<1>2. WorkType'
  BY DEF TypeOK, WorkType, Deploy
<1>3. EvidenceType'
  BY DEF TypeOK, EvidenceType, Deploy, evidence
<1>4. EstateType'
  <2>1. live' \in [Artifacts -> SUBSET Ids]
    BY DEF TypeOK, EstateType, Deploy
  <2>2. managed' \in [Artifacts -> Ids \cup {0}]
    BY DEF TypeOK, EstateType, Deploy
  <2>3. minted' \in [Artifacts -> Ids \cup {0}]
    BY DEF TypeOK, EstateType, Deploy
  <2> QED BY <2>1, <2>2, <2>3 DEF TypeOK, EstateType, Deploy
<1>5. CountType'
  BY DEF TypeOK, CountType, Deploy, counters
<1> QED BY <1>1, <1>2, <1>3, <1>4, <1>5 DEF TypeOK

\* The frame of every manual edit.
LEMMA EditType ==
  ASSUME TypeOK, Edit
  PROVE  ReleaseType' /\ WorkType' /\ EvidenceType' /\ CountType'
<1>1. ReleaseType'
  BY DEF TypeOK, ReleaseType, Edit, attempt
<1>2. WorkType'
  BY DEF TypeOK, WorkType, Edit, working
<1>3. EvidenceType'
  BY DEF TypeOK, EvidenceType, Edit, evidence
<1>4. CountType'
  <2>1. edits' \in 0 .. MaxEdits
    BY Bounds DEF TypeOK, CountType, Edit
  <2>2. UNCHANGED <<runs, faults, dirty>> /\ quiet' = FALSE
    BY DEF Edit
  <2> QED BY <2>1, <2>2 DEF TypeOK, CountType
<1> QED BY <1>1, <1>2, <1>3, <1>4

\* An Attempt starts from scratch.
LEMMA StartAttemptType ==
  ASSUME TypeOK, StartAttempt
  PROVE  TypeOK'
<1> USE StageNames
<1>1. ReleaseType'
  <2>1. PICK r \in DOMAIN content, k \in Keys : rel' = r /\ keys' = k
    BY DEF StartAttempt
  <2>2. rel' \in 0 .. Len(content')
    BY <2>1 DEF TypeOK, ReleaseType, StartAttempt
  <2>3. keys' \in [destructive : BOOLEAN, allowEmpty : BOOLEAN]
    BY <2>1, ConstantsAreSane
  <2>4. alive' = TRUE /\ content' = content
    BY DEF StartAttempt
  <2>5. passedOver' \in [Artifacts -> SUBSET People]
    <3>1. \A i \in 0 .. Len(content), a \in Artifacts : Audience(i, a) \subseteq People
      BY ConstantsAreSane DEF TypeOK, ReleaseType, Audience
    <3>2. \A a \in Artifacts : Previous(a) \subseteq People
      BY <3>1 DEF TypeOK, ReleaseType, Previous
    <3>3. \A a \in Artifacts : MayHold(a) \subseteq People
      BY <3>1, <3>2 DEF TypeOK, ReleaseType, MayHold
    <3> QED BY <3>3 DEF StartAttempt
  <2> QED BY <2>2, <2>3, <2>4, <2>5 DEF TypeOK, ReleaseType
<1>2. WorkType'
  BY NoGrantsType DEF TypeOK, WorkType, StartAttempt
<1>3. EvidenceType'
  <2>1. /\ currentStage' = "preflight" /\ mutationStarted' = FALSE
        /\ completedStages' = <<>> /\ failedStage' = None /\ terminalState' = "running"
        /\ shown' = [terminal |-> "running", mutation |-> FALSE, completed |-> <<>>]
    BY DEF StartAttempt, Emit
  <2>2. mutationStarted' \in BOOLEAN
    BY <2>1
  <2>3. completedStages' \in Seq(Stages)
    BY <2>1
  <2>4. shown' \in [terminal : Outcomes, mutation : BOOLEAN, completed : Seq(Stages)]
    BY <2>1 DEF Outcomes
  <2>5. currentStage' \in Stages /\ failedStage' \in Stages \cup {None} /\ terminalState' \in Outcomes
    BY <2>1 DEF Outcomes
  <2> QED BY <2>2, <2>3, <2>4, <2>5 DEF EvidenceType
<1>4. EstateType'
  BY DEF TypeOK, EstateType, StartAttempt, estate
<1>5. CountType'
  <2>1. runs' \in Nat
    BY DEF TypeOK, CountType, StartAttempt
  <2>2. UNCHANGED <<faults, edits>> /\ dirty' = FALSE /\ quiet' = TRUE
    BY DEF StartAttempt
  <2> QED BY <2>1, <2>2 DEF TypeOK, CountType
<1> QED BY <1>1, <1>2, <1>3, <1>4, <1>5 DEF TypeOK

\* Types hold initially.
LEMMA InitType == Init => TypeOK
<1> SUFFICES ASSUME Init PROVE TypeOK
  OBVIOUS
<1> USE StageNames, NoGrantsType, Bounds
<1>1. ReleaseType
  <2>1. content \in Seq(Releases) /\ rel \in 0 .. Len(content)
    BY DEF Init
  <2>2. keys \in [destructive : BOOLEAN, allowEmpty : BOOLEAN] /\ alive = FALSE
    BY Zenon DEF Init
  <2>3. passedOver \in [Artifacts -> SUBSET People]
    BY DEF Init
  <2> QED BY <2>1, <2>2, <2>3 DEF ReleaseType
<1>2. WorkType
  BY DEF Init, WorkType
<1>3. EvidenceType
  <2>1. completedStages \in Seq(Stages) /\ currentStage \in Stages
    BY DEF Init
  <2>2. mutationStarted \in BOOLEAN
    BY DEF Init
  <2>3. shown \in [terminal : Outcomes, mutation : BOOLEAN, completed : Seq(Stages)]
    BY DEF Init, Outcomes
  <2> QED BY <2>1, <2>2, <2>3 DEF Init, EvidenceType, Outcomes
<1>4. EstateType
  BY DEF Init, EstateType, Ids
<1>5. CountType
  <2>1. runs \in Nat /\ faults \in Nat /\ edits \in 0 .. MaxEdits
    BY Bounds DEF Init
  <2>2. dirty = FALSE /\ quiet = TRUE
    BY DEF Init
  <2> QED BY <2>1, <2>2 DEF CountType
<1> QED BY <1>1, <1>2, <1>3, <1>4, <1>5 DEF TypeOK

\* Every step keeps them.
LEMMA StepType == TypeOK /\ [Next]_vars => TypeOK'
<1> SUFFICES ASSUME TypeOK, [Next]_vars PROVE TypeOK'
  OBVIOUS
<1> USE StageNames
<1>0. Desired \in SUBSET Artifacts
  BY DEF Desired, Declares
<1>1. CASE Preflight
  BY <1>1, <1>0, AdvanceType DEF Preflight
<1>2. CASE BundleDeployed
  BY <1>2, <1>0, AdvanceType DEF BundleDeployed
<1>3. CASE Resolved
  BY <1>3, <1>0, AdvanceType DEF Resolved
<1>4. CASE AppManageAsserted
  BY <1>4, <1>0, AdvanceType DEF AppManageAsserted
<1>5. CASE AudienceReconciled
  BY <1>5, <1>0, AdvanceType DEF AudienceReconciled
<1>6. CASE LiveStateVerified
  BY <1>6, <1>0, AdvanceType DEF LiveStateVerified
<1>7. CASE Certified
  BY <1>7, <1>0, AdvanceType DEF Certified
<1>8. CASE StartAttempt
  BY <1>8, StartAttemptType DEF StartAttempt
<1>9. CASE PreflightFails
  BY <1>9, FailsType DEF PreflightFails
<1>10. CASE StageFails
  BY <1>10, FailsType DEF StageFails
<1>11. CASE Merge
  <2>1. ReleaseType'
    BY <1>11 DEF TypeOK, ReleaseType, Merge, attempt
  <2>2. WorkType'
    BY <1>11 DEF TypeOK, WorkType, Merge, working
  <2>3. EvidenceType'
    BY <1>11 DEF TypeOK, EvidenceType, Merge, evidence
  <2>4. EstateType'
    BY <1>11 DEF TypeOK, EstateType, Merge, estate, history
  <2>5. CountType'
    BY <1>11 DEF TypeOK, CountType, Merge, counters, history
  <2> QED BY <2>1, <2>2, <2>3, <2>4, <2>5 DEF TypeOK
<1>12. CASE BeginMutation
  <2>1. ReleaseType'
    BY <1>12 DEF TypeOK, ReleaseType, BeginMutation, attempt
  <2>2. WorkType'
    BY <1>12 DEF TypeOK, WorkType, BeginMutation, working
  <2>3. EvidenceType'
    BY <1>12 DEF TypeOK, EvidenceType, BeginMutation
  <2>4. EstateType'
    BY <1>12 DEF TypeOK, EstateType, BeginMutation, estate, history
  <2>5. CountType'
    BY <1>12 DEF TypeOK, CountType, BeginMutation, counters, history
  <2> QED BY <2>1, <2>2, <2>3, <2>4, <2>5 DEF TypeOK
<1>13. CASE Complete
  <2>1. ReleaseType'
    BY <1>13 DEF TypeOK, ReleaseType, Complete, attempt
  <2>2. WorkType'
    BY <1>13 DEF TypeOK, WorkType, Complete, working
  <2>3. EvidenceType'
    BY <1>13 DEF TypeOK, EvidenceType, Complete, Emit, Outcomes
  <2>4. EstateType'
    BY <1>13 DEF TypeOK, EstateType, Complete, estate, history
  <2>5. CountType'
    BY <1>13 DEF TypeOK, CountType, Complete, counters, history
  <2> QED BY <2>1, <2>2, <2>3, <2>4, <2>5 DEF TypeOK
<1>14. CASE RunnerLost
  <2>1. ReleaseType'
    BY <1>14 DEF TypeOK, ReleaseType, RunnerLost
  <2>2. WorkType'
    BY <1>14 DEF TypeOK, WorkType, RunnerLost, working
  <2>3. EvidenceType'
    BY <1>14 DEF TypeOK, EvidenceType, RunnerLost, evidence
  <2>4. EstateType'
    BY <1>14 DEF TypeOK, EstateType, RunnerLost, estate, history
  <2>5. CountType'
    BY <1>14 DEF TypeOK, CountType, RunnerLost, history
  <2> QED BY <2>1, <2>2, <2>3, <2>4, <2>5 DEF TypeOK
<1>15. ASSUME NEW a \in Artifacts, Resolve(a) PROVE TypeOK'
  <2>0. \A i \in live[a] : i \in Ids
    BY DEF TypeOK, EstateType
  <2>1. ReleaseType'
    BY <1>15 DEF TypeOK, ReleaseType, Resolve, attempt
  <2>2. WorkType'
    BY <1>15, <2>0 DEF TypeOK, WorkType, Resolve
  <2>3. EvidenceType'
    BY <1>15 DEF TypeOK, EvidenceType, Resolve, evidence
  <2>4. EstateType'
    BY <1>15 DEF TypeOK, EstateType, Resolve, estate, history
  <2>5. CountType'
    BY <1>15 DEF TypeOK, CountType, Resolve, counters, history
  <2> QED BY <2>1, <2>2, <2>3, <2>4, <2>5 DEF TypeOK
<1>16. ASSUME NEW a \in Artifacts, AssertAppManage(a) PROVE TypeOK'
  <2>1. ReleaseType'
    BY <1>16 DEF TypeOK, ReleaseType, AssertAppManage, attempt
  <2>2. WorkType'
    BY <1>16 DEF TypeOK, WorkType, AssertAppManage
  <2>3. EvidenceType'
    BY <1>16 DEF TypeOK, EvidenceType, AssertAppManage, evidence
  <2>4. EstateType'
    <3>1. target[a] \in Ids
      BY <1>16 DEF TypeOK, EstateType, AssertAppManage, OnTarget
    <3>2. acl[a][target[a]] \in Acl
      BY <3>1 DEF TypeOK, EstateType
    <3> DEFINE new == [acl[a][target[a]] EXCEPT ![App] = IF AtLeast(@, CanManage) THEN @ ELSE CanManage]
    <3>4. new \in Acl
      <4>1. \A l \in Levels : [acl[a][target[a]] EXCEPT ![App] = l] \in Acl
        BY <3>2 DEF Acl
      <4>2. acl[a][target[a]][App] \in Levels
        BY <3>2 DEF Acl, Principals
      <4>3. CanManage \in Levels
        BY DEF CanManage, Levels
      <4> QED BY <4>1, <4>2, <4>3
    <3>5. acl' = [acl EXCEPT ![a][target[a]] = new]
      BY <1>16, <3>1, <3>2 DEF AssertAppManage, TypeOK, EstateType
    <3>6. acl' \in [Artifacts -> [Ids -> Acl]]
      BY <3>1, <3>4, <3>5, AclUpdate
    <3> QED BY <1>16, <3>6 DEF TypeOK, EstateType, AssertAppManage
  <2>5. CountType'
    BY <1>16 DEF TypeOK, CountType, AssertAppManage, counters
  <2> QED BY <2>1, <2>2, <2>3, <2>4, <2>5 DEF TypeOK
<1>17. ASSUME NEW a \in Artifacts, ReadAcl(a) PROVE TypeOK'
  <2>1. ReleaseType'
    BY <1>17 DEF TypeOK, ReleaseType, ReadAcl, attempt
  <2>2. WorkType'
    BY <1>17 DEF TypeOK, WorkType, ReadAcl, OnTarget, EstateType
  <2>3. EvidenceType'
    BY <1>17 DEF TypeOK, EvidenceType, ReadAcl, evidence
  <2>4. EstateType'
    BY <1>17 DEF TypeOK, EstateType, ReadAcl, estate, history
  <2>5. CountType'
    BY <1>17 DEF TypeOK, CountType, ReadAcl, counters, history
  <2> QED BY <2>1, <2>2, <2>3, <2>4, <2>5 DEF TypeOK
<1>18. ASSUME NEW a \in Artifacts, ReplaceAcl(a) PROVE TypeOK'
  <2>1. ReleaseType'
    BY <1>18 DEF TypeOK, ReleaseType, ReplaceAcl, attempt
  <2>2. WorkType'
    BY <1>18 DEF TypeOK, WorkType, ReplaceAcl
  <2>3. EvidenceType'
    BY <1>18 DEF TypeOK, EvidenceType, ReplaceAcl, evidence
  <2>4. EstateType'
    <3>1. target[a] \in Ids /\ seen \in Acl /\ LevelOf[a] \in Levels
      BY <1>18, Bounds DEF TypeOK, EstateType, WorkType, ReplaceAcl, OnTarget, Levels
    <3> DEFINE new == DesiredAcl(seen, Audience(rel, a), Previous(a), LevelOf[a])
    <3>2. new \in Acl
      BY <3>1, DesiredAclType
    <3>3. acl' \in [Artifacts -> [Ids -> Acl]]
      <4>1. acl' = [acl EXCEPT ![a][target[a]] = new]
        BY <1>18 DEF ReplaceAcl
      <4> QED BY <3>1, <3>2, <4>1, AclUpdate
    <3>4. granted' \in [Artifacts -> [Ids -> SUBSET People]]
      <4>1. PICK X : granted' = [granted EXCEPT ![a][target[a]] = X \cap {p \in People : new[p] # 0}]
        BY <1>18 DEF ReplaceAcl
      <4> HIDE DEF new
      <4> QED BY <3>1, <4>1 DEF TypeOK, EstateType
    <3> QED BY <1>18, <3>3, <3>4 DEF TypeOK, EstateType, ReplaceAcl
  <2>5. CountType'
    BY <1>18 DEF TypeOK, CountType, ReplaceAcl, counters
  <2> QED BY <2>1, <2>2, <2>3, <2>4, <2>5 DEF TypeOK
<1>19. ASSUME NEW a \in Artifacts, ReadBackAcl(a) PROVE TypeOK'
  <2>1. ReleaseType'
    BY <1>19 DEF TypeOK, ReleaseType, ReadBackAcl, attempt
  <2>2. WorkType'
    BY <1>19, NoGrantsType DEF TypeOK, WorkType, ReadBackAcl
  <2>3. EvidenceType'
    BY <1>19 DEF TypeOK, EvidenceType, ReadBackAcl, evidence
  <2>4. EstateType'
    BY <1>19 DEF TypeOK, EstateType, ReadBackAcl, estate, history
  <2>5. CountType'
    BY <1>19 DEF TypeOK, CountType, ReadBackAcl, counters, history
  <2> QED BY <2>1, <2>2, <2>3, <2>4, <2>5 DEF TypeOK
<1>20. ASSUME NEW a \in Artifacts, Verify(a) PROVE TypeOK'
  <2>1. ReleaseType'
    BY <1>20 DEF TypeOK, ReleaseType, Verify, attempt
  <2>2. WorkType'
    BY <1>20 DEF TypeOK, WorkType, Verify
  <2>3. EvidenceType'
    BY <1>20 DEF TypeOK, EvidenceType, Verify, evidence
  <2>4. EstateType'
    BY <1>20 DEF TypeOK, EstateType, Verify, estate, history
  <2>5. CountType'
    BY <1>20 DEF TypeOK, CountType, Verify, counters, history
  <2> QED BY <2>1, <2>2, <2>3, <2>4, <2>5 DEF TypeOK
<1>21. ASSUME NEW a \in Artifacts, WriteTag(a) PROVE TypeOK'
  <2>1. ReleaseType'
    BY <1>21 DEF TypeOK, ReleaseType, WriteTag, attempt
  <2>2. WorkType'
    BY <1>21 DEF TypeOK, WorkType, WriteTag
  <2>3. EvidenceType'
    BY <1>21 DEF TypeOK, EvidenceType, WriteTag, evidence
  <2>4. EstateType'
    BY <1>21 DEF TypeOK, EstateType, WriteTag, OnTarget
  <2>5. CountType'
    BY <1>21 DEF TypeOK, CountType, WriteTag, counters
  <2> QED BY <2>1, <2>2, <2>3, <2>4, <2>5 DEF TypeOK
<1>22. ASSUME NEW a \in Artifacts, ReadBackTag(a) PROVE TypeOK'
  <2>1. ReleaseType'
    BY <1>22 DEF TypeOK, ReleaseType, ReadBackTag, attempt
  <2>2. WorkType'
    BY <1>22 DEF TypeOK, WorkType, ReadBackTag
  <2>3. EvidenceType'
    BY <1>22 DEF TypeOK, EvidenceType, ReadBackTag, evidence
  <2>4. EstateType'
    BY <1>22 DEF TypeOK, EstateType, ReadBackTag, estate, history
  <2>5. CountType'
    BY <1>22 DEF TypeOK, CountType, ReadBackTag, counters, history
  <2> QED BY <2>1, <2>2, <2>3, <2>4, <2>5 DEF TypeOK
<1>23. ASSUME NEW a \in Artifacts, ListingCatchesUp(a) PROVE TypeOK'
  <2>1. ReleaseType'
    BY <1>23 DEF TypeOK, ReleaseType, ListingCatchesUp, attempt
  <2>2. WorkType'
    BY <1>23 DEF TypeOK, WorkType, ListingCatchesUp, working
  <2>3. EvidenceType'
    BY <1>23 DEF TypeOK, EvidenceType, ListingCatchesUp, evidence
  <2>4. EstateType'
    BY <1>23 DEF TypeOK, EstateType, ListingCatchesUp, history
  <2>5. CountType'
    BY <1>23 DEF TypeOK, CountType, ListingCatchesUp, counters, history
  <2> QED BY <2>1, <2>2, <2>3, <2>4, <2>5 DEF TypeOK
<1>24. CASE EditGrant
  <2>1. EstateType'
    <3>0. PICK a \in Artifacts :
            \E id \in live[a], p \in People, l \in {0, CanRead, CanRun, CanManage} :
              /\ l # acl[a][id][p]
              /\ acl' = [acl EXCEPT ![a][id][p] = l]
              /\ granted' = [granted EXCEPT ![a][id] = @ \ {p}]
      BY <1>24, Zenon DEF EditGrant
    <3>1. PICK id \in live[a], p \in People, l \in {0, CanRead, CanRun, CanManage} :
            /\ acl' = [acl EXCEPT ![a][id][p] = l]
            /\ granted' = [granted EXCEPT ![a][id] = @ \ {p}]
      BY <3>0
    <3>2. id \in Ids /\ acl[a][id] \in Acl
      BY <3>1 DEF TypeOK, EstateType
    <3>3. [acl[a][id] EXCEPT ![p] = l] \in Acl
      <4>1. l \in Levels
        BY <3>1 DEF CanRead, CanRun, CanManage, Levels
      <4> QED BY <3>2, <4>1 DEF Acl
    <3>4. acl' \in [Artifacts -> [Ids -> Acl]]
      <4>1. acl' = [acl EXCEPT ![a][id] = [acl[a][id] EXCEPT ![p] = l]]
        BY <3>1
      <4> QED BY <3>2, <3>3, <4>1, AclUpdate
    <3>5. granted' \in [Artifacts -> [Ids -> SUBSET People]]
      BY <3>1, <3>2 DEF TypeOK, EstateType
    <3> QED BY <1>24, <3>4, <3>5 DEF TypeOK, EstateType, EditGrant, Edit
  <2> QED BY <1>24, <2>1, EditType DEF EditGrant, TypeOK
<1>25. CASE EditDelete
  <2>1. EstateType'
    BY <1>25 DEF TypeOK, EstateType, EditDelete, Edit
  <2> QED BY <1>25, <2>1, EditType DEF EditDelete, TypeOK
<1>26. CASE EditDuplicate
  <2>1. EstateType'
    <3>1. PICK a \in Artifacts :
            /\ minted[a] < MaxId
            /\ minted' = [minted EXCEPT ![a] = @ + 1]
            /\ live' = [live EXCEPT ![a] = @ \cup {minted[a] + 1}]
      BY <1>26 DEF EditDuplicate
    <3>2. minted[a] + 1 \in Ids
      BY <3>1, Minting
    <3>3. minted' \in [Artifacts -> Ids \cup {0}] /\ live' \in [Artifacts -> SUBSET Ids]
      BY <3>1, <3>2 DEF TypeOK, EstateType
    <3> QED BY <1>26, <3>3 DEF TypeOK, EstateType, EditDuplicate, Edit
  <2> QED BY <1>26, <2>1, EditType DEF EditDuplicate, TypeOK
<1>27. CASE EditTag
  <2>1. EstateType'
    BY <1>27 DEF TypeOK, EstateType, EditTag, Edit
  <2> QED BY <1>27, <2>1, EditType DEF EditTag, TypeOK
<1>28. ASSUME NEW a \in Artifacts, DeployCreate(a) PROVE TypeOK'
  <2>1. minted[a] + 1 \in Ids \cup {0}
    BY <1>28, Minting DEF DeployCreate
  <2> QED BY <1>28, <2>1, DeployType DEF DeployCreate
<1>29. ASSUME NEW a \in Artifacts, DeployUpdate(a) PROVE TypeOK'
  <2>1. managed[a] \in Ids \cup {0}
    BY <1>29, Bounds DEF TypeOK, EstateType, DeployUpdate, Ids
  <2> QED BY <1>29, <2>1, DeployType DEF DeployUpdate
<1>30. ASSUME NEW a \in Artifacts, DeployRecreate(a) PROVE TypeOK'
  <2>1. minted[a] < MaxId
    BY <1>30, Bounds DEF TypeOK, EstateType, CountType, DeployRecreate, Ids
  <2>2. minted[a] + 1 \in Ids \cup {0}
    BY <2>1, Minting
  <2> QED BY <1>30, <2>2, DeployType DEF DeployRecreate
<1>31. ASSUME NEW a \in Artifacts, DeployDelete(a) PROVE TypeOK'
  <2>1. 0 \in Ids \cup {0}
    BY <1>31, Bounds DEF TypeOK, EstateType, DeployDelete, Ids
  <2> QED BY <1>31, <2>1, DeployType DEF DeployDelete
<1>32. CASE UNCHANGED vars
  <2>1. ReleaseType'
    BY <1>32 DEF TypeOK, ReleaseType, vars, attempt
  <2>2. WorkType'
    BY <1>32 DEF TypeOK, WorkType, vars, working
  <2>3. EvidenceType'
    BY <1>32 DEF TypeOK, EvidenceType, vars, evidence
  <2>4. EstateType'
    BY <1>32 DEF TypeOK, EstateType, vars, estate, history
  <2>5. CountType'
    BY <1>32 DEF TypeOK, CountType, vars, counters, history
  <2> QED BY <2>1, <2>2, <2>3, <2>4, <2>5 DEF TypeOK
<1> QED
  BY <1>1, <1>2, <1>3, <1>4, <1>5, <1>6, <1>7, <1>8, <1>9, <1>10, <1>11, <1>12, <1>13, <1>14, <1>15, <1>16, <1>17, <1>18, <1>19, <1>20, <1>21, <1>22, <1>23, <1>24, <1>25, <1>26, <1>27, <1>28, <1>29, <1>30, <1>31, <1>32
  DEF Next, AttemptStep, StageStep, Listing, Edits

\* TypeOK: every variable of the deployment keeps its type, whatever fails and whoever edits.
THEOREM TypeCorrect == Spec => []TypeOK
BY InitType, StepType, PTL DEF Spec

-----------------------------------------------------------------------------
(* The evidence.                                                           *)

\* mutation_started separates the stages that may have written from those that cannot, and
\* the annotation agrees with it except while the bundle is being deployed.
EvidenceInv ==
  /\ dirty => mutationStarted
  /\ currentStage = "preflight" => ~mutationStarted
  /\ currentStage \notin {"preflight", "bundle_deploy"} => mutationStarted
  /\ shown.terminal = terminalState
  /\ currentStage \notin {"preflight", "bundle_deploy"} \/ terminalState # "running"
       => (shown.mutation <=> mutationStarted)
  /\ terminalState = "operational_failed" => currentStage = "preflight"

\* A step that leaves the evidence alone keeps the invariant if it writes to production only
\* once the mutation has started.
LEMMA EvidenceFrame ==
  ASSUME EvidenceInv, UNCHANGED <<evidence, shown>>, dirty' => mutationStarted
  PROVE  EvidenceInv'
BY Zenon DEF EvidenceInv, evidence

\* So does the step that ends a stage, but the first two.
LEMMA EvidenceAdvance ==
  ASSUME EvidenceInv, NEW stage, NEW next, NEW work, Advance(stage, next, work), UNCHANGED history,
         terminalState = "running", next # "preflight",
         next # "bundle_deploy" => mutationStarted
  PROVE  EvidenceInv'
<1>1. /\ currentStage' = next /\ UNCHANGED <<mutationStarted, terminalState, dirty>>
      /\ shown'.terminal = terminalState' /\ shown'.mutation = mutationStarted'
  BY DEF Advance, Emit, history
<1> QED BY <1>1 DEF EvidenceInv

\* And the step that ends the Attempt with a failure.
LEMMA EvidenceFails ==
  ASSUME EvidenceInv, NEW terminal, Fails(terminal),
         terminal = "operational_failed" => currentStage = "preflight"
  PROVE  EvidenceInv'
<1>1. /\ terminalState' = terminal /\ UNCHANGED <<currentStage, mutationStarted, dirty>>
      /\ shown'.terminal = terminalState' /\ shown'.mutation = mutationStarted'
  BY DEF Fails, Emit, history
<1> QED BY <1>1 DEF EvidenceInv

LEMMA EvidenceInit == Init => EvidenceInv
<1> SUFFICES ASSUME Init PROVE EvidenceInv
  OBVIOUS
<1>1. /\ dirty = FALSE /\ currentStage = "preflight" /\ mutationStarted = FALSE /\ terminalState = None
      /\ shown.terminal = None /\ shown.mutation = FALSE
  BY DEF Init
<1>2. None # "operational_failed"
  BY DEF None
<1> QED BY <1>1, <1>2, Zenon DEF EvidenceInv

LEMMA EvidenceStep == EvidenceInv /\ [Next]_vars => EvidenceInv'
<1> SUFFICES ASSUME EvidenceInv, [Next]_vars PROVE EvidenceInv'
  OBVIOUS
<1>0. currentStage \notin {"preflight", "bundle_deploy"} => mutationStarted
  BY DEF EvidenceInv
<1>1. CASE Preflight
  BY <1>1, EvidenceAdvance DEF Preflight, Running
<1>2. CASE BundleDeployed
  BY <1>2, EvidenceAdvance DEF BundleDeployed, Running
<1>3. CASE Resolved \/ AppManageAsserted \/ AudienceReconciled \/ LiveStateVerified \/ Certified
  <2>1. currentStage \notin {"preflight", "bundle_deploy"}
    BY <1>3 DEF Resolved, AppManageAsserted, AudienceReconciled, LiveStateVerified, Certified, Advance
  <2> QED BY <1>0, <1>3, <2>1, EvidenceAdvance
        DEF Resolved, AppManageAsserted, AudienceReconciled, LiveStateVerified, Certified, Running
<1>4. CASE BeginMutation
  <2>1. /\ currentStage = "bundle_deploy" /\ terminalState = "running" /\ mutationStarted' = TRUE
        /\ UNCHANGED <<currentStage, terminalState, shown>>
    BY <1>4 DEF BeginMutation, Running
  <2> QED BY <2>1 DEF EvidenceInv
<1>5. CASE Complete
  <2>1. /\ currentStage = "complete" /\ terminalState' = "succeeded"
        /\ UNCHANGED <<currentStage, mutationStarted, dirty>>
        /\ shown'.terminal = terminalState' /\ shown'.mutation = mutationStarted'
    BY <1>5 DEF Complete, Emit, history
  <2> QED BY <2>1 DEF EvidenceInv
<1>6. CASE StartAttempt
  <2>1. /\ currentStage' = "preflight" /\ mutationStarted' = FALSE /\ terminalState' = "running"
        /\ dirty' = FALSE /\ shown'.terminal = terminalState' /\ shown'.mutation = mutationStarted'
    BY <1>6 DEF StartAttempt, Emit
  <2> QED BY <2>1 DEF EvidenceInv
<1>7. CASE PreflightFails
  BY <1>7, EvidenceFails DEF PreflightFails
<1>8. CASE StageFails
  BY <1>8, EvidenceFails DEF StageFails
<1>9. CASE Merge \/ RunnerLost \/ Listing \/ Edits
  BY <1>9, EvidenceFrame DEF EvidenceInv, Merge, RunnerLost, Listing, ListingCatchesUp, history,
     Edits, EditGrant, EditDelete, EditDuplicate, EditTag, Edit
<1>10. ASSUME NEW a \in Artifacts,
              DeployCreate(a) \/ DeployUpdate(a) \/ DeployRecreate(a) \/ DeployDelete(a)
       PROVE  EvidenceInv'
  BY <1>10, EvidenceFrame DEF DeployCreate, DeployUpdate, DeployRecreate, DeployDelete, Deploy
<1>11. ASSUME NEW a \in Artifacts, Resolve(a) \/ ReadAcl(a) \/ ReadBackAcl(a) \/ Verify(a) \/ ReadBackTag(a)
       PROVE  EvidenceInv'
  BY <1>11, EvidenceFrame DEF EvidenceInv, Resolve, ReadAcl, ReadBackAcl, Verify, ReadBackTag, history
<1>12. ASSUME NEW a \in Artifacts, AssertAppManage(a) \/ ReplaceAcl(a) \/ WriteTag(a)
       PROVE  EvidenceInv'
  BY <1>0, <1>12, EvidenceFrame DEF AssertAppManage, ReplaceAcl, WriteTag
<1>13. CASE UNCHANGED vars
  BY <1>13, EvidenceFrame DEF EvidenceInv, vars, history
<1> QED
  BY <1>1, <1>2, <1>3, <1>4, <1>5, <1>6, <1>7, <1>8, <1>9, <1>10, <1>11, <1>12, <1>13
  DEF Next, AttemptStep, StageStep

\* EvidenceHonest: an operator is never told that production is untouched when it is not, and
\* the annotations hide a change only while the bundle is being deployed.
THEOREM EvidenceIsHonest == Spec => []EvidenceHonest
<1>1. EvidenceInv => EvidenceHonest
  BY DEF EvidenceInv, EvidenceHonest
<1> QED BY <1>1, EvidenceInit, EvidenceStep, PTL DEF Spec

-----------------------------------------------------------------------------
(* The stages.                                                             *)

AfterCertify  == {"complete"}
AfterAudience == {"verify_live_state", "certify_space"} \cup AfterCertify
AfterAssert   == {"reconcile_audience"} \cup AfterAudience
AfterResolve  == {"assert_app_manage"} \cup AfterAssert
AfterBundle   == {"resolve_space"} \cup AfterResolve

InPlace(a)    == IF a \in Desired THEN managed[a] \in live[a] ELSE managed[a] = 0
AppManages(a) == AtLeast(acl[a][target[a]][App], CanManage)
AllReach(a)   == Missing(acl[a][target[a]], Audience(rel, a), LevelOf[a]) = {}

\* The stage has handled the artifact: it is over, or under way and done with it.
Handled(a, stage, after) == currentStage \in after \/ (currentStage = stage /\ a \notin todo)

\* What the stages so far have established for one artifact.
ArtifactInv(a) ==
  /\ Handled(a, "bundle_deploy", AfterBundle) => InPlace(a)
  /\ a \in Desired =>
       /\ Handled(a, "resolve_space", AfterResolve)       => OnTarget(a)
       /\ Handled(a, "assert_app_manage", AfterAssert)    => AppManages(a)
       /\ Handled(a, "reconcile_audience", AfterAudience) => AllReach(a)
       /\ Handled(a, "certify_space", AfterCertify)       => target[a] \in certified[a]

\* Completed stages are behind the current one.
CompletedInv ==
  \A i \in DOMAIN completedStages :
    /\ completedStages[i] = "bundle_deploy"      => currentStage \in AfterBundle
    /\ completedStages[i] = "resolve_space"      => currentStage \in AfterResolve
    /\ completedStages[i] = "assert_app_manage"  => currentStage \in AfterAssert
    /\ completedStages[i] = "reconcile_audience" => currentStage \in AfterAudience
    /\ completedStages[i] = "certify_space"      => currentStage \in AfterCertify

\* Between the read and the write of an ACL the artifact is still to be handled, and what was
\* read is still what is there if nobody else writes.
BusyInv ==
  currentStage = "reconcile_audience" /\ busy # None =>
    /\ busy \in todo
    /\ call = "set" /\ quiet => seen = acl[busy][target[busy]]

StageInv ==
  /\ CompletedInv
  /\ shown.completed = completedStages
  /\ terminalState = "succeeded" => currentStage = "complete"
  /\ BusyInv
  /\ quiet => \A a \in Artifacts : ArtifactInv(a)

-----------------------------------------------------------------------------
(* Steps that leave the stages, or all but one artifact, alone.            *)

\* The release an Attempt deploys does not change under it: merges append.
LEMMA ReleaseFrame ==
  ASSUME TypeOK, UNCHANGED rel, UNCHANGED content \/ Merge
  PROVE  /\ Desired' = Desired
         /\ \A a \in Artifacts : Audience(rel, a)' = Audience(rel, a)
<1>1. CASE UNCHANGED content
  BY <1>1 DEF Desired, Declares, Audience
<1>2. CASE Merge
  <2>1. PICK release \in Releases : content' = Append(content, release)
    BY <1>2 DEF Merge
  <2>2. rel # 0 => content'[rel] = content[rel]
    BY <2>1 DEF TypeOK, ReleaseType
  <2> QED BY <2>2 DEF Desired, Declares, Audience
<1> QED BY <1>1, <1>2

\* An artifact none of whose state changes.
LEMMA ArtifactFrame ==
  ASSUME NEW a \in Artifacts, ArtifactInv(a),
         UNCHANGED <<currentStage, Desired, Audience(rel, a)>>,
         a \notin todo' => a \notin todo,
         UNCHANGED <<live[a], managed[a], target[a], acl[a][target[a]], certified[a]>>
  PROVE  ArtifactInv(a)'
<1>1. \A stage, after : Handled(a, stage, after)' => Handled(a, stage, after)
  BY DEF Handled
<1> QED BY <1>1 DEF ArtifactInv, InPlace, OnTarget, AppManages, AllReach, Missing, Handled

\* A step within a stage.
LEMMA WithinStage ==
  ASSUME StageInv, UNCHANGED <<currentStage, completedStages, terminalState, shown>>,
         BusyInv', quiet' => \A a \in Artifacts : ArtifactInv(a)'
  PROVE  StageInv'
BY DEF StageInv, CompletedInv

\* A step that changes nothing the stages are about, but for the outcome.
LEMMA StageFrame ==
  ASSUME TypeOK, StageInv, UNCHANGED rel, UNCHANGED content \/ Merge,
         UNCHANGED <<working, currentStage, completedStages, live, managed, acl, certified, quiet>>,
         shown'.completed = completedStages',
         terminalState' = "succeeded" => currentStage = "complete"
  PROVE  StageInv'
<1>1. BusyInv'
  BY DEF StageInv, BusyInv, working
<1>2. ASSUME quiet', NEW a \in Artifacts PROVE ArtifactInv(a)'
  <2>1. ArtifactInv(a)
    BY <1>2 DEF StageInv
  <2> QED BY <2>1, ReleaseFrame, ArtifactFrame DEF working
<1> QED BY <1>1, <1>2 DEF StageInv, CompletedInv

\* A manual edit ends the quiet.
LEMMA StageEdit ==
  ASSUME StageInv, Edit
  PROVE  StageInv'
<1>1. BusyInv'
  BY DEF StageInv, BusyInv, Edit, working, evidence
<1> QED BY <1>1, WithinStage DEF Edit, evidence

-----------------------------------------------------------------------------
(* The end of a stage.                                                     *)

Successions ==
  {<<"preflight", "bundle_deploy">>, <<"bundle_deploy", "resolve_space">>,
   <<"resolve_space", "assert_app_manage">>, <<"assert_app_manage", "reconcile_audience">>,
   <<"reconcile_audience", "verify_live_state">>, <<"verify_live_state", "certify_space">>,
   <<"certify_space", "complete">>}

\* A stage that is over has handled every artifact, the next one none that it has to.
LEMMA HandledAdvance ==
  ASSUME NEW stage, NEW next, NEW work, <<stage, next>> \in Successions,
         Advance(stage, next, work), NEW a \in Artifacts, a \in work \/ next = "complete"
  PROVE  /\ Handled(a, "bundle_deploy", AfterBundle)' => Handled(a, "bundle_deploy", AfterBundle)
         /\ Handled(a, "resolve_space", AfterResolve)' => Handled(a, "resolve_space", AfterResolve)
         /\ Handled(a, "assert_app_manage", AfterAssert)' => Handled(a, "assert_app_manage", AfterAssert)
         /\ Handled(a, "reconcile_audience", AfterAudience)' => Handled(a, "reconcile_audience", AfterAudience)
         /\ Handled(a, "certify_space", AfterCertify)' => Handled(a, "certify_space", AfterCertify)
BY DEF Successions, Advance, Handled, AfterBundle, AfterResolve, AfterAssert, AfterAudience, AfterCertify

LEMMA StageAdvance ==
  ASSUME TypeOK, StageInv, NEW stage, NEW next, NEW work, <<stage, next>> \in Successions,
         Advance(stage, next, work), terminalState = "running",
         UNCHANGED <<content, attempt, target, estate, counters, history>>,
         Desired \subseteq work \/ next = "complete",
         next = "bundle_deploy" => \A a \in Artifacts \ work : InPlace(a)
  PROVE  StageInv'
<1>1. CompletedInv'
  <2>1. \A i \in DOMAIN completedStages' :
          \/ i \in DOMAIN completedStages /\ completedStages'[i] = completedStages[i]
          \/ completedStages'[i] = stage
    BY DEF Advance, TypeOK, EvidenceType
  <2>2. currentStage = stage /\ currentStage' = next
    BY DEF Advance
  <2>3. \A i \in DOMAIN completedStages :
          /\ completedStages[i] = "bundle_deploy"      => currentStage \in AfterBundle
          /\ completedStages[i] = "resolve_space"      => currentStage \in AfterResolve
          /\ completedStages[i] = "assert_app_manage"  => currentStage \in AfterAssert
          /\ completedStages[i] = "reconcile_audience" => currentStage \in AfterAudience
          /\ completedStages[i] = "certify_space"      => currentStage \in AfterCertify
    BY DEF StageInv, CompletedInv
  <2>4. /\ stage = "bundle_deploy" \/ stage \in AfterBundle        => next \in AfterBundle
        /\ stage = "resolve_space" \/ stage \in AfterResolve       => next \in AfterResolve
        /\ stage = "assert_app_manage" \/ stage \in AfterAssert    => next \in AfterAssert
        /\ stage = "reconcile_audience" \/ stage \in AfterAudience => next \in AfterAudience
        /\ stage = "certify_space" \/ stage \in AfterCertify       => next \in AfterCertify
    BY DEF Successions, AfterBundle, AfterResolve, AfterAssert, AfterAudience, AfterCertify
  <2> QED BY <2>1, <2>2, <2>3, <2>4 DEF CompletedInv
<1>2. shown'.completed = completedStages' /\ terminalState' # "succeeded"
  BY DEF Advance, Emit
<1>3. BusyInv'
  BY DEF BusyInv, Advance
<1>4. ASSUME quiet', NEW a \in Artifacts PROVE ArtifactInv(a)'
  <2>1. ArtifactInv(a)
    BY <1>4 DEF StageInv, history
  <2>2. Desired' = Desired /\ Audience(rel, a)' = Audience(rel, a)
    BY ReleaseFrame DEF attempt
  <2>3. /\ InPlace(a)' <=> InPlace(a)
        /\ OnTarget(a)' <=> OnTarget(a)
        /\ AppManages(a)' <=> AppManages(a)
        /\ AllReach(a)' <=> AllReach(a)
        /\ (target[a] \in certified[a])' <=> target[a] \in certified[a]
    BY <2>2 DEF InPlace, OnTarget, AppManages, AllReach, Missing, estate
  <2>4. CASE a \in work \/ next = "complete"
    BY <2>1, <2>2, <2>3, <2>4, HandledAdvance DEF ArtifactInv
  <2>5. CASE a \notin work /\ next # "complete"
    <3>1. a \notin Desired'
      BY <2>2, <2>5
    <3>2. next = "bundle_deploy" => InPlace(a)
      BY <2>5
    <3>3. next # "bundle_deploy" => Handled(a, "bundle_deploy", AfterBundle)
      BY <2>5 DEF Successions, Advance, Handled, AfterBundle, AfterResolve, AfterAssert, AfterAudience, AfterCertify
    <3> QED BY <2>1, <2>3, <3>1, <3>2, <3>3 DEF ArtifactInv
  <2> QED BY <2>4, <2>5
<1> QED BY <1>1, <1>2, <1>3, <1>4 DEF StageInv

-----------------------------------------------------------------------------
(* The steps of one artifact, and all the others.                          *)

\* The CLI deploys one artifact: the others are as they were.
LEMMA StageDeploy ==
  ASSUME TypeOK, StageInv, NEW b \in Artifacts, NEW id, NEW removed, Deploy(b, id, removed),
         InPlace(b)'
  PROVE  StageInv'
<1>1. BusyInv'
  BY DEF BusyInv, Deploy, evidence
<1>2. ASSUME quiet', NEW a \in Artifacts PROVE ArtifactInv(a)'
  <2>1. ArtifactInv(a) /\ currentStage = "bundle_deploy" /\ currentStage' = currentStage
    BY <1>2 DEF StageInv, Deploy, evidence
  <2>2. ~ \/ Handled(a, "resolve_space", AfterResolve)'
          \/ Handled(a, "assert_app_manage", AfterAssert)'
          \/ Handled(a, "reconcile_audience", AfterAudience)'
          \/ Handled(a, "certify_space", AfterCertify)'
    BY <2>1 DEF Handled, AfterResolve, AfterAssert, AfterAudience, AfterCertify
  <2>3. Handled(a, "bundle_deploy", AfterBundle)' => InPlace(a)'
    <3>1. CASE a = b
      BY <3>1
    <3>2. CASE a # b
      <4>1. Handled(a, "bundle_deploy", AfterBundle)' => Handled(a, "bundle_deploy", AfterBundle)
        BY <2>1, <3>2 DEF Handled, Deploy
      <4>2. Desired' = Desired
        BY ReleaseFrame DEF Deploy, attempt
      <4>3. managed'[a] = managed[a] /\ live'[a] = live[a]
        BY <3>2 DEF Deploy, TypeOK, EstateType
      <4> QED BY <2>1, <4>1, <4>2, <4>3 DEF ArtifactInv, InPlace
    <3> QED BY <3>1, <3>2
  <2> QED BY <2>2, <2>3 DEF ArtifactInv
<1> QED BY <1>1, <1>2, WithinStage DEF Deploy, evidence

LEMMA StageInit == Init => StageInv
<1> SUFFICES ASSUME Init PROVE StageInv
  OBVIOUS
<1>1. currentStage = "preflight" /\ completedStages = <<>> /\ shown.completed = completedStages
  BY DEF Init
<1>2. CompletedInv
  BY <1>1 DEF CompletedInv
<1>3. terminalState # "succeeded"
  BY DEF Init, None
<1>4. BusyInv
  BY <1>1 DEF BusyInv
<1>5. \A a \in Artifacts : ArtifactInv(a)
  BY <1>1 DEF ArtifactInv, Handled, AfterBundle, AfterResolve, AfterAssert, AfterAudience, AfterCertify
<1> QED BY <1>1, <1>2, <1>3, <1>4, <1>5 DEF StageInv

LEMMA StageStartAttempt ==
  ASSUME StageInv, StartAttempt
  PROVE  StageInv'
<1>1. currentStage' = "preflight" /\ completedStages' = <<>> /\ shown'.completed = completedStages'
  BY DEF StartAttempt, Emit
<1>2. CompletedInv'
  BY <1>1 DEF CompletedInv
<1>3. terminalState' # "succeeded"
  BY DEF StartAttempt
<1>4. BusyInv'
  BY <1>1 DEF BusyInv
<1>5. \A a \in Artifacts : ArtifactInv(a)'
  BY <1>1 DEF ArtifactInv, Handled, AfterBundle, AfterResolve, AfterAssert, AfterAudience, AfterCertify
<1> QED BY <1>1, <1>2, <1>3, <1>4, <1>5 DEF StageInv

LEMMA StageComplete ==
  ASSUME TypeOK, StageInv, Complete
  PROVE  StageInv'
<1>1. currentStage = "complete" /\ currentStage' = currentStage
      /\ completedStages' = Append(completedStages, "complete")
      /\ shown'.completed = completedStages'
  BY DEF Complete, Emit
<1>2. CompletedInv'
  BY <1>1 DEF CompletedInv, AfterBundle, AfterResolve, AfterAssert, AfterAudience, AfterCertify
<1>3. BusyInv'
  BY <1>1 DEF BusyInv
<1>4. ASSUME quiet', NEW a \in Artifacts PROVE ArtifactInv(a)'
  <2>1. ArtifactInv(a)
    BY <1>4 DEF StageInv, Complete, history
  <2> QED BY <2>1, ReleaseFrame, ArtifactFrame DEF Complete, attempt, working, estate
<1> QED BY <1>1, <1>2, <1>3, <1>4 DEF StageInv

-----------------------------------------------------------------------------
(* The calls of one artifact in a stage after the deployment.              *)

\* The pieces a step of artifact b leaves to be shown: what BusyInv says, and what holds of b.
LEMMA OneArtifact ==
  ASSUME TypeOK, StageInv, NEW b \in Artifacts, BusyInv', quiet => ArtifactInv(b)',
         UNCHANGED <<content, rel, currentStage, completedStages, terminalState, shown, quiet,
                     live, managed>>,
         todo' = todo \/ todo' = todo \ {b},
         \A a \in Artifacts \ {b} : UNCHANGED <<target[a], acl[a], certified[a]>>
  PROVE  StageInv'
<1>1. ASSUME quiet', NEW a \in Artifacts, a # b PROVE ArtifactInv(a)'
  <2>1. ArtifactInv(a)
    BY <1>1 DEF StageInv
  <2>2. UNCHANGED <<Desired, Audience(rel, a)>>
    BY ReleaseFrame
  <2>3. UNCHANGED <<live[a], managed[a], target[a], acl[a][target[a]], certified[a]>>
    BY <1>1
  <2> QED BY <1>1, <2>1, <2>2, <2>3, ArtifactFrame
<1> QED BY <1>1, WithinStage

LEMMA StageResolve ==
  ASSUME TypeOK, StageInv, NEW b \in Artifacts, Resolve(b)
  PROVE  StageInv'
<1>1. currentStage = "resolve_space" /\ currentStage' = currentStage
  BY DEF Resolve, evidence
<1>2. BusyInv'
  BY <1>1 DEF BusyInv
<1>3. ASSUME quiet PROVE ArtifactInv(b)'
  <2>1. InPlace(b)'
    <3>1. InPlace(b)
      BY <1>1, <1>3 DEF StageInv, ArtifactInv, Handled, AfterBundle
    <3> QED BY <3>1, ReleaseFrame DEF InPlace, Resolve, attempt, estate
  <2>2. OnTarget(b)'
    BY DEF OnTarget, Resolve, estate, TypeOK, WorkType
  <2> QED BY <1>1, <2>1, <2>2
        DEF ArtifactInv, Handled, AfterAssert, AfterAudience, AfterCertify
<1>4. \A a \in Artifacts \ {b} : UNCHANGED <<target[a], acl[a], certified[a]>>
  BY DEF Resolve, estate, TypeOK, WorkType
<1> QED BY <1>2, <1>3, <1>4, OneArtifact DEF Resolve, attempt, evidence, estate, history

\* After resolve_space the deployed artifact and its target stand, whatever is written to the ACL.
LEMMA StillThere ==
  ASSUME TypeOK, StageInv, quiet, NEW b \in Artifacts, currentStage \in AfterResolve,
         UNCHANGED <<content, rel, currentStage, target, live, managed>>
  PROVE  InPlace(b)' /\ (b \in Desired' => OnTarget(b)')
<1>1. InPlace(b) /\ (b \in Desired => OnTarget(b))
  BY DEF StageInv, ArtifactInv, Handled, AfterBundle
<1> QED BY <1>1, ReleaseFrame DEF InPlace, OnTarget

LEMMA StageAssertAppManage ==
  ASSUME TypeOK, StageInv, NEW b \in Artifacts, AssertAppManage(b)
  PROVE  StageInv'
<1>1. currentStage = "assert_app_manage" /\ currentStage' = currentStage
  BY DEF AssertAppManage, evidence
<1>2. BusyInv'
  BY <1>1 DEF BusyInv
<1>3. ASSUME quiet PROVE ArtifactInv(b)'
  <2>1. InPlace(b)' /\ (b \in Desired' => OnTarget(b)')
    BY <1>1, <1>3, StillThere DEF AfterResolve, AssertAppManage, attempt, evidence
  <2>2. AppManages(b)'
    <3>1. target[b] \in Ids /\ target' = target
      BY DEF AssertAppManage, OnTarget, TypeOK, EstateType
    <3>2. acl'[b][target[b]][App] = IF AtLeast(acl[b][target[b]][App], CanManage)
                                      THEN acl[b][target[b]][App] ELSE CanManage
      BY <3>1 DEF AssertAppManage, TypeOK, EstateType, Acl, Principals
    <3> QED BY <3>1, <3>2 DEF AppManages, AtLeast, CanManage
  <2> QED BY <1>1, <2>1, <2>2 DEF ArtifactInv, Handled, AfterAudience, AfterCertify
<1>4. \A a \in Artifacts \ {b} : UNCHANGED <<target[a], acl[a], certified[a]>>
  BY DEF AssertAppManage, TypeOK, EstateType
<1> QED BY <1>2, <1>3, <1>4, OneArtifact DEF AssertAppManage, attempt, evidence

LEMMA StageReadAcl ==
  ASSUME TypeOK, StageInv, NEW b \in Artifacts, ReadAcl(b)
  PROVE  StageInv'
<1>1. BusyInv'
  BY DEF BusyInv, ReadAcl, estate
<1>2. ASSUME quiet PROVE ArtifactInv(b)'
  BY <1>2, ReleaseFrame, ArtifactFrame DEF StageInv, ReadAcl, attempt, evidence, estate
<1> QED BY <1>1, <1>2, OneArtifact DEF ReadAcl, attempt, evidence, estate, history

\* The replacement ACL keeps the app's CAN_MANAGE: the app is never a declared principal.
LEMMA StageReplaceAcl ==
  ASSUME TypeOK, StageInv, NEW b \in Artifacts, ReplaceAcl(b)
  PROVE  StageInv'
<1> DEFINE new == DesiredAcl(seen, Audience(rel, b), Previous(b), LevelOf[b])
<1>1. currentStage = "reconcile_audience" /\ currentStage' = currentStage
  BY DEF ReplaceAcl, evidence
<1>2. busy = b /\ busy' = b /\ b \in todo /\ todo' = todo
  BY <1>1, NoneIsNotAnArtifact DEF ReplaceAcl, StageInv, BusyInv
<1>3. BusyInv'
  BY <1>2 DEF BusyInv, ReplaceAcl
<1>4. ASSUME quiet PROVE ArtifactInv(b)'
  <2>1. InPlace(b)' /\ (b \in Desired' => OnTarget(b)')
    BY <1>1, <1>4, StillThere DEF AfterResolve, AfterAssert, ReplaceAcl, attempt, evidence
  <2>2. b \in Desired' => AppManages(b)'
    <3>1. b \in Desired => AtLeast(seen[App], CanManage)
      <4>1. seen = acl[b][target[b]]
        BY <1>1, <1>2, <1>4, NoneIsNotAnArtifact DEF StageInv, BusyInv, ReplaceAcl
      <4>2. b \in Desired => AppManages(b)
        BY <1>1, <1>4 DEF StageInv, ArtifactInv, Handled, AfterAssert
      <4> QED BY <4>1, <4>2 DEF AppManages
    <3>2. App \notin Audience(rel, b) /\ App \notin Previous(b)
      <4>1. \A r \in 1 .. Len(content) : content[r][b] \subseteq People
        BY ConstantsAreSane DEF TypeOK, ReleaseType
      <4> QED BY <4>1, AppIsNotDeclared DEF Audience, Previous, TypeOK, ReleaseType
    <3>3. new[App] = seen[App]
      BY <3>2 DEF DesiredAcl, Principals
    <3>4. acl'[b][target[b]] = new /\ target' = target
      BY DEF ReplaceAcl, TypeOK, EstateType, OnTarget
    <3>5. Desired' = Desired
      BY ReleaseFrame DEF ReplaceAcl, attempt
    <3> QED BY <3>1, <3>3, <3>4, <3>5 DEF AppManages
  <2> QED BY <1>1, <1>2, <2>1, <2>2 DEF ArtifactInv, Handled, AfterAudience, AfterCertify
<1>5. \A a \in Artifacts \ {b} : UNCHANGED <<target[a], acl[a], certified[a]>>
  BY DEF ReplaceAcl, TypeOK, EstateType
<1> QED BY <1>3, <1>4, <1>5, OneArtifact DEF ReplaceAcl, attempt, evidence

LEMMA StageReadBackAcl ==
  ASSUME TypeOK, StageInv, NEW b \in Artifacts, ReadBackAcl(b)
  PROVE  StageInv'
<1>1. currentStage = "reconcile_audience" /\ currentStage' = currentStage /\ busy' = None
  BY DEF ReadBackAcl, evidence
<1>2. BusyInv'
  BY <1>1 DEF BusyInv
<1>3. ASSUME quiet PROVE ArtifactInv(b)'
  <2>1. InPlace(b)' /\ (b \in Desired' => OnTarget(b)')
    BY <1>1, <1>3, StillThere DEF AfterResolve, AfterAssert, ReadBackAcl, attempt, evidence, estate
  <2>2. b \in Desired' => AppManages(b)'
    <3>1. b \in Desired => AppManages(b)
      BY <1>1, <1>3 DEF StageInv, ArtifactInv, Handled, AfterAssert
    <3> QED BY <3>1, ReleaseFrame DEF AppManages, ReadBackAcl, attempt, estate
  <2>3. AllReach(b)'
    BY ReleaseFrame DEF AllReach, Missing, ReadBackAcl, attempt, estate
  <2> QED BY <1>1, <2>1, <2>2, <2>3 DEF ArtifactInv, Handled, AfterCertify
<1> QED BY <1>2, <1>3, OneArtifact DEF ReadBackAcl, attempt, evidence, estate, history

LEMMA StageVerify ==
  ASSUME TypeOK, StageInv, NEW b \in Artifacts, Verify(b)
  PROVE  StageInv'
<1>1. currentStage = "verify_live_state" /\ currentStage' = currentStage
  BY DEF Verify, evidence
<1>2. BusyInv'
  BY <1>1 DEF BusyInv
<1>3. ASSUME quiet PROVE ArtifactInv(b)'
  <2>1. ArtifactInv(b)
    BY <1>3 DEF StageInv
  <2>2. \A stage, after : stage # "verify_live_state" =>
          (Handled(b, stage, after)' => Handled(b, stage, after))
    BY <1>1 DEF Handled
  <2>3. Desired' = Desired /\ Audience(rel, b)' = Audience(rel, b)
    BY ReleaseFrame DEF Verify, attempt
  <2> QED BY <2>1, <2>2, <2>3
        DEF ArtifactInv, InPlace, OnTarget, AppManages, AllReach, Missing, Verify, estate
<1> QED BY <1>2, <1>3, OneArtifact DEF Verify, attempt, evidence, estate, history

LEMMA StageWriteTag ==
  ASSUME TypeOK, StageInv, NEW b \in Artifacts, WriteTag(b)
  PROVE  StageInv'
<1>1. currentStage = "certify_space" /\ currentStage' = currentStage
  BY DEF WriteTag, evidence
<1>2. BusyInv'
  BY <1>1 DEF BusyInv
<1>3. ASSUME quiet PROVE ArtifactInv(b)'
  <2>1. ArtifactInv(b)
    BY <1>3 DEF StageInv
  <2>2. Desired' = Desired /\ Audience(rel, b)' = Audience(rel, b)
    BY ReleaseFrame DEF WriteTag, attempt
  <2>3. b \in todo'
    BY DEF WriteTag
  <2> QED BY <1>1, <2>1, <2>2, <2>3
        DEF ArtifactInv, InPlace, OnTarget, AppManages, AllReach, Missing, Handled, AfterCertify,
            WriteTag
<1>4. \A a \in Artifacts \ {b} : UNCHANGED <<target[a], acl[a], certified[a]>>
  BY DEF WriteTag, TypeOK, EstateType
<1> QED BY <1>2, <1>3, <1>4, OneArtifact DEF WriteTag, attempt, evidence

LEMMA StageReadBackTag ==
  ASSUME TypeOK, StageInv, NEW b \in Artifacts, ReadBackTag(b)
  PROVE  StageInv'
<1>1. currentStage = "certify_space" /\ currentStage' = currentStage
  BY DEF ReadBackTag, evidence
<1>2. BusyInv'
  BY <1>1 DEF BusyInv
<1>3. ASSUME quiet PROVE ArtifactInv(b)'
  <2>1. ArtifactInv(b)
    BY <1>3 DEF StageInv
  <2>2. Desired' = Desired /\ Audience(rel, b)' = Audience(rel, b)
    BY ReleaseFrame DEF ReadBackTag, attempt
  <2>3. target'[b] \in certified'[b]
    BY DEF ReadBackTag, estate
  <2> QED BY <1>1, <2>1, <2>2, <2>3
        DEF ArtifactInv, InPlace, OnTarget, AppManages, AllReach, Missing, Handled, AfterCertify,
            ReadBackTag, estate
<1> QED BY <1>2, <1>3, OneArtifact DEF ReadBackTag, attempt, evidence, estate, history

-----------------------------------------------------------------------------
(* Every step.                                                             *)

LEMMA StageInvStep == TypeOK /\ StageInv /\ [Next]_vars => StageInv'
<1> SUFFICES ASSUME TypeOK, StageInv, [Next]_vars PROVE StageInv'
  OBVIOUS
<1>1. CASE Preflight
  <2>1. \A a \in Artifacts \ (Desired \cup {b \in Artifacts : managed[b] # 0}) : InPlace(a)
    BY DEF InPlace
  <2> QED BY <1>1, <2>1, StageAdvance DEF Preflight, Running, Successions
<1>2. CASE BundleDeployed
  BY <1>2, StageAdvance DEF BundleDeployed, Running, Successions
<1>3. CASE Resolved
  BY <1>3, StageAdvance DEF Resolved, Running, Successions
<1>4. CASE AppManageAsserted
  BY <1>4, StageAdvance DEF AppManageAsserted, Running, Successions
<1>5. CASE AudienceReconciled
  BY <1>5, StageAdvance DEF AudienceReconciled, Running, Successions
<1>6. CASE LiveStateVerified
  BY <1>6, StageAdvance DEF LiveStateVerified, Running, Successions
<1>7. CASE Certified
  BY <1>7, StageAdvance DEF Certified, Running, Successions
<1>8. CASE Complete
  BY <1>8, StageComplete
<1>9. CASE StartAttempt
  BY <1>9, StageStartAttempt
<1>10. CASE PreflightFails \/ StageFails
  <2>1. PICK terminal \in {"operational_failed", "partial_failed"} : Fails(terminal)
    BY <1>10 DEF PreflightFails, StageFails
  <2> QED BY <2>1, StageFrame DEF Fails, Emit, attempt, estate, history
<1>11. CASE Merge
  BY <1>11, StageFrame DEF StageInv, Merge, attempt, evidence, estate, history
<1>12. CASE BeginMutation
  BY <1>12, StageFrame DEF StageInv, BeginMutation, attempt, estate, history
<1>13. CASE RunnerLost
  BY <1>13, StageFrame DEF StageInv, RunnerLost, evidence, estate, history
<1>14. CASE Listing
  BY <1>14, StageFrame DEF StageInv, Listing, ListingCatchesUp, attempt, evidence, history
<1>15. CASE Edits
  BY <1>15, StageEdit DEF Edits, EditGrant, EditDelete, EditDuplicate, EditTag
<1>16. ASSUME NEW a \in Artifacts, DeployCreate(a) PROVE StageInv'
  <2>1. InPlace(a)'
    <3>1. Desired' = Desired
      BY <1>16, ReleaseFrame DEF DeployCreate, Deploy, attempt
    <3>2. minted[a] + 1 # 0
      BY <1>16 DEF TypeOK, EstateType, Ids, DeployCreate
    <3> QED BY <1>16, <3>1, <3>2 DEF InPlace, DeployCreate, Deploy, TypeOK, EstateType
  <2> QED BY <1>16, <2>1, StageDeploy DEF DeployCreate
<1>17. ASSUME NEW a \in Artifacts, DeployUpdate(a) PROVE StageInv'
  <2>1. InPlace(a)'
    <3>1. Desired' = Desired
      BY <1>17, ReleaseFrame DEF DeployUpdate, Deploy, attempt
    <3> QED BY <1>17, <3>1 DEF InPlace, DeployUpdate, Deploy, TypeOK, EstateType
  <2> QED BY <1>17, <2>1, StageDeploy DEF DeployUpdate
<1>18. ASSUME NEW a \in Artifacts, DeployRecreate(a) PROVE StageInv'
  <2>1. InPlace(a)'
    <3>1. Desired' = Desired
      BY <1>18, ReleaseFrame DEF DeployRecreate, Deploy, attempt
    <3>2. minted[a] + 1 # 0
      BY <1>18 DEF TypeOK, EstateType, Ids, DeployRecreate
    <3> QED BY <1>18, <3>1, <3>2 DEF InPlace, DeployRecreate, Deploy, TypeOK, EstateType
  <2> QED BY <1>18, <2>1, StageDeploy DEF DeployRecreate
<1>19. ASSUME NEW a \in Artifacts, DeployDelete(a) PROVE StageInv'
  <2>1. InPlace(a)'
    <3>1. Desired' = Desired
      BY <1>19, ReleaseFrame DEF DeployDelete, Deploy, attempt
    <3> QED BY <1>19, <3>1 DEF InPlace, DeployDelete, Deploy, TypeOK, EstateType
  <2> QED BY <1>19, <2>1, StageDeploy DEF DeployDelete
<1>20. ASSUME NEW a \in Artifacts,
              \/ Resolve(a) \/ AssertAppManage(a) \/ ReadAcl(a) \/ ReplaceAcl(a) \/ ReadBackAcl(a)
              \/ Verify(a) \/ WriteTag(a) \/ ReadBackTag(a)
       PROVE  StageInv'
  BY <1>20, StageResolve, StageAssertAppManage, StageReadAcl, StageReplaceAcl, StageReadBackAcl,
     StageVerify, StageWriteTag, StageReadBackTag
<1>21. CASE UNCHANGED vars
  BY <1>21, StageFrame DEF StageInv, vars, attempt, evidence, estate, history
<1> QED
  BY <1>1, <1>2, <1>3, <1>4, <1>5, <1>6, <1>7, <1>8, <1>9, <1>10, <1>11, <1>12, <1>13, <1>14,
     <1>15, <1>16, <1>17, <1>18, <1>19, <1>20, <1>21
  DEF Next, AttemptStep, StageStep

\* PublishedStagesHold: what a completed stage established stays true of production while only
\* the Attempt writes, so the published list of completed stages can be believed.
THEOREM PublishedStagesAreTrue == Spec => []PublishedStagesHold
<1>1. StageInv => PublishedStagesHold
  <2> SUFFICES ASSUME StageInv, quiet, NEW i \in DOMAIN completedStages, NEW a \in Artifacts
               PROVE  CASE completedStages[i] = "bundle_deploy"      -> InPlace(a)
                        [] completedStages[i] = "resolve_space"      -> a \in Desired => OnTarget(a)
                        [] completedStages[i] = "assert_app_manage"  -> a \in Desired => AppManages(a)
                        [] completedStages[i] = "reconcile_audience" -> a \in Desired => AllReach(a)
                        [] completedStages[i] = "certify_space"      -> a \in Desired => target[a] \in certified[a]
                        [] OTHER                                     -> TRUE
    BY DEF PublishedStagesHold, Effect, InPlace, AppManages, AllReach, StageInv
  <2>1. ArtifactInv(a)
    BY DEF StageInv
  <2>2. CompletedInv
    BY DEF StageInv
  <2> QED BY <2>1, <2>2 DEF ArtifactInv, CompletedInv, Handled
<1> QED BY <1>1, InitType, StepType, StageInit, StageInvStep, PTL DEF Spec

\* SucceededIsLive: a deployment that reports success has every declared artifact in place,
\* resolved, managed by the app, reachable by its audience and certified, and no other.
THEOREM SuccessIsLive == Spec => []SucceededIsLive
<1>1. StageInv => SucceededIsLive
  <2> SUFFICES ASSUME StageInv, quiet, terminalState = "succeeded",
                      NEW a \in Artifacts, NEW stage \in Stages
               PROVE  CASE stage = "bundle_deploy"      -> InPlace(a)
                        [] stage = "resolve_space"      -> a \in Desired => OnTarget(a)
                        [] stage = "assert_app_manage"  -> a \in Desired => AppManages(a)
                        [] stage = "reconcile_audience" -> a \in Desired => AllReach(a)
                        [] stage = "certify_space"      -> a \in Desired => target[a] \in certified[a]
                        [] OTHER                        -> TRUE
    BY DEF SucceededIsLive, Effect, InPlace, AppManages, AllReach
  <2>1. ArtifactInv(a) /\ currentStage = "complete"
    BY DEF StageInv
  <2> QED BY <2>1 DEF ArtifactInv, Handled, AfterBundle, AfterResolve, AfterAssert, AfterAudience, AfterCertify
<1> QED BY <1>1, InitType, StepType, StageInit, StageInvStep, PTL DEF Spec

-----------------------------------------------------------------------------
(* Grants.                                                                 *)

\* The replacement lowers a grant only of somebody the previous AudienceSpec declares, this one
\* does not, and who holds exactly the derived level.
LEMMA DesiredAclLowers ==
  ASSUME NEW cur \in Acl, NEW desired, NEW previous, NEW level \in Levels, NEW p \in Principals,
         DesiredAcl(cur, desired, previous, level)[p] < cur[p]
  PROVE  p \in previous \ desired /\ cur[p] = level
BY DEF DesiredAcl, Acl, Levels, AtLeast

\* What the app's own principal is raised to is no lower.
LEMMA AssertLowersNobody ==
  ASSUME TypeOK, NEW b \in Artifacts, AssertAppManage(b),
         NEW a \in Artifacts, NEW i \in Ids, NEW p \in Principals
  PROVE  ~(acl'[a][i][p] < acl[a][i][p])
<1>1. target[b] \in Ids
  BY DEF AssertAppManage, OnTarget, TypeOK, EstateType
<1>2. acl[a][i] \in Acl /\ acl[b][target[b]] \in Acl
  BY <1>1 DEF TypeOK, EstateType
<1>3. acl[a][i][p] \in Int /\ acl[b][target[b]][App] \in Int
  BY <1>2 DEF Acl, Levels, Principals
<1>4. acl'[a][i][p] = IF a = b /\ i = target[b] /\ p = App /\ ~AtLeast(acl[a][i][p], CanManage)
                        THEN CanManage ELSE acl[a][i][p]
  BY <1>1, <1>2 DEF AssertAppManage, TypeOK, EstateType, Acl
<1> QED BY <1>3, <1>4 DEF AtLeast, CanManage

\* A grant is a level.
LEMMA GrantIsLevel ==
  ASSUME TypeOK, NEW a \in Artifacts, NEW i \in Ids, NEW p \in Principals
  PROVE  acl[a][i][p] \in Levels
<1>1. acl[a][i] \in Acl
  BY DEF TypeOK, EstateType
<1> QED BY <1>1 DEF Acl

Lowers(a, i, p) == acl'[a][i][p] < acl[a][i][p]

MayLower(a, i, p) == p \in Previous(a) \ Audience(rel, a) /\ acl[a][i][p] = LevelOf[a]

LEMMA ReplaceLowersFew ==
  ASSUME TypeOK, StageInv, quiet, NEW b \in Artifacts, ReplaceAcl(b),
         NEW a \in Artifacts, NEW i \in Ids, NEW p \in Principals, Lowers(a, i, p)
  PROVE  MayLower(a, i, p)
<1> DEFINE new == DesiredAcl(seen, Audience(rel, b), Previous(b), LevelOf[b])
<1>1. target[b] \in Ids
  BY DEF ReplaceAcl, OnTarget, TypeOK, EstateType
<1>2. seen = acl[b][target[b]] /\ seen \in Acl
  BY NoneIsNotAnArtifact DEF StageInv, BusyInv, ReplaceAcl, TypeOK, WorkType
<1>3. acl' = [acl EXCEPT ![b][target[b]] = new]
  BY DEF ReplaceAcl
<1> HIDE DEF new
<1>4. acl'[a][i] = IF a = b /\ i = target[b] THEN new ELSE acl[a][i]
  BY <1>1, <1>3 DEF TypeOK, EstateType
<1>5. acl[a][i][p] \in Int
  BY GrantIsLevel DEF Levels
<1>6. a = b /\ i = target[b] /\ new[p] < seen[p]
  BY <1>2, <1>4, <1>5 DEF Lowers
<1>7. LevelOf[b] \in Levels
  BY Bounds DEF Levels
<1> QED BY <1>2, <1>6, <1>7, DesiredAclLowers DEF MayLower, new

\* No other step of the Attempt touches an ACL.
LEMMA AclFrame ==
  ASSUME [Next]_vars, edits' = edits, TypeOK,
         \A b \in Artifacts : ~AssertAppManage(b) /\ ~ReplaceAcl(b)
  PROVE  acl' = acl
<1>1. CASE Edits
  <2>1. edits' = edits + 1 /\ edits \in Int
    BY <1>1 DEF Edits, EditGrant, EditDelete, EditDuplicate, EditTag, Edit, TypeOK, CountType
  <2> QED BY <2>1
<1>2. CASE Merge \/ StartAttempt \/ RunnerLost \/ Listing \/ PreflightFails \/ StageFails
  BY <1>2 DEF Merge, StartAttempt, RunnerLost, Listing, ListingCatchesUp, PreflightFails, StageFails,
     Fails, estate
<1>3. CASE StageStep
  BY <1>3 DEF StageStep, Preflight, BeginMutation, BundleDeployed, Resolved, AppManageAsserted,
     AudienceReconciled, LiveStateVerified, Certified, Complete, DeployCreate, DeployUpdate,
     DeployRecreate, DeployDelete, Deploy, Resolve, ReadAcl, ReadBackAcl, Verify, WriteTag,
     ReadBackTag, estate
<1>4. CASE UNCHANGED vars
  BY <1>4 DEF vars, estate
<1> QED BY <1>1, <1>2, <1>3, <1>4 DEF Next, AttemptStep

\* While nobody else writes to production, whatever the constants.
GrantsKeptInQuiet ==
  [][edits' = edits /\ quiet =>
       \A a \in Artifacts : \A i \in Ids : \A p \in Principals : Lowers(a, i, p) => MayLower(a, i, p)]_vars

LEMMA GrantStep ==
  ASSUME TypeOK, StageInv, [Next]_vars, edits' = edits,
         (\E b \in Artifacts : ReplaceAcl(b)) => quiet
  PROVE  \A a \in Artifacts : \A i \in Ids : \A p \in Principals : Lowers(a, i, p) => MayLower(a, i, p)
<1>1. CASE \E b \in Artifacts : AssertAppManage(b)
  BY <1>1, AssertLowersNobody DEF Lowers
<1>2. CASE \E b \in Artifacts : ReplaceAcl(b)
  BY <1>2, ReplaceLowersFew
<1>3. CASE \A b \in Artifacts : ~AssertAppManage(b) /\ ~ReplaceAcl(b)
  <2>1. \A a \in Artifacts : \A i \in Ids : \A p \in Principals : acl[a][i][p] \in Int
    BY GrantIsLevel DEF Levels
  <2> QED BY <1>3, <2>1, AclFrame DEF Lowers
<1> QED BY <1>1, <1>2, <1>3

\* The edits that the code reads half of are those made during a run.
QuietRun == Running => quiet

LEMMA QuietRunInit == Init => QuietRun
BY DEF Init, QuietRun, Running

LEMMA QuietRunStep == ~EditsDuringRuns /\ QuietRun /\ [Next]_vars => QuietRun'
<1> SUFFICES ASSUME ~EditsDuringRuns, QuietRun, [Next]_vars PROVE QuietRun'
  OBVIOUS
<1>1. CASE StartAttempt
  BY <1>1 DEF StartAttempt, QuietRun
<1>2. CASE Edits
  BY <1>2 DEF Edits, EditGrant, EditDelete, EditDuplicate, EditTag, Edit, QuietRun, Running, attempt, evidence
<1>3. CASE Merge \/ RunnerLost \/ Listing \/ PreflightFails \/ StageFails
  BY <1>3 DEF Merge, RunnerLost, Listing, ListingCatchesUp, PreflightFails, StageFails,
     Fails, attempt, evidence, history, QuietRun, Running
<1>4. CASE StageStep
  BY <1>4 DEF StageStep, Preflight, BeginMutation, BundleDeployed, Resolved, AppManageAsserted,
     AudienceReconciled, LiveStateVerified, Certified, Complete, DeployCreate, DeployUpdate,
     DeployRecreate, DeployDelete, Deploy, Resolve, AssertAppManage, ReadAcl, ReplaceAcl, ReadBackAcl,
     Verify, WriteTag, ReadBackTag, history, QuietRun
<1>5. CASE UNCHANGED vars
  BY <1>5 DEF vars, attempt, evidence, history, QuietRun, Running
<1> QED BY <1>1, <1>2, <1>3, <1>4, <1>5 DEF Next, AttemptStep

LEMMA StagesHold == Spec => [](TypeOK /\ StageInv)
BY InitType, StepType, StageInit, StageInvStep, PTL DEF Spec

\* GrantsKeptInQuiet: whoever edits production and when, a step of an Attempt that nobody has
\* interfered with lowers no grant but those of people who left the AudienceSpec.
THEOREM OnlyLeaversAreLowered == Spec => GrantsKeptInQuiet
<1>1. TypeOK /\ StageInv /\ [Next]_vars =>
        [edits' = edits /\ quiet =>
          \A a \in Artifacts : \A i \in Ids : \A p \in Principals : Lowers(a, i, p) => MayLower(a, i, p)]_vars
  BY GrantStep
<1> QED BY <1>1, StagesHold, PTL DEF Spec, GrantsKeptInQuiet

\* UnmanagedGrantsKept: when administrators leave production alone while an Attempt runs, no step
\* of any Attempt lowers a grant but those of people who left the AudienceSpec.
THEOREM UnmanagedGrantsStay ==
  ASSUME ~EditsDuringRuns
  PROVE  Spec => UnmanagedGrantsKept
<1>1. TypeOK /\ StageInv /\ QuietRun /\ [Next]_vars =>
        [edits' = edits =>
          \A a \in Artifacts : \A i \in Ids : \A p \in Principals :
            acl'[a][i][p] < acl[a][i][p] =>
              p \in Previous(a) \ Audience(rel, a) /\ acl[a][i][p] = LevelOf[a]]_vars
  BY GrantStep DEF Lowers, MayLower, QuietRun, ReplaceAcl
<1>2. QuietRun /\ [Next]_vars => QuietRun'
  BY QuietRunStep
<1> QED BY <1>1, <1>2, QuietRunInit, StagesHold, PTL DEF Spec, UnmanagedGrantsKept

-----------------------------------------------------------------------------
(* The resource an Attempt acts on.                                        *)

\* Whoever has a target has been resolved by this Attempt.
TargetInv ==
  \A a \in Artifacts : target[a] # 0 => Handled(a, "resolve_space", AfterResolve)

\* A step that keeps the targets and the stage, or hands the artifacts on to the next stage.
LEMMA TargetFrame ==
  ASSUME TargetInv, UNCHANGED <<target, currentStage>>, todo' \subseteq todo
  PROVE  TargetInv'
BY DEF TargetInv, Handled

LEMMA TargetAdvance ==
  ASSUME TargetInv, NEW stage, NEW next, NEW work, <<stage, next>> \in Successions,
         Advance(stage, next, work), UNCHANGED target
  PROVE  TargetInv'
BY DEF TargetInv, Handled, Successions, Advance, AfterResolve, AfterAssert, AfterAudience, AfterCertify

LEMMA TargetInit == Init => TargetInv
BY DEF Init, TargetInv

LEMMA TargetStep == TypeOK /\ TargetInv /\ [Next]_vars => TargetInv'
<1> SUFFICES ASSUME TypeOK, TargetInv, [Next]_vars PROVE TargetInv'
  OBVIOUS
<1>1. CASE Preflight \/ BundleDeployed \/ Resolved \/ AppManageAsserted \/ AudienceReconciled
           \/ LiveStateVerified \/ Certified
  BY <1>1, TargetAdvance DEF Preflight, BundleDeployed, Resolved, AppManageAsserted,
     AudienceReconciled, LiveStateVerified, Certified, Successions
<1>2. CASE StartAttempt
  BY <1>2 DEF StartAttempt, TargetInv
<1>3. ASSUME NEW b \in Artifacts, Resolve(b) PROVE TargetInv'
  <2>1. \A a \in Artifacts \ {b} : target'[a] = target[a]
    BY <1>3 DEF Resolve, TypeOK, WorkType
  <2>2. currentStage = "resolve_space" /\ currentStage' = currentStage /\ todo' = todo \ {b}
    BY <1>3 DEF Resolve, evidence
  <2> QED BY <2>1, <2>2 DEF TargetInv, Handled
<1>4. ASSUME NEW b \in Artifacts,
             \/ DeployCreate(b) \/ DeployUpdate(b) \/ DeployRecreate(b) \/ DeployDelete(b)
             \/ AssertAppManage(b) \/ ReadAcl(b) \/ ReplaceAcl(b) \/ ReadBackAcl(b)
             \/ Verify(b) \/ WriteTag(b) \/ ReadBackTag(b)
      PROVE  TargetInv'
  BY <1>4, TargetFrame DEF DeployCreate, DeployUpdate, DeployRecreate, DeployDelete, Deploy,
     AssertAppManage, ReadAcl, ReplaceAcl, ReadBackAcl, Verify, WriteTag, ReadBackTag, evidence
<1>5. CASE BeginMutation \/ Complete \/ PreflightFails \/ StageFails
  BY <1>5, TargetFrame DEF BeginMutation, Complete, PreflightFails, StageFails, Fails, working
<1>6. CASE Merge \/ RunnerLost \/ Listing \/ Edits
  BY <1>6, TargetFrame DEF Merge, RunnerLost, Listing, ListingCatchesUp, Edits, EditGrant,
     EditDelete, EditDuplicate, EditTag, Edit, working, evidence
<1>7. CASE UNCHANGED vars
  BY <1>7, TargetFrame DEF vars, working, evidence
<1> QED BY <1>1, <1>2, <1>3, <1>4, <1>5, <1>6, <1>7 DEF Next, AttemptStep, StageStep

\* Two elements of a set of one are the same.
LEMMA OnlyOne ==
  ASSUME NEW S, IsFiniteSet(S), Cardinality(S) = 1, NEW x \in S, NEW y \in S
  PROVE  x = y
BY FS_Singleton

LEMMA IdsAreFinite == ASSUME NEW S \in SUBSET Ids PROVE IsFiniteSet(S)
<1>1. IsFiniteSet(Ids)
  BY FS_Interval, Bounds DEF Ids
<1> QED BY <1>1, FS_Subset

\* TargetIsManaged: as long as one resource only carries the title, the id that the title was
\* resolved to is the one the bundle manages, also while the listing lags behind.
THEOREM NoTombstones == Spec => []TargetIsManaged
<1>1. TypeOK /\ StageInv /\ TargetInv => TargetIsManaged
  <2> SUFFICES ASSUME TypeOK, StageInv, TargetInv, quiet, NEW a \in Desired,
                      target[a] # 0, Cardinality(live[a]) = 1
               PROVE  target[a] = managed[a]
    BY DEF TargetIsManaged
  <2>1. a \in Artifacts
    BY DEF Desired, Declares
  <2>2. Handled(a, "resolve_space", AfterResolve)
    BY <2>1 DEF TargetInv
  <2>3. target[a] \in live[a] /\ managed[a] \in live[a]
    BY <2>1, <2>2 DEF StageInv, ArtifactInv, InPlace, OnTarget, Handled, AfterBundle
  <2>4. IsFiniteSet(live[a])
    BY <2>1, IdsAreFinite DEF TypeOK, EstateType
  <2> QED BY <2>3, <2>4, OnlyOne
<1> QED BY <1>1, StagesHold, TargetInit, TargetStep, PTL DEF Spec

-----------------------------------------------------------------------------
(* The contract.                                                           *)

\* Once an artifact of the release has been deployed production has changed.
DeployedInv ==
  \A a \in Desired : Handled(a, "bundle_deploy", AfterBundle) => dirty

\* What an Attempt works on is of its release, or managed.
LEMMA DeployedFrame ==
  ASSUME TypeOK, DeployedInv, UNCHANGED rel, UNCHANGED content \/ Merge,
         UNCHANGED currentStage, todo' = todo \/ currentStage # "bundle_deploy", dirty => dirty'
  PROVE  DeployedInv'
<1>1. Desired' = Desired
  BY ReleaseFrame
<1> QED BY <1>1 DEF DeployedInv, Handled

LEMMA DeployedAdvance ==
  ASSUME TypeOK, DeployedInv, NEW stage, NEW next, NEW work, <<stage, next>> \in Successions,
         Advance(stage, next, work), UNCHANGED <<content, rel, dirty>>,
         Desired \subseteq work \/ next # "bundle_deploy"
  PROVE  DeployedInv'
<1>1. Desired' = Desired
  BY ReleaseFrame
<1>2. ASSUME NEW a \in Desired, Handled(a, "bundle_deploy", AfterBundle)'
      PROVE  Handled(a, "bundle_deploy", AfterBundle)
  BY <1>2 DEF Handled, Successions, Advance, AfterBundle, AfterResolve, AfterAssert, AfterAudience, AfterCertify
<1> QED BY <1>1, <1>2 DEF DeployedInv, Advance

LEMMA DeployedInit == Init => DeployedInv
BY DEF Init, DeployedInv, Desired

LEMMA DeployedStep == TypeOK /\ DeployedInv /\ [Next]_vars => DeployedInv'
<1> SUFFICES ASSUME TypeOK, DeployedInv, [Next]_vars PROVE DeployedInv'
  OBVIOUS
<1>1. CASE Preflight \/ BundleDeployed \/ Resolved \/ AppManageAsserted \/ AudienceReconciled
           \/ LiveStateVerified \/ Certified
  BY <1>1, DeployedAdvance DEF Preflight, BundleDeployed, Resolved, AppManageAsserted,
     AudienceReconciled, LiveStateVerified, Certified, Successions, attempt, history
<1>2. CASE StartAttempt
  BY <1>2 DEF StartAttempt, DeployedInv, Handled, AfterBundle, AfterResolve, AfterAssert,
     AfterAudience, AfterCertify
<1>3. ASSUME NEW b \in Artifacts, DeployCreate(b) \/ DeployUpdate(b) \/ DeployRecreate(b) \/ DeployDelete(b)
      PROVE  DeployedInv'
  BY <1>3 DEF DeployedInv, DeployCreate, DeployUpdate, DeployRecreate, DeployDelete, Deploy
<1>4. ASSUME NEW b \in Artifacts,
             \/ Resolve(b) \/ AssertAppManage(b) \/ ReadAcl(b) \/ ReplaceAcl(b) \/ ReadBackAcl(b)
             \/ Verify(b) \/ WriteTag(b) \/ ReadBackTag(b)
      PROVE  DeployedInv'
  <2>1. currentStage # "bundle_deploy" /\ UNCHANGED <<content, rel, currentStage>>
    BY <1>4 DEF Resolve, AssertAppManage, ReadAcl, ReplaceAcl, ReadBackAcl, Verify, WriteTag,
       ReadBackTag, attempt, evidence
  <2>2. dirty => dirty'
    <3>1. CASE WriteTag(b)
      BY <3>1, Zenon DEF WriteTag
    <3>2. CASE ~WriteTag(b)
      BY <1>4, <3>2 DEF Resolve, AssertAppManage, ReadAcl, ReplaceAcl, ReadBackAcl, Verify,
         ReadBackTag, history
    <3> QED BY <3>1, <3>2
  <2> QED BY <2>1, <2>2, DeployedFrame
<1>5. CASE BeginMutation \/ Complete \/ PreflightFails \/ StageFails
  BY <1>5, DeployedFrame DEF BeginMutation, Complete, PreflightFails, StageFails, Fails, working,
     attempt, history
<1>6. CASE Merge \/ RunnerLost \/ Listing \/ Edits
  BY <1>6, DeployedFrame DEF Merge, RunnerLost, Listing, ListingCatchesUp, Edits, EditGrant,
     EditDelete, EditDuplicate, EditTag, Edit, working, evidence, attempt, history
<1>7. CASE UNCHANGED vars
  BY <1>7, DeployedFrame DEF vars, working, evidence, attempt, history
<1> QED BY <1>1, <1>2, <1>3, <1>4, <1>5, <1>6, <1>7 DEF Next, AttemptStep, StageStep

\* The mapping.
AttemptOutcome == IF terminalState = "running" /\ ~alive THEN "lost" ELSE terminalState

Settled == CASE currentStage = "certify_space" -> Desired \ todo
             [] currentStage = "complete"      -> Desired
             [] OTHER                          -> {}

\* A step of a running Attempt that reports no outcome.
LEMMA MapsToWork ==
  ASSUME Running, terminalState' = terminalState, alive' = alive, Desired' = Desired,
         dirty' \in {dirty, TRUE}, Settled \subseteq Settled', Settled' # {} => dirty'
  PROVE  [Contract!CNext]_Contract!cvars
<1>1. Settled' \subseteq Desired
  BY DEF Settled
<1>2. AttemptOutcome = "running" /\ AttemptOutcome' = "running"
  BY DEF AttemptOutcome, Running
<1>3. Contract!Work
  BY <1>1, <1>2, Zenon DEF Contract!Work, Settled, AttemptOutcome
<1> QED BY <1>3 DEF Contract!CNext

\* A step that changes nothing that the contract sees.
LEMMA MapsToStutter ==
  ASSUME UNCHANGED <<terminalState, alive, dirty, Desired, currentStage, todo>>
  PROVE  [Contract!CNext]_Contract!cvars
BY DEF Contract!cvars

LEMMA StartRefines ==
  ASSUME TypeOK, StartAttempt
  PROVE  [Contract!CNext]_Contract!cvars
<1>1. AttemptOutcome # "running" /\ AttemptOutcome' = "running"
  BY DEF AttemptOutcome, StartAttempt
<1>2. dirty' = FALSE /\ Settled' = {} /\ Desired' \in SUBSET Artifacts
  BY DEF StartAttempt, Settled, Desired, Declares
<1>3. Contract!Begin
  BY <1>1, <1>2, Zenon DEF Contract!Begin, AttemptOutcome, Settled
<1> QED BY <1>3 DEF Contract!CNext

LEMMA FailureRefines ==
  ASSUME TypeOK, EvidenceInv, PreflightFails \/ StageFails
  PROVE  [Contract!CNext]_Contract!cvars
<1>1. /\ AttemptOutcome = "running" /\ UNCHANGED <<dirty, currentStage, todo, content, rel>>
      /\ AttemptOutcome' = terminalState'
  BY DEF PreflightFails, StageFails, Fails, Running, AttemptOutcome, attempt, working, history
<1>2. Desired' = Desired /\ Settled' = Settled
  BY <1>1, ReleaseFrame DEF Settled
<1>3. CASE PreflightFails
  <2>1. ~dirty
    BY <1>3 DEF PreflightFails, EvidenceInv
  <2>2. AttemptOutcome' = "operational_failed"
    BY <1>1, <1>3 DEF PreflightFails, Fails
  <2>3. Contract!Refuse
    BY <1>1, <1>2, <2>1, <2>2, Zenon DEF Contract!Refuse, AttemptOutcome, Settled
  <2> QED BY <2>3 DEF Contract!CNext
<1>4. CASE StageFails
  <2>1. AttemptOutcome' = "partial_failed"
    BY <1>1, <1>4 DEF StageFails, Fails
  <2>2. Contract!GiveUp
    BY <1>1, <1>2, <2>1, Zenon DEF Contract!GiveUp, AttemptOutcome, Settled
  <2> QED BY <2>2 DEF Contract!CNext
<1> QED BY <1>3, <1>4

LEMMA CompleteRefines ==
  ASSUME TypeOK, Complete
  PROVE  [Contract!CNext]_Contract!cvars
<1>1. /\ AttemptOutcome = "running" /\ AttemptOutcome' = "succeeded"
      /\ UNCHANGED <<dirty, currentStage, todo, content, rel>> /\ currentStage = "complete"
  BY DEF Complete, Running, AttemptOutcome, attempt, working, history
<1>2. Desired' = Desired /\ Settled' = Settled /\ Settled = Desired
  BY <1>1, ReleaseFrame DEF Settled
<1>3. Contract!Finish
  BY <1>1, <1>2, Zenon DEF Contract!Finish, AttemptOutcome, Settled
<1> QED BY <1>3 DEF Contract!CNext

LEMMA LossRefines ==
  ASSUME TypeOK, RunnerLost
  PROVE  [Contract!CNext]_Contract!cvars
<1>1. /\ AttemptOutcome = "running" /\ AttemptOutcome' = "lost"
      /\ UNCHANGED <<dirty, currentStage, todo, content, rel>>
  BY DEF RunnerLost, Running, AttemptOutcome, evidence, working, history
<1>2. Desired' = Desired /\ Settled' = Settled
  BY <1>1, ReleaseFrame DEF Settled
<1>3. Contract!Vanish
  BY <1>1, <1>2, Zenon DEF Contract!Vanish, AttemptOutcome, Settled
<1> QED BY <1>3 DEF Contract!CNext

\* What is settled has been deployed.
LEMMA SettledIsDeployed ==
  ASSUME DeployedInv, Settled # {}
  PROVE  dirty
BY DEF Settled, DeployedInv, Handled, AfterBundle, AfterResolve, AfterAssert, AfterAudience, AfterCertify

\* The end of a stage, and the calls of the stages that work on one artifact.
LEMMA AdvanceRefines ==
  ASSUME TypeOK, DeployedInv, DeployedInv', Running, NEW stage, NEW next, NEW work,
         <<stage, next>> \in Successions, Advance(stage, next, work),
         UNCHANGED <<content, rel, alive, dirty>>
  PROVE  [Contract!CNext]_Contract!cvars
<1>1. Desired' = Desired /\ terminalState' = terminalState
  BY ReleaseFrame DEF Advance
<1>2. Settled' # {} => dirty'
  BY DEF Settled, DeployedInv, Handled, AfterBundle, AfterResolve, AfterAssert, AfterAudience, AfterCertify
<1>3. Settled \subseteq Settled'
  BY <1>1 DEF Settled, Advance, Successions
<1> QED BY <1>1, <1>2, <1>3, MapsToWork

LEMMA CallRefines ==
  ASSUME TypeOK, DeployedInv', Running, UNCHANGED <<content, rel, alive, currentStage, terminalState>>,
         todo' \subseteq todo, dirty' \in {dirty, TRUE}
  PROVE  [Contract!CNext]_Contract!cvars
<1>1. Desired' = Desired
  BY ReleaseFrame
<1>2. Settled' # {} => dirty'
  BY DEF Settled, DeployedInv, Handled, AfterBundle, AfterResolve, AfterAssert, AfterAudience, AfterCertify
<1>3. Settled \subseteq Settled'
  BY <1>1 DEF Settled
<1> QED BY <1>1, <1>2, <1>3, MapsToWork

LEMMA ContractStep ==
  ASSUME TypeOK, EvidenceInv, DeployedInv, DeployedInv', [Next]_vars
  PROVE  [Contract!CNext]_Contract!cvars
<1>1. CASE Preflight \/ BundleDeployed \/ Resolved \/ AppManageAsserted \/ AudienceReconciled
           \/ LiveStateVerified \/ Certified
  BY <1>1, AdvanceRefines DEF Preflight, BundleDeployed, Resolved, AppManageAsserted,
     AudienceReconciled, LiveStateVerified, Certified, Successions, attempt, history
<1>2. CASE StartAttempt
  BY <1>2, StartRefines
<1>3. CASE PreflightFails \/ StageFails
  BY <1>3, FailureRefines
<1>4. CASE Complete
  BY <1>4, CompleteRefines
<1>5. CASE RunnerLost
  BY <1>5, LossRefines
<1>6. CASE Merge \/ Listing \/ Edits \/ UNCHANGED vars
  <2>1. UNCHANGED <<rel, terminalState, alive, dirty, currentStage, todo>> /\ (UNCHANGED content \/ Merge)
    BY <1>6 DEF Merge, Listing, ListingCatchesUp, Edits, EditGrant, EditDelete, EditDuplicate,
       EditTag, Edit, vars, attempt, evidence, working, history
  <2>2. Desired' = Desired
    BY <2>1, ReleaseFrame
  <2> QED BY <2>1, <2>2, MapsToStutter
<1>7. ASSUME NEW b \in Artifacts,
             \/ DeployCreate(b) \/ DeployUpdate(b) \/ DeployRecreate(b) \/ DeployDelete(b)
             \/ Resolve(b) \/ AssertAppManage(b) \/ ReadAcl(b) \/ ReplaceAcl(b) \/ ReadBackAcl(b)
             \/ Verify(b) \/ ReadBackTag(b)
      PROVE  [Contract!CNext]_Contract!cvars
  <2>1. /\ Running /\ UNCHANGED <<content, rel, alive, currentStage, terminalState>>
        /\ todo' \subseteq todo /\ dirty' \in {dirty, TRUE}
    BY <1>7 DEF DeployCreate, DeployUpdate, DeployRecreate, DeployDelete, Deploy, Resolve,
       AssertAppManage, ReadAcl, ReplaceAcl, ReadBackAcl, Verify, ReadBackTag, attempt, evidence, history
  <2> QED BY <2>1, CallRefines
<1>8. ASSUME NEW b \in Artifacts, WriteTag(b)
      PROVE  [Contract!CNext]_Contract!cvars
  <2>1. Running /\ UNCHANGED <<content, rel, alive, currentStage, terminalState>> /\ todo' \subseteq todo
    BY <1>8 DEF WriteTag, attempt, evidence
  <2>2. dirty' \in {dirty, TRUE}
    <3>1. dirty' = (dirty \/ target[b] \notin certified[b])
      BY <1>8 DEF WriteTag
    <3>2. dirty \in BOOLEAN
      BY DEF TypeOK, CountType
    <3> QED BY <3>1, <3>2, Zenon
  <2> QED BY <2>1, <2>2, CallRefines
<1>9. CASE BeginMutation
  <2>1. /\ Running /\ UNCHANGED <<content, rel, alive, currentStage, terminalState>>
        /\ todo' \subseteq todo /\ dirty' \in {dirty, TRUE}
    BY <1>9 DEF BeginMutation, attempt, working, history
  <2> QED BY <2>1, CallRefines
<1> QED BY <1>1, <1>2, <1>3, <1>4, <1>5, <1>6, <1>7, <1>8, <1>9 DEF Next, AttemptStep, StageStep

LEMMA ContractInit == Init => Contract!CInit
<1> SUFFICES ASSUME Init PROVE Contract!CInit
  OBVIOUS
<1>1. terminalState = "none" /\ dirty = FALSE /\ rel = 0 /\ currentStage = "preflight"
  BY DEF Init, None
<1> QED BY <1>1 DEF Contract!CInit, Desired

\* ImplementsContract: what the stages do to production and report is what the contract of an
\* Attempt allows: operational_failed means untouched, succeeded means everything settled, an
\* artifact once settled stays so, and a reported outcome is final until the next Attempt.
THEOREM StagesImplementContract == Spec => ImplementsContract
<1>1. TypeOK /\ EvidenceInv /\ DeployedInv /\ DeployedInv' /\ [Next]_vars => [Contract!CNext]_Contract!cvars
  BY ContractStep
<1> QED
  BY <1>1, ContractInit, InitType, StepType, EvidenceInit, EvidenceStep, DeployedInit, DeployedStep, PTL
  DEF Spec, ImplementsContract, Contract!CSpec

-----------------------------------------------------------------------------
(* The audience.  What an earlier release granted and this one does not is *)
(* taken back only if the previous AudienceSpec names it.  The argument is *)
(* that whoever else still holds a grant of the app on the managed         *)
(* resource is among those some Attempt has passed over.                   *)

\* Resources are numbered as they are created: a new one carries nothing over.
Numbered ==
  \A a \in Artifacts : \A i \in Ids :
    i \in live[a] \cup listed[a] \cup {managed[a], target[a]} \/ granted[a][i] # {} => i <= minted[a]

\* What the app has granted on is in the listing as long as it exists.
Known ==
  \A a \in Artifacts : \A i \in live[a] : granted[a][i] # {} \/ target[a] = i => i \in listed[a]

\* What is not in the release is not managed once it has been deployed, whoever edits.
Retired ==
  \A a \in Artifacts \ Desired : Handled(a, "bundle_deploy", AfterBundle) => managed[a] = 0

\* Acting on another resource than the managed one leaves no grant of the app behind.
Reached ==
  \A a \in Artifacts :
    managed[a] \in live[a] /\ target[a] \notin {0, managed[a]} => granted[a][managed[a]] = {}

\* What was read of the people the app has granted is still so: whoever is edited in between
\* is no longer there only through the app.
FreshRead ==
  \A a \in Artifacts :
    currentStage = "reconcile_audience" /\ busy = a /\ call = "set" /\ target[a] # 0 =>
      \A p \in granted[a][target[a]] : seen[p] = acl[a][target[a]][p]

Replaced(a) ==
  \/ Handled(a, "reconcile_audience", AfterAudience)
  \/ currentStage = "reconcile_audience" /\ busy = a /\ call = "readback"

\* Who holds the derived level on the managed resource only through the app.
LeftOver(a) == {p \in granted[a][managed[a]] : acl[a][managed[a]][p] = LevelOf[a]}

Bounded ==
  \A a \in Artifacts :
    managed[a] \in live[a] =>
      LeftOver(a) \subseteq
        Audience(rel, a) \cup passedOver[a] \cup IF Replaced(a) THEN {} ELSE Previous(a)

AudienceInv == Numbered /\ Known /\ Retired /\ Reached /\ FreshRead /\ Bounded

LEMMA AudienceInit == Init => AudienceInv
<1> SUFFICES ASSUME Init PROVE AudienceInv
  OBVIOUS
<1>1. /\ content = <<>> /\ rel = 0 /\ currentStage = "preflight"
      /\ \A a \in Artifacts : /\ live[a] = {} /\ listed[a] = {} /\ managed[a] = 0 /\ target[a] = 0
                              /\ \A i \in Ids : granted[a][i] = {}
  BY DEF Init
<1>2. \A i \in Ids : i # 0
  BY DEF Ids
<1> QED BY <1>1, <1>2 DEF AudienceInv, Numbered, Known, Retired, Reached, FreshRead, Bounded

\* What deploying one artifact does to the resources that carry its title.
LEMMA DeployEffect ==
  ASSUME TypeOK, Numbered, NEW b \in Artifacts,
         DeployCreate(b) \/ DeployUpdate(b) \/ DeployRecreate(b) \/ DeployDelete(b)
  PROVE  /\ currentStage = "bundle_deploy" /\ todo' = todo \ {b} /\ b \in todo
         /\ UNCHANGED <<content, rel, passedOver, target, listed, acl, granted, busy, call, seen, currentStage>>
         /\ \A a \in Artifacts \ {b} : UNCHANGED <<live[a], managed[a], minted[a]>>
         /\ live'[b] \subseteq live[b] \cup {minted[b] + 1}
         /\ managed'[b] \in {0, managed[b], minted[b] + 1}
         /\ minted'[b] >= minted[b]
         /\ minted[b] + 1 \in live'[b] \cup {managed'[b]} => minted'[b] = minted[b] + 1
         /\ managed'[b] = managed[b] => managed[b] = 0 \/ managed[b] \in live[b]
         /\ b \notin Desired => managed'[b] = 0
<1>0. minted[b] \in Nat /\ managed[b] \in Nat /\ (managed[b] # 0 => managed[b] \in Ids)
      /\ \A i \in live[b] : i \in Ids /\ i # 0
  BY Bounds DEF TypeOK, EstateType, Ids
<1>1. (managed[b] # 0 => managed[b] <= minted[b]) /\ minted[b] + 1 \notin live[b]
  <2>1. minted[b] + 1 \in live[b] => minted[b] + 1 <= minted[b]
    BY <1>0 DEF Numbered
  <2> QED BY <1>0, <2>1 DEF Numbered
<1>2. /\ currentStage = "bundle_deploy" /\ todo' = todo \ {b} /\ b \in todo
      /\ UNCHANGED <<content, rel, passedOver, target, listed, acl, granted, busy, call, seen, currentStage>>
      /\ \A a \in Artifacts \ {b} : UNCHANGED <<live[a], managed[a], minted[a]>>
  BY DEF DeployCreate, DeployUpdate, DeployRecreate, DeployDelete, Deploy, attempt, evidence, TypeOK, EstateType
<1>3. ASSUME NEW id, NEW removed, Deploy(b, id, removed)
      PROVE  /\ managed'[b] = id
             /\ live'[b] = (live[b] \ removed) \cup ({id} \ {0})
             /\ minted'[b] = IF id > minted[b] THEN id ELSE minted[b]
  BY <1>3 DEF Deploy, TypeOK, EstateType
<1>4. CASE DeployCreate(b) \/ DeployRecreate(b)
  <2>1. PICK removed : Deploy(b, minted[b] + 1, removed)
    BY <1>4 DEF DeployCreate, DeployRecreate
  <2>2. b \in Desired
    BY <1>4 DEF DeployCreate, DeployRecreate
  <2>3. managed[b] # minted[b] + 1
    BY <1>0, <1>1
  <2> QED BY <1>0, <1>2, <1>3, <2>1, <2>2, <2>3
<1>5. CASE DeployUpdate(b)
  <2>1. Deploy(b, managed[b], {}) /\ managed[b] \in live[b] /\ b \in Desired
    BY <1>5 DEF DeployUpdate
  <2>2. managed'[b] = managed[b] /\ live'[b] = live[b] /\ minted'[b] = minted[b]
    <3>1. /\ managed'[b] = managed[b] /\ live'[b] = (live[b] \ {}) \cup ({managed[b]} \ {0})
          /\ minted'[b] = IF managed[b] > minted[b] THEN managed[b] ELSE minted[b]
      BY <1>3, <2>1
    <3> QED BY <1>0, <1>1, <2>1, <3>1
  <2> QED BY <1>0, <1>1, <1>2, <2>1, <2>2
<1>6. CASE DeployDelete(b)
  <2>1. Deploy(b, 0, {managed[b]})
    BY <1>6 DEF DeployDelete
  <2>2. managed'[b] = 0 /\ live'[b] \subseteq live[b] /\ minted'[b] = minted[b]
    BY <1>0, <1>3, <2>1
  <2> QED BY <1>0, <1>1, <1>2, <2>2
<1> QED BY <1>4, <1>5, <1>6

\* A merge appends: the release that an Attempt deploys, and the one before it, stay.
LEMMA PreviousFrame ==
  ASSUME TypeOK, UNCHANGED rel, UNCHANGED content \/ Merge
  PROVE  \A a \in Artifacts : Previous(a)' = Previous(a)
<1>1. CASE UNCHANGED content
  BY <1>1 DEF Previous, Audience
<1>2. CASE Merge
  <2>1. PICK release \in Releases : content' = Append(content, release)
    BY <1>2 DEF Merge
  <2>2. rel - 1 # 0 /\ rel # 0 => content'[rel - 1] = content[rel - 1]
    BY <2>1 DEF TypeOK, ReleaseType
  <2> QED BY <2>2 DEF Previous, Audience
<1> QED BY <1>1, <1>2

\* Steps that neither write to production nor move on to another stage.
LEMMA GrantFrame ==
  ASSUME TypeOK, AudienceInv, UNCHANGED <<rel, passedOver>>, UNCHANGED content \/ Merge,
         UNCHANGED <<currentStage, target, live, listed, managed, minted, acl, granted>>,
         UNCHANGED <<todo, busy, call, seen>> \/ currentStage \in AfterAudience
  PROVE  AudienceInv'
<1>1. /\ Desired' = Desired
      /\ \A a \in Artifacts : Audience(rel, a)' = Audience(rel, a) /\ Previous(a)' = Previous(a)
  BY ReleaseFrame, PreviousFrame
<1>2. Numbered' /\ Known' /\ Reached'
  BY DEF AudienceInv, Numbered, Known, Reached
<1>3. Retired'
  BY <1>1 DEF AudienceInv, Retired, Handled, AfterBundle, AfterResolve, AfterAssert
<1>4. FreshRead'
  BY DEF AudienceInv, FreshRead, AfterAudience, AfterCertify
<1>5. Bounded'
  <2>1. \A a \in Artifacts : Replaced(a)' <=> Replaced(a)
    BY DEF Replaced, Handled, AfterAudience, AfterCertify
  <2>2. \A a \in Artifacts : LeftOver(a)' = LeftOver(a)
    BY DEF LeftOver
  <2> QED BY <1>1, <2>1, <2>2 DEF AudienceInv, Bounded
<1> QED BY <1>2, <1>3, <1>4, <1>5 DEF AudienceInv

\* The end of a stage.
LEMMA GrantAdvance ==
  ASSUME TypeOK, AudienceInv, NEW stage, NEW next, NEW work, <<stage, next>> \in Successions,
         Advance(stage, next, work), UNCHANGED <<content, rel, passedOver, target, estate, granted>>,
         Desired \subseteq work \/ next = "complete",
         next = "bundle_deploy" => \A a \in Artifacts \ work : managed[a] = 0
  PROVE  AudienceInv'
<1>1. /\ Desired' = Desired
      /\ \A a \in Artifacts : Audience(rel, a)' = Audience(rel, a) /\ Previous(a)' = Previous(a)
  BY ReleaseFrame, PreviousFrame
<1>2. Numbered' /\ Known' /\ Reached'
  BY DEF AudienceInv, Numbered, Known, Reached, estate
<1>3. Retired'
  <2> SUFFICES ASSUME NEW a \in Artifacts \ Desired, Handled(a, "bundle_deploy", AfterBundle)'
               PROVE  managed[a] = 0
    BY <1>1 DEF Retired, estate
  <2>1. CASE next = "bundle_deploy"
    BY <2>1 DEF Handled, Advance, AfterBundle, AfterResolve, AfterAssert, AfterAudience, AfterCertify
  <2>2. CASE next # "bundle_deploy"
    <3>1. Handled(a, "bundle_deploy", AfterBundle)
      BY <2>2 DEF Handled, Advance, Successions, AfterBundle, AfterResolve, AfterAssert, AfterAudience, AfterCertify
    <3> QED BY <3>1 DEF AudienceInv, Retired
  <2> QED BY <2>1, <2>2
<1>4. FreshRead'
  BY NoneIsNotAnArtifact DEF FreshRead, Advance
<1>5. Bounded'
  <2> SUFFICES ASSUME NEW a \in Artifacts, managed[a] \in live[a]
               PROVE  LeftOver(a) \subseteq
                        Audience(rel, a) \cup passedOver[a] \cup IF Replaced(a)' THEN {} ELSE Previous(a)
    BY <1>1 DEF Bounded, LeftOver, estate
  <2>1. managed[a] # 0
    BY DEF TypeOK, EstateType, Ids
  <2>2. CASE a \in work \/ next # "reconcile_audience"
    <3>1. Replaced(a)' => Replaced(a)
      BY <2>2, NoneIsNotAnArtifact DEF Replaced, Handled, Advance, Successions, AfterAudience, AfterCertify
    <3> QED BY <3>1 DEF AudienceInv, Bounded
  <2>3. CASE a \notin work /\ next = "reconcile_audience"
    <3>1. Handled(a, "bundle_deploy", AfterBundle) /\ a \notin Desired
      BY <2>3 DEF Handled, Advance, Successions, AfterBundle, AfterResolve
    <3> QED BY <2>1, <3>1 DEF AudienceInv, Retired
  <2> QED BY <2>2, <2>3
<1> QED BY <1>2, <1>3, <1>4, <1>5 DEF AudienceInv

\* A run starts: who holds a grant is declared by its release or the one before, or passed over.
LEMMA GrantStartAttempt ==
  ASSUME TypeOK, StageInv, AudienceInv, StartAttempt
  PROVE  AudienceInv'
<1>1. /\ UNCHANGED <<content, live, listed, managed, minted, acl, granted>>
      /\ currentStage' = "preflight" /\ busy' = None
      /\ \A a \in Artifacts : target'[a] = 0
  BY DEF StartAttempt, estate
<1>2. Numbered' /\ Known' /\ Reached'
  <2>1. \A i \in Ids : i # 0
    BY DEF Ids
  <2>2. \A a \in Artifacts : live[a] \subseteq Ids
    BY DEF TypeOK, EstateType
  <2>3. Numbered'
    BY <1>1, <2>1 DEF AudienceInv, Numbered
  <2> QED BY <1>1, <2>1, <2>2, <2>3 DEF AudienceInv, Known, Reached
<1>3. Retired' /\ FreshRead'
  BY <1>1 DEF Retired, FreshRead, Handled, AfterBundle, AfterResolve, AfterAssert, AfterAudience, AfterCertify
<1>4. Bounded'
  <2> SUFFICES ASSUME NEW a \in Artifacts, managed[a] \in live[a]
               PROVE  LeftOver(a) \subseteq (Audience(rel, a) \cup passedOver[a] \cup Previous(a))'
    BY <1>1 DEF Bounded, LeftOver, Replaced, Handled, AfterAudience, AfterCertify
  <2>1. LeftOver(a) \subseteq MayHold(a)
    <3>1. terminalState = "succeeded" => Replaced(a)
      BY DEF StageInv, Replaced, Handled, AfterAudience, AfterCertify
    <3> QED BY <3>1 DEF AudienceInv, Bounded, MayHold
  <2>2. PICK r \in DOMAIN content :
          /\ rel' = r
          /\ passedOver' = [b \in Artifacts |-> MayHold(b) \ (Audience(r, b) \cup Audience(r - 1, b))]
    BY DEF StartAttempt
  <2>3. r # 0
    BY DEF TypeOK, ReleaseType
  <2>4. Audience(rel, a)' = Audience(r, a) /\ Previous(a)' = Audience(r - 1, a)
    BY <1>1, <2>2, <2>3 DEF Previous, Audience
  <2>5. passedOver'[a] = MayHold(a) \ (Audience(r, a) \cup Audience(r - 1, a))
    BY <2>2
  <2> QED BY <2>1, <2>4, <2>5
<1> QED BY <1>2, <1>3, <1>4 DEF AudienceInv

LEMMA GrantDeploy ==
  ASSUME TypeOK, TargetInv, AudienceInv, NEW b \in Artifacts,
         DeployCreate(b) \/ DeployUpdate(b) \/ DeployRecreate(b) \/ DeployDelete(b)
  PROVE  AudienceInv'
<1> DEFINE new == minted[b] + 1
<1>1. /\ currentStage = "bundle_deploy" /\ todo' = todo \ {b} /\ b \in todo
      /\ UNCHANGED <<content, rel, passedOver, target, listed, acl, granted, busy, call, seen, currentStage>>
      /\ \A a \in Artifacts \ {b} : UNCHANGED <<live[a], managed[a], minted[a]>>
  BY DeployEffect DEF AudienceInv
<1>2. /\ live'[b] \subseteq live[b] \cup {new} /\ managed'[b] \in {0, managed[b], new} /\ minted'[b] >= minted[b]
      /\ new \in live'[b] \cup {managed'[b]} => minted'[b] = new
      /\ managed'[b] = managed[b] => managed[b] = 0 \/ managed[b] \in live[b]
      /\ b \notin Desired => managed'[b] = 0
  BY DeployEffect DEF AudienceInv
<1>3. \A a \in Artifacts : target[a] = 0
  BY <1>1 DEF TargetInv, Handled, AfterResolve, AfterAssert, AfterAudience, AfterCertify
<1>4. TypeOK'
  BY StepType DEF Next, AttemptStep, StageStep
<1>5. minted[b] \in Nat /\ minted'[b] \in Nat /\ \A i \in Ids : i \in Nat /\ i # 0
  BY Bounds, <1>4 DEF TypeOK, EstateType, Ids
<1>6. new \in Ids => granted[b][new] = {}
  BY <1>5 DEF AudienceInv, Numbered
<1>7. \A a \in Artifacts : live[a] \subseteq Ids /\ live'[a] \subseteq Ids
  BY <1>4 DEF TypeOK, EstateType
<1> HIDE DEF new
<1>8. Numbered'
  BY <1>1, <1>2, <1>3, <1>5 DEF AudienceInv, Numbered
<1>9. Known'
  BY <1>1, <1>2, <1>3, <1>5, <1>6, <1>7 DEF AudienceInv, Known
<1>10. Reached' /\ FreshRead'
  BY <1>1, <1>3 DEF Reached, FreshRead
<1>11. Retired'
  BY <1>1, <1>2, ReleaseFrame DEF AudienceInv, Retired, Handled, AfterBundle, AfterResolve, AfterAssert, AfterAudience, AfterCertify
<1>12. Bounded'
  <2> SUFFICES ASSUME NEW a \in Artifacts, managed'[a] \in live'[a]
               PROVE  LeftOver(a)' \subseteq Audience(rel, a) \cup passedOver[a] \cup Previous(a)
    BY <1>1, ReleaseFrame, PreviousFrame DEF Bounded, Replaced, Handled, AfterAudience, AfterCertify
  <2>1. managed'[a] \in Ids
    BY <1>7
  <2>2. CASE a = b /\ managed'[b] = new
    BY <1>1, <1>6, <2>1, <2>2 DEF LeftOver
  <2>3. CASE a # b \/ managed'[b] # new
    <3>1. managed'[a] = managed[a] /\ managed[a] \in live[a]
      BY <1>1, <1>2, <1>5, <2>1, <2>3
    <3> QED BY <1>1, <3>1 DEF AudienceInv, Bounded, LeftOver
  <2> QED BY <2>2, <2>3
<1> QED BY <1>8, <1>9, <1>10, <1>11, <1>12 DEF AudienceInv

\* Steps of one stage, but the reconciliation, that leave ACLs alone.
LEMMA GrantResolve ==
  ASSUME TypeOK, AudienceInv, NEW b \in Artifacts, Resolve(b)
  PROVE  AudienceInv'
<1>1. /\ currentStage = "resolve_space" /\ todo' = todo \ {b}
      /\ UNCHANGED <<content, rel, passedOver, currentStage, live, listed, managed, minted, acl, granted>>
  BY DEF Resolve, attempt, evidence, estate, history
<1>2. PICK id \in live[b] : listed[b] = {id} /\ target' = [target EXCEPT ![b] = id]
  BY DEF Resolve
<1>3. target'[b] = id /\ \A a \in Artifacts \ {b} : target'[a] = target[a]
  BY <1>2 DEF TypeOK, WorkType
<1>4. \A a \in Artifacts : live[a] \subseteq Ids
  BY DEF TypeOK, EstateType
<1>5. /\ Desired' = Desired
      /\ \A a \in Artifacts : Audience(rel, a)' = Audience(rel, a) /\ Previous(a)' = Previous(a)
  BY <1>1, ReleaseFrame, PreviousFrame
<1>6. Numbered' /\ Known'
  BY <1>1, <1>2, <1>3 DEF AudienceInv, Numbered, Known
<1>7. Reached'
  <2>1. managed[b] \in live[b] /\ granted[b][managed[b]] # {} => managed[b] = id
    BY <1>2, <1>4 DEF AudienceInv, Known
  <2> QED BY <1>1, <1>3, <2>1 DEF AudienceInv, Reached
<1>8. Retired' /\ FreshRead'
  BY <1>1, <1>5 DEF AudienceInv, Retired, FreshRead, Handled, AfterBundle
<1>9. Bounded'
  BY <1>1, <1>5 DEF AudienceInv, Bounded, LeftOver, Replaced, Handled, AfterAudience, AfterCertify
<1> QED BY <1>6, <1>7, <1>8, <1>9 DEF AudienceInv

LEMMA GrantAssertAppManage ==
  ASSUME TypeOK, AudienceInv, NEW b \in Artifacts, AssertAppManage(b)
  PROVE  AudienceInv'
<1>1. /\ currentStage = "assert_app_manage"
      /\ UNCHANGED <<content, rel, passedOver, currentStage, target, live, listed, managed, minted, granted>>
  BY DEF AssertAppManage, attempt, evidence
<1>2. /\ Desired' = Desired
      /\ \A a \in Artifacts : Audience(rel, a)' = Audience(rel, a) /\ Previous(a)' = Previous(a)
  BY <1>1, ReleaseFrame, PreviousFrame
<1>3. \A a \in Artifacts : \A i \in Ids : \A p \in People : acl'[a][i][p] = acl[a][i][p]
  <2>1. target[b] \in Ids
    BY DEF AssertAppManage, OnTarget, TypeOK, EstateType
  <2>2. acl' = [acl EXCEPT ![b][target[b]] =
                 [acl[b][target[b]] EXCEPT ![App] = IF AtLeast(@, CanManage) THEN @ ELSE CanManage]]
    BY DEF AssertAppManage
  <2>3. \A p \in People : p \in Principals /\ p # App
    BY AppIsNotDeclared DEF Principals
  <2> QED BY <2>1, <2>2, <2>3 DEF TypeOK, EstateType, Acl
<1>4. Numbered' /\ Known' /\ Reached'
  BY <1>1 DEF AudienceInv, Numbered, Known, Reached
<1>5. Retired' /\ FreshRead'
  BY <1>1, <1>2 DEF AudienceInv, Retired, FreshRead, Handled, AfterBundle, AfterResolve
<1>6. Bounded'
  <2> SUFFICES ASSUME NEW a \in Artifacts, managed[a] \in live[a]
               PROVE  LeftOver(a)' \subseteq Audience(rel, a) \cup passedOver[a] \cup Previous(a)
    BY <1>1, <1>2 DEF Bounded, Replaced, Handled, AfterAudience, AfterCertify
  <2>1. managed[a] \in Ids /\ granted[a][managed[a]] \subseteq People
    BY DEF TypeOK, EstateType
  <2>2. LeftOver(a)' = LeftOver(a)
    BY <1>1, <1>3, <2>1 DEF LeftOver
  <2> QED BY <2>2 DEF AudienceInv, Bounded
<1> QED BY <1>4, <1>5, <1>6 DEF AudienceInv

LEMMA GrantReadAcl ==
  ASSUME TypeOK, AudienceInv, NEW b \in Artifacts, ReadAcl(b)
  PROVE  AudienceInv'
<1>1. /\ currentStage = "reconcile_audience" /\ busy = None /\ b \in todo
      /\ busy' = b /\ call' = "set" /\ seen' = acl[b][target[b]]
      /\ UNCHANGED <<content, rel, passedOver, currentStage, todo, target, live, listed, managed, minted,
                     acl, granted>>
  BY DEF ReadAcl, attempt, evidence, estate, history
<1>2. /\ Desired' = Desired
      /\ \A a \in Artifacts : Audience(rel, a)' = Audience(rel, a) /\ Previous(a)' = Previous(a)
  BY <1>1, ReleaseFrame, PreviousFrame
<1>3. Numbered' /\ Known' /\ Reached' /\ Retired' /\ FreshRead'
  BY <1>1, <1>2 DEF AudienceInv, Numbered, Known, Reached, Retired, FreshRead, Handled
<1>4. Bounded'
  BY <1>1, <1>2, NoneIsNotAnArtifact DEF AudienceInv, Bounded, LeftOver, Replaced, Handled
<1> QED BY <1>3, <1>4 DEF AudienceInv

LEMMA GrantReadBackAcl ==
  ASSUME TypeOK, AudienceInv, NEW b \in Artifacts, ReadBackAcl(b)
  PROVE  AudienceInv'
<1>1. /\ currentStage = "reconcile_audience" /\ busy = b /\ call = "readback" /\ busy' = None
      /\ todo' = todo \ {b}
      /\ UNCHANGED <<content, rel, passedOver, currentStage, target, live, listed, managed, minted, acl, granted>>
  BY DEF ReadBackAcl, attempt, evidence, estate, history
<1>2. /\ Desired' = Desired
      /\ \A a \in Artifacts : Audience(rel, a)' = Audience(rel, a) /\ Previous(a)' = Previous(a)
  BY <1>1, ReleaseFrame, PreviousFrame
<1>3. Numbered' /\ Known' /\ Reached' /\ Retired' /\ FreshRead'
  BY <1>1, <1>2, NoneIsNotAnArtifact
  DEF AudienceInv, Numbered, Known, Reached, Retired, FreshRead, Handled, AfterBundle, AfterResolve, AfterAssert
<1>4. Bounded'
  BY <1>1, <1>2, NoneIsNotAnArtifact DEF AudienceInv, Bounded, LeftOver, Replaced, Handled
<1> QED BY <1>3, <1>4 DEF AudienceInv

\* The replacement takes the derived level from whoever only the previous AudienceSpec declares.
LEMMA GrantReplaceAcl ==
  ASSUME TypeOK, AudienceInv, NEW b \in Artifacts, ReplaceAcl(b)
  PROVE  AudienceInv'
<1> DEFINE new == DesiredAcl(seen, Audience(rel, b), Previous(b), LevelOf[b])
           held == (granted[b][target[b]] \cup {p \in Audience(rel, b) : ~AtLeast(seen[p], LevelOf[b])})
                      \cap {p \in People : new[p] # 0}
<1>1. /\ currentStage = "reconcile_audience" /\ busy = b /\ call = "set" /\ call' = "readback"
      /\ target[b] \in live[b]
      /\ UNCHANGED <<content, rel, passedOver, currentStage, todo, busy, target, live, listed, managed, minted>>
  BY DEF ReplaceAcl, OnTarget, attempt, evidence
<1>2. acl' = [acl EXCEPT ![b][target[b]] = new] /\ granted' = [granted EXCEPT ![b][target[b]] = held]
  BY DEF ReplaceAcl
<1>3. /\ Desired' = Desired
      /\ \A a \in Artifacts : Audience(rel, a)' = Audience(rel, a) /\ Previous(a)' = Previous(a)
  BY <1>1, ReleaseFrame, PreviousFrame
<1>4. target[b] \in Ids /\ \A i \in Ids : i # 0
  BY <1>1 DEF TypeOK, EstateType, Ids
<1>5. held \subseteq People /\ \A p \in held : p \in granted[b][target[b]] \/ p \in Audience(rel, b)
  OBVIOUS
<1>6. \A p \in People : /\ p \notin Audience(rel, b) /\ new[p] = LevelOf[b]
                        => seen[p] = LevelOf[b] /\ p \notin Previous(b)
  <2>1. LevelOf[b] # 0
    BY Bounds
  <2> QED BY <2>1 DEF DesiredAcl, Principals
<1> HIDE DEF new, held
<1>7. \A a \in Artifacts : \A i \in Ids :
        /\ acl'[a][i] = IF a = b /\ i = target[b] THEN new ELSE acl[a][i]
        /\ granted'[a][i] = IF a = b /\ i = target[b] THEN held ELSE granted[a][i]
  BY <1>2, <1>4 DEF TypeOK, EstateType
<1>8. Numbered'
  BY <1>1, <1>4, <1>7 DEF AudienceInv, Numbered
<1>9. Known'
  <2>1. \A a \in Artifacts : live[a] \subseteq Ids
    BY DEF TypeOK, EstateType
  <2> QED BY <1>1, <1>7, <2>1 DEF AudienceInv, Known
<1>10. Reached'
  <2>1. \A a \in Artifacts : live[a] \subseteq Ids
    BY DEF TypeOK, EstateType
  <2> QED BY <1>1, <1>7, <2>1 DEF AudienceInv, Reached
<1>11. Retired' /\ FreshRead'
  BY <1>1, <1>3 DEF AudienceInv, Retired, FreshRead, Handled, AfterBundle
<1>12. Bounded'
  <2> SUFFICES ASSUME NEW a \in Artifacts, managed[a] \in live[a]
               PROVE  LeftOver(a)' \subseteq
                        Audience(rel, a) \cup passedOver[a] \cup IF Replaced(a)' THEN {} ELSE Previous(a)
    BY <1>1, <1>3 DEF Bounded
  <2>1. managed[a] \in Ids
    BY DEF TypeOK, EstateType
  <2>2. CASE a # b
    <3>1. Replaced(a)' <=> Replaced(a)
      BY <1>1, <2>2 DEF Replaced, Handled
    <3>2. LeftOver(a)' = LeftOver(a)
      BY <1>1, <1>7, <2>1, <2>2 DEF LeftOver
    <3> QED BY <3>1, <3>2 DEF AudienceInv, Bounded
  <2>3. CASE a = b /\ target[b] # managed[b]
    BY <1>1, <1>4, <1>7, <2>1, <2>3 DEF AudienceInv, Reached, LeftOver
  <2>4. CASE a = b /\ target[b] = managed[b]
    <3> SUFFICES ASSUME NEW p \in held, new[p] = LevelOf[b], p \notin Audience(rel, b)
                 PROVE  p \in passedOver[b]
      BY <1>1, <1>7, <2>1, <2>4 DEF LeftOver
    <3>1. p \in granted[b][target[b]] /\ seen[p] = LevelOf[b] /\ p \notin Previous(b)
      BY <1>5, <1>6
    <3>2. seen[p] = acl[b][target[b]][p]
      BY <1>1, <1>4, <3>1 DEF AudienceInv, FreshRead
    <3>3. p \in LeftOver(b)
      BY <2>4, <3>1, <3>2 DEF LeftOver
    <3>4. LeftOver(b) \subseteq Audience(rel, b) \cup passedOver[b] \cup Previous(b)
      BY <2>4 DEF AudienceInv, Bounded
    <3> QED BY <3>1, <3>3, <3>4
  <2> QED BY <2>2, <2>3, <2>4
<1> QED BY <1>8, <1>9, <1>10, <1>11, <1>12 DEF AudienceInv

LEMMA GrantListing ==
  ASSUME TypeOK, AudienceInv, Listing
  PROVE  AudienceInv'
<1>1. PICK b \in Artifacts : ListingCatchesUp(b)
  BY DEF Listing
<1>2. /\ UNCHANGED <<content, rel, passedOver, currentStage, todo, busy, call, seen, target, live, managed,
                     minted, acl, granted>>
      /\ \A a \in Artifacts : listed'[a] = IF a = b THEN live[a] ELSE listed[a]
  BY <1>1 DEF ListingCatchesUp, attempt, evidence, working, history, TypeOK, EstateType
<1>3. /\ Desired' = Desired
      /\ \A a \in Artifacts : Audience(rel, a)' = Audience(rel, a) /\ Previous(a)' = Previous(a)
  BY <1>2, ReleaseFrame, PreviousFrame
<1>4. Numbered' /\ Known' /\ Reached' /\ Retired' /\ FreshRead'
  BY <1>2, <1>3 DEF AudienceInv, Numbered, Known, Reached, Retired, FreshRead, Handled
<1>5. Bounded'
  BY <1>2, <1>3 DEF AudienceInv, Bounded, LeftOver, Replaced, Handled
<1> QED BY <1>4, <1>5 DEF AudienceInv

\* A manual edit: resources go, new ones carry no grant of the app, and whose grant is edited no
\* longer holds it only through the app.
LEMMA GrantEdits ==
  ASSUME TypeOK, AudienceInv, Edits
  PROVE  AudienceInv'
<1>1. /\ UNCHANGED <<content, rel, passedOver, currentStage, todo, busy, call, seen, target, listed, managed>>
  BY DEF Edits, EditGrant, EditDelete, EditDuplicate, EditTag, Edit, attempt, evidence, working
<1>2. /\ Desired' = Desired
      /\ \A a \in Artifacts : Audience(rel, a)' = Audience(rel, a) /\ Previous(a)' = Previous(a)
  BY <1>1, ReleaseFrame, PreviousFrame
<1>3. Retired'
  BY <1>1, <1>2 DEF AudienceInv, Retired, Handled
<1>4. \A a \in Artifacts : /\ live[a] \subseteq Ids /\ minted[a] \in Nat
                           /\ \A i \in live[a] : i \in Nat /\ i # 0
  BY Bounds DEF TypeOK, EstateType, Ids
<1>5. CASE EditGrant
  <2>0. PICK b \in Artifacts :
          \E id \in live[b], q \in People, l \in {0, CanRead, CanRun, CanManage} :
            /\ l # acl[b][id][q]
            /\ acl' = [acl EXCEPT ![b][id][q] = l]
            /\ granted' = [granted EXCEPT ![b][id] = @ \ {q}]
    BY <1>5, Zenon DEF EditGrant
  <2>1. PICK id \in live[b], q \in People, l \in {0, CanRead, CanRun, CanManage} :
          /\ acl' = [acl EXCEPT ![b][id][q] = l]
          /\ granted' = [granted EXCEPT ![b][id] = @ \ {q}]
    BY <2>0
  <2>2. UNCHANGED <<live, minted>>
    BY <1>5 DEF EditGrant
  <2>3. \A a \in Artifacts : \A i \in Ids :
          /\ granted'[a][i] \subseteq granted[a][i]
          /\ \A p \in granted'[a][i] : acl'[a][i][p] = acl[a][i][p]
    <3>1. id \in Ids
      BY <1>4
    <3>2. acl' = [acl EXCEPT ![b][id] = [acl[b][id] EXCEPT ![q] = l]]
      BY <2>1
    <3>3. \A a \in Artifacts : \A i \in Ids :
            acl'[a][i] = IF a = b /\ i = id THEN [acl[b][id] EXCEPT ![q] = l] ELSE acl[a][i]
      BY <3>1, <3>2 DEF TypeOK, EstateType
    <3>4. \A p \in People \ {q} : [acl[b][id] EXCEPT ![q] = l][p] = acl[b][id][p]
      <4>1. acl[b][id] \in Acl
        BY <3>1 DEF TypeOK, EstateType
      <4> QED BY <4>1 DEF Acl, Principals
    <3>5. \A a \in Artifacts : \A i \in Ids :
            granted'[a][i] = IF a = b /\ i = id THEN granted[a][i] \ {q} ELSE granted[a][i]
      BY <2>1, <3>1 DEF TypeOK, EstateType
    <3>6. \A a \in Artifacts : \A i \in Ids : granted[a][i] \subseteq People
      BY DEF TypeOK, EstateType
    <3> QED BY <3>3, <3>4, <3>5, <3>6
  <2>4. Numbered' /\ Known' /\ Reached'
    BY <1>1, <1>4, <2>2, <2>3 DEF AudienceInv, Numbered, Known, Reached
  <2>5. FreshRead'
    <3>1. \A a \in Artifacts : target[a] # 0 => target[a] \in Ids
      BY DEF TypeOK, WorkType
    <3> QED BY <1>1, <2>3, <3>1 DEF AudienceInv, FreshRead
  <2>6. Bounded'
    <3>1. ASSUME NEW a \in Artifacts, managed[a] \in live[a] PROVE LeftOver(a)' \subseteq LeftOver(a)
      BY <1>1, <1>4, <2>3, <3>1 DEF LeftOver
    <3> QED BY <1>1, <1>2, <2>2, <3>1 DEF AudienceInv, Bounded, Replaced, Handled
  <2> QED BY <1>3, <2>4, <2>5, <2>6 DEF AudienceInv
<1>6. CASE EditDelete \/ EditTag
  <2>1. UNCHANGED <<minted, acl, granted>> /\ \A a \in Artifacts : live'[a] \subseteq live[a]
    BY <1>6 DEF EditDelete, EditTag, TypeOK, EstateType
  <2>2. Numbered' /\ Known' /\ Reached' /\ FreshRead'
    BY <1>1, <2>1 DEF AudienceInv, Numbered, Known, Reached, FreshRead
  <2>3. Bounded'
    BY <1>1, <1>2, <2>1 DEF AudienceInv, Bounded, LeftOver, Replaced, Handled
  <2> QED BY <1>3, <2>2, <2>3 DEF AudienceInv
<1>7. CASE EditDuplicate
  <2>1. PICK b \in Artifacts :
          /\ minted[b] < MaxId
          /\ minted' = [minted EXCEPT ![b] = @ + 1]
          /\ live' = [live EXCEPT ![b] = @ \cup {minted[b] + 1}]
    BY <1>7 DEF EditDuplicate
  <2>2. UNCHANGED <<acl, granted>>
    BY <1>7 DEF EditDuplicate
  <2>3. minted[b] + 1 \in Ids
    BY <2>1, Minting
  <2>4. \A a \in Artifacts :
          /\ minted'[a] = IF a = b THEN minted[a] + 1 ELSE minted[a]
          /\ live'[a] = IF a = b THEN live[a] \cup {minted[b] + 1} ELSE live[a]
    BY <2>1 DEF TypeOK, EstateType
  <2>5. /\ managed[b] # minted[b] + 1 /\ target[b] # minted[b] + 1 /\ granted[b][minted[b] + 1] = {}
    <3>1. \A i \in Ids : i = managed[b] \/ i = target[b] \/ granted[b][i] # {} => i <= minted[b]
      BY DEF AudienceInv, Numbered
    <3> QED BY <1>4, <2>3, <3>1
  <2>6. Numbered'
    <3> SUFFICES ASSUME NEW a \in Artifacts, NEW i \in Ids,
                        i \in live'[a] \cup listed[a] \cup {managed[a], target[a]} \/ granted[a][i] # {}
                 PROVE  i <= minted'[a]
      BY <1>1, <2>2 DEF Numbered
    <3>0. /\ i \in Int /\ minted[a] \in Int /\ minted[b] \in Int
          /\ minted'[a] = IF a = b THEN minted[a] + 1 ELSE minted[a]
      <4>1. minted[a] \in Nat /\ minted[b] \in Nat
        BY <1>4, Zenon
      <4>2. minted'[a] = IF a = b THEN minted[a] + 1 ELSE minted[a]
        BY <2>4, Zenon
      <4> QED BY <4>1, <4>2, Bounds DEF Ids
    <3>1. CASE i <= minted[a]
      BY <3>0, <3>1
    <3>2. CASE ~(i <= minted[a])
      <4>1. a = b /\ i = minted[b] + 1
        BY <2>4, <3>2 DEF AudienceInv, Numbered
      <4> QED BY <3>0, <4>1
    <3> QED BY <3>1, <3>2
  <2>7. Known'
    <3> SUFFICES ASSUME NEW a \in Artifacts, NEW i \in live'[a], granted[a][i] # {} \/ target[a] = i
                 PROVE  i \in live[a]
      BY <1>1, <2>2 DEF AudienceInv, Known
    <3> QED BY <2>4, <2>5
  <2>8. \A a \in Artifacts : managed[a] \in live'[a] => managed[a] \in live[a]
    BY <2>4, <2>5
  <2>9. Reached' /\ FreshRead'
    BY <1>1, <2>2, <2>8 DEF AudienceInv, Reached, FreshRead
  <2>10. Bounded'
    <3>1. \A a \in Artifacts : LeftOver(a)' = LeftOver(a) /\ (Replaced(a)' <=> Replaced(a))
      BY <1>1, <2>2 DEF LeftOver, Replaced, Handled
    <3> QED BY <1>1, <1>2, <2>8, <3>1 DEF AudienceInv, Bounded
  <2> QED BY <1>3, <2>6, <2>7, <2>9, <2>10 DEF AudienceInv
<1> QED BY <1>5, <1>6, <1>7 DEF Edits

LEMMA AudienceStep ==
  TypeOK /\ StageInv /\ TargetInv /\ AudienceInv /\ [Next]_vars => AudienceInv'
<1> SUFFICES ASSUME TypeOK, StageInv, TargetInv, AudienceInv, [Next]_vars PROVE AudienceInv'
  OBVIOUS
<1>1. CASE Preflight
  BY <1>1, GrantAdvance DEF Preflight, Successions, attempt, history
<1>2. CASE BundleDeployed \/ Resolved \/ AppManageAsserted \/ AudienceReconciled \/ LiveStateVerified
           \/ Certified
  BY <1>2, GrantAdvance DEF BundleDeployed, Resolved, AppManageAsserted,
     AudienceReconciled, LiveStateVerified, Certified, Successions, attempt, history
<1>3. CASE StartAttempt
  BY <1>3, GrantStartAttempt
<1>4. ASSUME NEW b \in Artifacts, DeployCreate(b) \/ DeployUpdate(b) \/ DeployRecreate(b) \/ DeployDelete(b)
      PROVE  AudienceInv'
  BY <1>4, GrantDeploy
<1>5. ASSUME NEW b \in Artifacts,
             Resolve(b) \/ AssertAppManage(b) \/ ReadAcl(b) \/ ReplaceAcl(b) \/ ReadBackAcl(b)
      PROVE  AudienceInv'
  BY <1>5, GrantResolve, GrantAssertAppManage, GrantReadAcl, GrantReplaceAcl, GrantReadBackAcl
<1>6. ASSUME NEW b \in Artifacts, Verify(b) \/ WriteTag(b) \/ ReadBackTag(b)
      PROVE  AudienceInv'
  BY <1>6, GrantFrame
  DEF Verify, WriteTag, ReadBackTag, attempt, evidence, estate, history, AfterAudience, AfterCertify
<1>7. CASE BeginMutation \/ Complete \/ PreflightFails \/ StageFails \/ RunnerLost \/ Merge
  BY <1>7, GrantFrame DEF BeginMutation, Complete, PreflightFails, StageFails, Fails, RunnerLost,
     Merge, attempt, evidence, working, estate, history
<1>8. CASE Listing \/ Edits
  BY <1>8, GrantListing, GrantEdits
<1>9. CASE UNCHANGED vars
  BY <1>9, GrantFrame DEF vars, attempt, evidence, working, estate, history
<1> QED BY <1>1, <1>2, <1>3, <1>4, <1>5, <1>6, <1>7, <1>8, <1>9 DEF Next, AttemptStep, StageStep

\* AudienceConverges: a successful deployment leaves the derived level, to whoever holds it only
\* because an earlier release declared them, to nobody but those some Attempt has passed over,
\* whatever releases were deployed in whatever order, re-run, failed or lost before, and whoever
\* edited production between the runs.
THEOREM AudienceIsTheDeclaredOne == Spec => []AudienceConverges
<1>1. TypeOK /\ StageInv /\ AudienceInv => AudienceConverges
  <2> SUFFICES ASSUME TypeOK, StageInv, AudienceInv, quiet, terminalState = "succeeded",
                      NEW a \in Desired, target[a] = managed[a]
               PROVE  LeftOver(a) \subseteq Audience(rel, a) \cup passedOver[a]
    BY DEF AudienceConverges, Lingering, LeftOver
  <2>1. a \in Artifacts /\ currentStage = "complete"
    BY DEF Desired, Declares, StageInv
  <2>2. managed[a] \in live[a] /\ Replaced(a)
    BY <2>1 DEF StageInv, ArtifactInv, InPlace, Handled, Replaced, AfterBundle, AfterResolve,
       AfterAssert, AfterAudience, AfterCertify
  <2> QED BY <2>1, <2>2 DEF AudienceInv, Bounded
<1> QED BY <1>1, StagesHold, TargetInit, TargetStep, AudienceInit, AudienceStep, PTL DEF Spec

=============================================================================
