--------------------------- MODULE MCDeployAttempt ---------------------------
(***************************************************************************)
(* Small instances of DeployAttempt: a Genie Space and a dashboard, two    *)
(* people.                                                                 *)
(***************************************************************************)
EXTENDS DeployAttempt

CONSTANTS space, dash, ana, bob

KindLevels == [a \in Artifacts |-> IF a = dash THEN CanRead ELSE CanRun]

\* Two releases that keep both artifacts, or retire the dashboard, or everything.
StageReleases ==
  {[a \in Artifacts |-> {ana}],
   [a \in Artifacts |-> IF a = dash THEN {} ELSE {ana}],
   [a \in Artifacts |-> {}]}

\* Every audience one artifact can have in two releases.
AudienceReleases == [Artifacts -> {{ana}, {bob}, {ana, bob}}]

\* Two releases that keep everything.
KeepingReleases == {[a \in Artifacts |-> {ana}], [a \in Artifacts |-> {ana, bob}]}

OneRelease == {[a \in Artifacts |-> {ana}]}

Opt(d, e) == [destructive |-> d, allowEmpty |-> e]

NoKeys   == {Opt(FALSE, FALSE)}
BothKeys == {Opt(TRUE, TRUE)}
SomeKeys == NoKeys \cup BothKeys

=============================================================================
