----------------------------- MODULE AudienceAcl -----------------------------
(***************************************************************************)
(* The direct access-control list of one deployed resource and the pure    *)
(* functions of scripts/reconcile_audience.py over it.                     *)
(*                                                                         *)
(* A direct permission is its rank in _LEVEL_RANK; rank 0 is "no direct    *)
(* entry" (an inherited-only entry is invisible to the code too: it is     *)
(* skipped by desired_acl and reads back as None).  A principal is one     *)
(* case-folded name.                                                       *)
(***************************************************************************)
EXTENDS Integers

CONSTANTS
  People,   \* users and groups an AudienceSpec may declare
  App       \* the app's own service principal

ASSUME AppIsNotDeclared == App \notin People

Principals == People \cup {App}

Levels    == 0 .. 5
CanRead   == 1      \* the level derived for a dashboard's audience
CanRun    == 2      \* the level derived for a Genie Space's audience
CanManage == 4

Acl == [Principals -> Levels]

NoGrants == [p \in Principals |-> 0]

AtLeast(level, floor) == level >= floor

\* Slip: the replacement is built from the declared principals alone.
DesiredAcl_DeclaredOnly(current, desired, previous, level) ==
  [p \in Principals |->
     IF p \in desired THEN IF AtLeast(current[p], level) THEN current[p] ELSE level ELSE 0]

\* Slip: a principal that left the AudienceSpec goes whatever its grant is.
DesiredAcl_DropsAny(current, desired, previous, level) ==
  [p \in Principals |->
     IF p \in desired
       THEN IF AtLeast(current[p], level) THEN current[p] ELSE level
       ELSE IF p \in previous THEN 0 ELSE current[p]]

(***************************************************************************)
(* The complete replacement ACL: a declared principal keeps a stronger     *)
(* grant and is otherwise raised to the derived level; a principal that    *)
(* only the previous AudienceSpec declares goes, if its grant is exactly   *)
(* the derived one; every other entry is copied.                           *)
(***************************************************************************)
DesiredAcl(current, desired, previous, level) ==
  [p \in Principals |->
     IF p \in desired
       THEN IF AtLeast(current[p], level) THEN current[p] ELSE level
       ELSE IF p \in previous /\ current[p] = level THEN 0 ELSE current[p]]

\* The declared principals a readback does not find at the derived level.
Missing(acl, desired, level) == {p \in desired : ~AtLeast(acl[p], level)}

=============================================================================
