-------------------------------- MODULE Authz --------------------------------
(***************************************************************************)
(* authz.py: may a verified identity use a resource of the other           *)
(* workspace?  An access-control list is a set of entries; what an         *)
(* unreadable one does is up to the caller: it denies.                     *)
(***************************************************************************)

\* What an entry's level is good for: reading a dashboard is using it, reading a Genie Space is not.
GenieLevels     == {"IS_OWNER", "CAN_MANAGE", "CAN_EDIT", "CAN_RUN"}
DashboardLevels == GenieLevels \cup {"CAN_READ"}

\* An unknown kind of object gets the narrowest set.
AccessLevels(kind) == IF kind = "dashboard" THEN DashboardLevels ELSE GenieLevels

Entry(principal, level) == [principal |-> principal, level |-> level]

Identity(user, groups) == [user |-> user, groups |-> groups]

\* assert_can_access: an entry of the user, or of one of their groups, with a sufficient level.
CanAccess(identity, acl, kind) ==
  \E entry \in acl : /\ entry.principal \in {identity.user} \cup identity.groups
                     /\ entry.level \in AccessLevels(kind)
=============================================================================
