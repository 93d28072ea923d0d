----------------------------- MODULE RolesStore ------------------------------
(***************************************************************************)
(* roles_store.py: who administers the app.  One statement of the store is *)
(* one step; what a request does between two of them is AdminConsole's.    *)
(***************************************************************************)
EXTENDS FiniteSets

CONSTANT People

VARIABLE roles   \* rows of the table: [email, role]

Roles        == {"admin"}
RetiredRoles == {"steward"}   \* written by earlier versions of the app

Row(email, role) == [email |-> email, role |-> role]

RolesTypeOK == roles \subseteq [email : People, role : Roles \cup RetiredRoles]

Holders(rows) == {row.email : row \in {r \in rows : r.role = "admin"}}

\* Slip: the environment keeps its administrators once the store has some.
EffectiveEmails_Union(env) == Holders(roles) \cup env

\* effective_emails: the environment counts only while the store is completely empty.
EffectiveEmails(env) == IF roles = {} THEN env ELSE Holders(roles)

\* Slip: the rows of retired roles stay.
MigrateRoles_KeepsRetired == UNCHANGED roles

MigrateRoles == roles' = {row \in roles : row.role \in Roles}

Remaining(rows, email) == rows \ {Row(email, "admin")}

\* revoke's guard, on the rows it has listed.
LastAdmin(rows, email) ==
  /\ Row(email, "admin") \in rows
  /\ Remaining(rows, email) # {} /\ Holders(Remaining(rows, email)) = {}

UpsertRole(email) == roles' = roles \cup {Row(email, "admin")}
DeleteRole(email) == roles' = Remaining(roles, email)
=============================================================================
