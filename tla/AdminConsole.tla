---------------------------- MODULE AdminConsole -----------------------------
(***************************************************************************)
(* The administration endpoints of engine_api over the three stores they   *)
(* change, statement by statement, on several replicas of the app: their   *)
(* start-up (migrations, seeding of the rules), the admin gate of every    *)
(* request, requests that overlap, statements that raise, processes that   *)
(* stop.                                                                   *)
(*                                                                         *)
(* A replica serves one request at a time here; two requests overlapping   *)
(* in one process differ in nothing from two in two.                       *)
(***************************************************************************)
EXTENDS RolesStore, RulesStore, PromptTemplateStore, SequencesExt

CONSTANTS
  Replicas,
  Overrides,    \* the rows an administrator may put over a handbook rule
  TypedIds,     \* the ids they type for custom rules
  CustomRows,   \* the rows of these
  MaxChanges,   \* bound: requests that pass the gate
  MaxFaults     \* bound: statements that raise and processes that stop

ASSUME BoundsAreNat == {MaxChanges, MaxFaults} \subseteq Nat

ASSUME TypedIdsAreRules == TypedIds \subseteq RuleIds

\* A row that an administrator writes is stored; the template is no rule.
ASSUME RowsAreStored ==
  /\ \A row \in Overrides \cup CustomRows : row.stored
  /\ "template" \notin RuleIds
  /\ IsFiniteSet(DOMAIN Handbook)

VARIABLES
  env,        \* APP_ADMINS
  pc, call,   \* of each replica: what it does next, and what it knows
  todo,       \* the rules a starting replica has yet to seed
  changes, faults,
  intended,   \* what the administrators last put over each rule (history)
  ledger,     \* the committed changes of each key, as they really were (history)
  raced,      \* rules whose last change was made while a replica had yet to seed them (history)
  muddled,    \* keys with overlapping or failed changes (history)
  revoked     \* people whose role was taken away and not given back (history)

history == <<intended, raced, ledger, muddled, revoked>>
vars == <<roles, rules, ruleEvents, template, templateEvents, env, pc, call, todo, changes, faults, history>>

Keys == RuleIds \cup {"template"}

NoCall == [op |-> None, by |-> None, key |-> None, new |-> NoRow, old |-> NoRow, seq |-> 0]

Admins == EffectiveEmails(env)

Trail(k) == IF k = "template" THEN templateEvents ELSE ruleEvents[k]

Goto(w, label) == pc' = [pc EXCEPT ![w] = label]

Init ==
  /\ env \in {{}} \cup {{p} : p \in People}
  /\ roles \in {{}} \cup {{Row(p, r)} : p \in People, r \in Roles \cup RetiredRoles}
  /\ rules = [r \in RuleIds |-> NoRow] /\ ruleEvents = [r \in RuleIds |-> <<>>]
  /\ template = Default /\ templateEvents = <<>>
  /\ pc = [w \in Replicas |-> "down"] /\ call = [w \in Replicas |-> NoCall]
  /\ todo = [w \in Replicas |-> <<>>]
  /\ changes = 0 /\ faults = 0
  /\ intended = rules /\ raced = {} /\ ledger = [k \in Keys |-> <<>>] /\ muddled = {} /\ revoked = {}

-----------------------------------------------------------------------------
(* Start-up: _lifespan.                                                    *)

BootRoles(w) ==
  /\ pc[w] = "down" /\ Goto(w, "migrate")
  /\ MigrateRoles
  /\ UNCHANGED <<rules, ruleEvents, template, templateEvents, env, call, todo, changes, faults, history>>

\* A request on a retired rule that is under way may lose its row.
BootRules(w) ==
  /\ pc[w] = "migrate" /\ Goto(w, "list")
  /\ MigrateRules
  /\ intended' = [r \in RuleIds |-> IF r \in RetiredRules THEN NoRow ELSE intended[r]]
  /\ muddled' = muddled \cup {r \in RetiredRules : \E q \in Replicas : call[q].key = r}
  /\ UNCHANGED <<roles, ruleEvents, template, templateEvents, env, call, todo, changes, faults, raced, ledger, revoked>>

\* Slip: seeds whatever the store holds.
ListForSeed_Always(w) ==
  /\ pc[w] = "list" /\ Goto(w, "seed")
  /\ todo' = [todo EXCEPT ![w] = SetToSeq(HandbookIds)]
  /\ UNCHANGED <<roles, rules, ruleEvents, template, templateEvents, env, call, changes, faults, history>>

ListForSeed(w) ==
  /\ pc[w] = "list"
  /\ IF Stored(rules) # {}
       THEN Goto(w, "up") /\ UNCHANGED todo
       ELSE Goto(w, "seed") /\ todo' = [todo EXCEPT ![w] = SetToSeq(HandbookIds)]
  /\ UNCHANGED <<roles, rules, ruleEvents, template, templateEvents, env, call, changes, faults, history>>

SeedOne(w) ==
  /\ pc[w] = "seed"
  /\ IF todo[w] = <<>>
       THEN Goto(w, "up") /\ UNCHANGED <<rules, todo>>
       ELSE /\ UpsertRule(Head(todo[w]), Seeded(Head(todo[w])))
            /\ todo' = [todo EXCEPT ![w] = Tail(@)]
            /\ UNCHANGED pc
  /\ muddled' = muddled \cup {r \in ToSet(todo[w]) : \E q \in Replicas : call[q].key = r}
  /\ UNCHANGED <<roles, ruleEvents, template, templateEvents, env, call, changes, faults, intended, raced, ledger, revoked>>

Boot(w) == BootRoles(w) \/ BootRules(w) \/ ListForSeed(w) \/ SeedOne(w)

-----------------------------------------------------------------------------
(* A request: the gate and the checks of its handler, then its statements. *)

\* _require_admin: only an effective administrator gets past it.
Accept(w, next, c) ==
  /\ pc[w] = "up" /\ changes < MaxChanges
  /\ c.by \in Admins
  /\ call' = [call EXCEPT ![w] = c] /\ Goto(w, next)
  /\ changes' = changes + 1
  /\ UNCHANGED <<roles, rules, ruleEvents, template, templateEvents, env, todo, faults, history>>

Ask(w, op, by, key, new, next) ==
  Accept(w, next, [NoCall EXCEPT !.op = op, !.by = by, !.key = key, !.new = new])

AssignRole(w) == \E by, p \in People : Ask(w, "assign", by, p, NoRow, "write")
RevokeRole(w) == \E by, p \in People : Ask(w, "revoke", by, p, NoRow, "read")

\* An override names a rule of the handbook and a custom rule does not, as the ids are typed: the
\* store strips them, so that a custom rule typed with a blank may still take a handbook id.
UpsertRuleCall(w) ==
  \E by \in People :
    \/ \E r \in HandbookIds, row \in Overrides : Ask(w, "set", by, r, row, "read")
    \/ \E r \in TypedIds, row \in CustomRows   : Ask(w, "set", by, r, row, "read")

ResetRule(w) == \E by \in People, r \in RuleIds : Ask(w, "reset", by, r, NoRow, "read")

SaveTemplate(w)  == \E by \in People, t \in Templates :
                      Ask(w, "set", by, "template", [NoRow EXCEPT !.stored = TRUE, !.text = t], "read")
ResetTemplate(w) == \E by \in People : Ask(w, "reset", by, "template", NoRow, "read")

Return(w) == Goto(w, "up") /\ call' = [call EXCEPT ![w] = NoCall]

\* The row of a key, as its store holds it.
Current(k) == IF k = "template" THEN [NoRow EXCEPT !.stored = (template # Default), !.text = template]
                                ELSE rules[k]

Active(k, w) == \E q \in Replicas \ {w} : call[q].key = k /\ call[q].op \in {"set", "reset"}

\* Slip: a reset does not look whether there is anything to reset.
Read_NoCheck(w) ==
  LET c == call[w] IN
  /\ pc[w] = "read" /\ c.op \in {"set", "reset"}
  /\ call' = [call EXCEPT ![w].old = Current(c.key)] /\ Goto(w, "write")
  /\ muddled' = IF Active(c.key, w) THEN muddled \cup {c.key} ELSE muddled
  /\ UNCHANGED <<roles, rules, ruleEvents, template, templateEvents, env, todo, changes, faults, intended, raced, ledger, revoked>>

\* upsert, reset, save and clear look first; a reset of nothing is over.
Read(w) ==
  LET c == call[w] IN
  /\ pc[w] = "read" /\ c.op \in {"set", "reset"}
  /\ IF c.op = "reset" /\ ~Current(c.key).stored
       THEN Return(w) /\ UNCHANGED muddled
       ELSE /\ call' = [call EXCEPT ![w].old = Current(c.key)] /\ Goto(w, "write")
            /\ muddled' = IF Active(c.key, w) THEN muddled \cup {c.key} ELSE muddled
  /\ UNCHANGED <<roles, rules, ruleEvents, template, templateEvents, env, todo, changes, faults, intended, raced, ledger, revoked>>

\* revoke lists the rows for its guard.
ListRoles(w) ==
  /\ pc[w] = "read" /\ call[w].op = "revoke"
  /\ IF LastAdmin(roles, call[w].key) THEN Return(w) ELSE Goto(w, "write") /\ UNCHANGED call
  /\ UNCHANGED <<roles, rules, ruleEvents, template, templateEvents, env, todo, changes, faults, history>>

WriteRole(w) ==
  LET p == call[w].key IN
  /\ pc[w] = "write"
  /\ \/ call[w].op = "assign" /\ UpsertRole(p) /\ revoked' = revoked \ {p}
     \/ call[w].op = "revoke" /\ DeleteRole(p)
        /\ revoked' = IF Row(p, "admin") \in roles THEN revoked \cup {p} ELSE revoked
  /\ Return(w)
  /\ UNCHANGED <<rules, ruleEvents, template, templateEvents, env, todo, changes, faults, intended, raced, ledger, muddled>>

\* The event that describes a change from old by c.
EventOf(c, old) ==
  IF c.key = "template"
    THEN LET before == IF old.stored THEN old.text ELSE Default IN
         IF c.op = "set" THEN SavedEvent(c.by, before, c.new.text) ELSE ClearedEvent(c.by, before)
    ELSE RuleEvent(IF c.op = "set" THEN UpsertEvent(old, c.new) ELSE ResetEvent(old), c.by)

\* The row changes and is committed; its event is another transaction.
WriteRow(w) ==
  LET c == call[w] IN
  /\ pc[w] = "write" /\ c.op \in {"set", "reset"}
  /\ IF c.key = "template"
       THEN /\ IF c.op = "set" THEN SetTemplate(c.new.text) ELSE ClearTemplate
            /\ UNCHANGED <<rules, intended, raced>>
       ELSE /\ IF c.op = "set" THEN UpsertRule(c.key, c.new) ELSE DeleteRule(c.key)
            /\ intended' = [intended EXCEPT ![c.key] = c.new]
            /\ raced' = IF \E q \in Replicas : c.key \in ToSet(todo[q]) THEN raced \cup {c.key}
                        ELSE raced \ {c.key}
            /\ UNCHANGED template
  /\ ledger' = IF c.op = "reset" /\ ~Current(c.key).stored THEN ledger
               ELSE [ledger EXCEPT ![c.key] = Append(@, EventOf(c, Current(c.key)))]
  /\ Goto(w, "select")
  /\ UNCHANGED <<roles, ruleEvents, templateEvents, env, call, todo, changes, faults, muddled, revoked>>

\* The insert sees the highest seq of its snapshot.
NextSeq(w) ==
  /\ pc[w] = "select" /\ Goto(w, "insert")
  /\ call' = [call EXCEPT ![w].seq = Len(Trail(call[w].key)) + 1]
  /\ UNCHANGED <<roles, rules, ruleEvents, template, templateEvents, env, todo, changes, faults, history>>

InsertEvent(w) ==
  LET c == call[w]
      e == EventOf(c, c.old) IN
  /\ pc[w] = "insert"
  /\ IF c.key = "template" THEN InsertTemplateEvent(c.seq, e) /\ UNCHANGED ruleEvents
                           ELSE InsertRuleEvent(c.key, c.seq, e) /\ UNCHANGED templateEvents
  /\ Return(w)
  /\ UNCHANGED <<roles, rules, template, env, todo, changes, faults, history>>

\* Another transaction has committed this seq: the request is an error, its row stays.
Collide(w) ==
  /\ pc[w] = "insert" /\ Len(Trail(call[w].key)) >= call[w].seq
  /\ muddled' = muddled \cup {call[w].key}
  /\ Return(w)
  /\ UNCHANGED <<roles, rules, ruleEvents, template, templateEvents, env, todo, changes, faults, intended, raced, ledger, revoked>>

Request(w) ==
  AssignRole(w) \/ RevokeRole(w) \/ UpsertRuleCall(w) \/ ResetRule(w) \/ SaveTemplate(w) \/ ResetTemplate(w)

Statement(w) ==
  Read(w) \/ ListRoles(w) \/ WriteRole(w) \/ WriteRow(w) \/ NextSeq(w) \/ InsertEvent(w) \/ Collide(w)

\* A statement raises, or the process stops: either way the request is gone, its commits stay.
Fault(w) ==
  /\ faults < MaxFaults /\ faults' = faults + 1
  /\ \/ pc[w] # "down" /\ Goto(w, "down")
     \/ call[w] # NoCall /\ Goto(w, "up")
  /\ call' = [call EXCEPT ![w] = NoCall] /\ todo' = [todo EXCEPT ![w] = <<>>]
  /\ muddled' = IF pc[w] \in {"select", "insert"} THEN muddled \cup {call[w].key} ELSE muddled
  /\ UNCHANGED <<roles, rules, ruleEvents, template, templateEvents, env, changes, intended, raced, ledger, revoked>>

Next == \E w \in Replicas : Boot(w) \/ Request(w) \/ Statement(w) \/ Fault(w)

Spec == Init /\ [][Next]_vars

-----------------------------------------------------------------------------
(* Properties.                                                             *)

TypeOK ==
  /\ RolesTypeOK /\ env \subseteq People /\ revoked \subseteq People
  /\ \A r \in RuleIds : rules[r].stored => rules[r].custom \/ r \in HandbookIds
  /\ \A w \in Replicas : call[w].key \in Keys \cup People \cup {None}
  /\ template \in Templates \cup {Default} /\ muddled \subseteq Keys /\ raced \subseteq HandbookIds
  /\ changes \in 0..MaxChanges /\ faults \in 0..MaxFaults

\* With an administrator in the environment, an app that serves has one: no sequence of
\* assignments and revocations, however they overlap, and no row of an earlier version of the app
\* locks everybody out (RolesStore.revoke, effective_emails, migrate).
AlwaysAnAdmin == env # {} /\ (\E w \in Replicas : pc[w] = "up") => Admins # {}

\* Somebody whose role was taken away is an administrator again only because the table has
\* become completely empty, which puts the environment back in force (effective_emails).
RevokedStaysOut == \A p \in revoked : p \in Admins => roles = {} /\ p \in env

\* The rows as the administrators last wrote them, but those that a seeding has written over.
Without(lost) == [r \in RuleIds |-> IF r \in lost THEN NoRow ELSE intended[r]]

SeenAs(rows) ==
  \A kind \in {"genie", "dashboard"} : EffectiveRules(rules, kind) = EffectiveRules(rows, kind)

\* What a review of either kind sees is what the administrators last wrote, whatever replicas have
\* started, seeded, stopped half way and seeded again since; only a change made while a replica
\* had yet to seed its rule may be lost, and then to the rule as the handbook has it
\* (seed_defaults, effective_rules).
EditsAreKept == \E lost \in SUBSET raced : SeenAs(Without(lost))

\* "so it never clobbers admin edits on a later boot, and a re-run (or a multi-replica startup
\* race) is a no-op" (seed_defaults, rules_store.py:163): no change is ever lost.
SeedNeverClobbers == SeenAs(intended)

\* The trail of a rule, or of the template, whose changes neither overlapped nor failed tells its
\* changes one by one: who, creation or update, deletion or reset, and for the template a chain
\* in which each text follows the one before (upsert, reset, save, _append_event).
TrailIsTheHistory ==
  \A k \in Keys \ muddled :
    \/ Trail(k) = ledger[k]
    \/ \E w \in Replicas : call[w].key = k /\ pc[w] \in {"select", "insert"} /\ Trail(k) = Front(ledger[k])
=============================================================================
