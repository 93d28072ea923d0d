------------------------- MODULE AdminConsoleProofs --------------------------
(***************************************************************************)
(* Who administers the app, and what becomes of the rules and of their     *)
(* trails, for any number of people, replicas, requests and faults, and    *)
(* with any environment.                                                   *)
(***************************************************************************)
EXTENDS AdminConsole, FiniteSetTheorems, TLAPS

\* Rows of roles that nothing knows any more are there only before the first start.
OnlyRoles == (\E w \in Replicas : pc[w] # "down") => \A row \in roles : row.role = "admin"

\* Who was revoked has no row.
RevokedHaveNoRow == \A p \in revoked : Row(p, "admin") \notin roles

RowsOfPeople == \A row \in roles : row = Row(row.email, row.role)

Labels == {"down", "migrate", "list", "seed", "up", "read", "write", "select", "insert"}

PcType == pc \in [Replicas -> Labels]

\* A replica that has stopped serves no request.
StoppedServesNothing ==
  /\ call = [w \in Replicas |-> call[w]]
  /\ \A w \in Replicas : pc[w] = "down" => call[w] = NoCall

AdminInv == PcType /\ StoppedServesNothing /\ RowsOfPeople /\ OnlyRoles /\ RevokedHaveNoRow

LEMMA AdminInit == Init => AdminInv
<1> SUFFICES ASSUME Init PROVE AdminInv
  OBVIOUS
<1>1. PcType /\ OnlyRoles /\ StoppedServesNothing
  BY DEF Init, PcType, Labels, OnlyRoles, StoppedServesNothing
<1>2. RevokedHaveNoRow
  BY DEF Init, RevokedHaveNoRow
<1>3. RowsOfPeople
  BY DEF Init, RowsOfPeople, Row
<1> QED BY <1>1, <1>2, <1>3 DEF AdminInv

\* A step of a replica that has started, which leaves the table of roles alone.
OffTheTable(w) ==
  /\ pc[w] # "down" /\ UNCHANGED <<roles, revoked>>
  /\ UNCHANGED pc \/ \E label \in Labels : pc' = [pc EXCEPT ![w] = label]
  /\ UNCHANGED call \/ \E c : call' = [call EXCEPT ![w] = c]
  /\ pc'[w] # "down" \/ call'[w] = NoCall

LEMMA OffTheTableKeeps ==
  ASSUME AdminInv, NEW w \in Replicas, OffTheTable(w)
  PROVE  AdminInv'
<1>1. PcType'
  BY DEF AdminInv, PcType, OffTheTable
<1>2. RowsOfPeople' /\ RevokedHaveNoRow'
  BY DEF AdminInv, RowsOfPeople, RevokedHaveNoRow, OffTheTable
<1>3. OnlyRoles'
  BY DEF AdminInv, OnlyRoles, OffTheTable
<1>4. \A v \in Replicas \ {w} : pc'[v] = pc[v] /\ call'[v] = call[v]
  BY DEF AdminInv, PcType, StoppedServesNothing, OffTheTable
<1>5. call' = [v \in Replicas |-> call'[v]]
  BY DEF AdminInv, StoppedServesNothing, OffTheTable
<1>6. StoppedServesNothing'
  BY <1>4, <1>5 DEF AdminInv, StoppedServesNothing, OffTheTable
<1> QED BY <1>1, <1>2, <1>3, <1>6 DEF AdminInv

\* Starting and statements.
LEMMA StatementsAreOff ==
  ASSUME AdminInv, NEW w \in Replicas,
         BootRules(w) \/ ListForSeed(w) \/ SeedOne(w) \/ Read(w) \/ ListRoles(w) \/ WriteRow(w)
           \/ NextSeq(w) \/ InsertEvent(w) \/ Collide(w)
  PROVE  OffTheTable(w)
<1>1. \A label : pc' = [pc EXCEPT ![w] = label] => pc'[w] = label
  BY DEF AdminInv, PcType
<1>2. {"list", "seed", "up", "write", "select", "insert"} \subseteq Labels
  BY DEF Labels
<1>3. CASE BootRules(w)
  BY <1>1, <1>2, <1>3 DEF BootRules, Goto, OffTheTable
<1>4. CASE ListForSeed(w)
  BY <1>1, <1>2, <1>4 DEF ListForSeed, Goto, history, OffTheTable
<1>5. CASE SeedOne(w)
  BY <1>1, <1>2, <1>5 DEF SeedOne, Goto, OffTheTable
<1>6. CASE Read(w)
  BY <1>1, <1>2, <1>6 DEF Read, Return, Goto, OffTheTable
<1>7. CASE ListRoles(w)
  BY <1>1, <1>2, <1>7 DEF ListRoles, Return, Goto, history, OffTheTable
<1>8. CASE WriteRow(w)
  BY <1>1, <1>2, <1>8 DEF WriteRow, Goto, OffTheTable
<1>9. CASE NextSeq(w)
  BY <1>1, <1>2, <1>9 DEF NextSeq, Goto, history, OffTheTable
<1>10. CASE InsertEvent(w)
  BY <1>1, <1>2, <1>10 DEF InsertEvent, Return, Goto, history, OffTheTable
<1>11. CASE Collide(w)
  BY <1>1, <1>2, <1>11 DEF Collide, Return, Goto, OffTheTable
<1> QED BY <1>3, <1>4, <1>5, <1>6, <1>7, <1>8, <1>9, <1>10, <1>11

\* A request that gets past the gate.
LEMMA RequestsAreOff ==
  ASSUME AdminInv, NEW w \in Replicas, Request(w)
  PROVE  OffTheTable(w)
<1>1. PICK next \in {"read", "write"} : \E c : Accept(w, next, c)
  BY DEF Request, AssignRole, RevokeRole, UpsertRuleCall, ResetRule, SaveTemplate, ResetTemplate, Ask
<1>2. pc' = [pc EXCEPT ![w] = next] /\ pc'[w] = next /\ next \in Labels
  BY <1>1 DEF Accept, Goto, AdminInv, PcType, Labels
<1> QED BY <1>1, <1>2 DEF Accept, history, OffTheTable

\* A statement raises, or the process stops.
LEMMA FaultsAreOff ==
  ASSUME AdminInv, NEW w \in Replicas, Fault(w)
  PROVE  OffTheTable(w)
<1>1. pc[w] # "down"
  BY DEF Fault, AdminInv, StoppedServesNothing
<1>2. call'[w] = NoCall /\ call' = [call EXCEPT ![w] = NoCall]
  BY DEF Fault, AdminInv, StoppedServesNothing
<1>3. \E label \in Labels : pc' = [pc EXCEPT ![w] = label]
  BY DEF Fault, Goto, Labels
<1>4. UNCHANGED <<roles, revoked>>
  BY DEF Fault
<1> QED BY <1>1, <1>2, <1>3, <1>4 DEF OffTheTable

LEMMA AdminStep == AdminInv /\ [Next]_vars => AdminInv'
<1> SUFFICES ASSUME AdminInv, [Next]_vars PROVE AdminInv'
  OBVIOUS
<1>1. ASSUME NEW w \in Replicas, BootRoles(w) PROVE AdminInv'
  <2>1. roles' = {row \in roles : row.role = "admin"} /\ UNCHANGED revoked /\ pc' = [pc EXCEPT ![w] = "migrate"]
    BY <1>1 DEF BootRoles, MigrateRoles, Roles, Goto, history
  <2>2. UNCHANGED call
    BY <1>1 DEF BootRoles
  <2> QED BY <2>1, <2>2 DEF AdminInv, PcType, Labels, RowsOfPeople, OnlyRoles, RevokedHaveNoRow,
                            StoppedServesNothing
<1>2. ASSUME NEW w \in Replicas, WriteRole(w) PROVE AdminInv'
  <2>1. PICK p : p = call[w].key
    OBVIOUS
  <2>2. pc[w] = "write" /\ pc' = [pc EXCEPT ![w] = "up"]
    BY <1>2 DEF WriteRole, Return, Goto
  <2>3. \/ roles' = roles \cup {Row(p, "admin")} /\ revoked' = revoked \ {p}
        \/ roles' = roles \ {Row(p, "admin")} /\ revoked' \subseteq revoked \cup {p}
    BY <1>2, <2>1 DEF WriteRole, UpsertRole, DeleteRole, Remaining
  <2>4. \A row \in roles : row.role = "admin"
    BY <2>2 DEF AdminInv, OnlyRoles
  <2>5. \A q : Row(q, "admin") = Row(p, "admin") => q = p
    BY DEF Row
  <2>6. Row(p, "admin").role = "admin" /\ Row(p, "admin") = Row(Row(p, "admin").email, Row(p, "admin").role)
    BY DEF Row
  <2>7. PcType'
    BY <2>2 DEF AdminInv, PcType, Labels
  <2>11. StoppedServesNothing'
    <3>1. call' = [call EXCEPT ![w] = NoCall]
      BY <1>2 DEF WriteRole, Return
    <3> QED BY <2>2, <3>1 DEF AdminInv, PcType, StoppedServesNothing
  <2>8. RowsOfPeople'
    BY <2>3, <2>6 DEF AdminInv, RowsOfPeople
  <2>9. OnlyRoles'
    BY <2>3, <2>4, <2>6 DEF OnlyRoles
  <2>10. RevokedHaveNoRow'
    BY <2>3, <2>5 DEF AdminInv, RevokedHaveNoRow
  <2> QED BY <2>7, <2>8, <2>9, <2>10, <2>11 DEF AdminInv
<1>3. ASSUME NEW w \in Replicas, Request(w) PROVE AdminInv'
  BY <1>3, RequestsAreOff, OffTheTableKeeps
<1>4. ASSUME NEW w \in Replicas, Fault(w) PROVE AdminInv'
  BY <1>4, FaultsAreOff, OffTheTableKeeps
<1>5. ASSUME NEW w \in Replicas, Boot(w) \/ Statement(w) PROVE AdminInv'
  BY <1>1, <1>2, <1>5, StatementsAreOff, OffTheTableKeeps DEF Boot, Statement
<1>7. CASE UNCHANGED vars
  BY <1>7 DEF vars, history, AdminInv, PcType, RowsOfPeople, OnlyRoles, RevokedHaveNoRow,
             StoppedServesNothing
<1> QED BY <1>3, <1>4, <1>5, <1>7 DEF Next

LEMMA AdminInvHolds == Spec => []AdminInv
BY AdminInit, AdminStep, PTL DEF Spec

\* With an administrator in the environment, an app that serves has one (effective_emails).
THEOREM SomebodyAdministers == Spec => []AlwaysAnAdmin
<1>1. AdminInv => AlwaysAnAdmin
  <2> SUFFICES ASSUME AdminInv, env # {}, NEW w \in Replicas, pc[w] = "up" PROVE Admins # {}
    BY DEF AlwaysAnAdmin
  <2>1. \A row \in roles : row.role = "admin"
    BY DEF AdminInv, OnlyRoles
  <2> QED BY <2>1 DEF Admins, EffectiveEmails, Holders
<1> QED BY <1>1, AdminInvHolds, PTL

\* Somebody revoked comes back only through an empty table (revoke, effective_emails).
THEOREM TheRevokedStayOut == Spec => []RevokedStaysOut
<1>1. AdminInv => RevokedStaysOut
  <2> SUFFICES ASSUME AdminInv, NEW p \in revoked, p \in Admins PROVE roles = {} /\ p \in env
    BY DEF RevokedStaysOut
  <2>1. CASE roles = {}
    BY <2>1 DEF Admins, EffectiveEmails
  <2>2. CASE roles # {}
    <3>1. PICK row \in roles : row.role = "admin" /\ p = row.email
      BY <2>2 DEF Admins, EffectiveEmails, Holders
    <3>2. row = Row(p, "admin")
      BY <3>1 DEF AdminInv, RowsOfPeople
    <3> QED BY <3>1, <3>2 DEF AdminInv, RevokedHaveNoRow
  <2> QED BY <2>1, <2>2
<1> QED BY <1>1, AdminInvHolds, PTL

-----------------------------------------------------------------------------
(* The rules, the template and their trails.                               *)

RuleRows == {NoRow} \cup Overrides \cup CustomRows \cup {Seeded(r) : r \in HandbookIds}
TemplateRow(stored, text) == [NoRow EXCEPT !.stored = stored, !.text = text]
TemplateRows == {TemplateRow(stored, text) : stored \in BOOLEAN, text \in Templates \cup {Default}}
AllRows == RuleRows \cup TemplateRows

Texts == Templates \cup {Default} \cup {row.text : row \in AllRows}
Callers == People \cup {None}

Events ==
  [type : {"rule_created", "rule_updated", "rule_deleted", "rule_reset"}, by : Callers]
    \cup [type : {"prompt_template_saved", "prompt_template_reset"}, by : Callers, before : Texts, after : Texts]

Calls == [op : {None, "assign", "revoke", "set", "reset"}, by : Callers, key : Keys \cup People \cup {None},
          new : AllRows, old : AllRows, seq : Nat]

Typed ==
  /\ pc \in [Replicas -> Labels] /\ call \in [Replicas -> Calls]
  /\ rules \in [RuleIds -> RuleRows] /\ intended \in [RuleIds -> RuleRows]
  /\ template \in Templates \cup {Default}
  /\ ruleEvents \in [RuleIds -> Seq(Events)] /\ templateEvents \in Seq(Events)
  /\ ledger \in [Keys -> Seq(Events)]
  /\ todo \in [Replicas -> Seq(HandbookIds)]

\* What a request on a row asks for.
Changes(w) == call[w].op \in {"set", "reset"}

Asked(w) ==
  /\ pc[w] \in {"select", "insert"} => Changes(w)
  /\ Changes(w) => call[w].key \in Keys
  /\ call[w].op = "reset" => call[w].new = NoRow
  /\ call[w].op = "set" /\ call[w].key = "template" => call[w].new.text \in Templates
  /\ call[w].op = "set" /\ call[w].key # "template" => call[w].new \in Overrides \cup CustomRows

\* A request on a key that has looked at its row, and one whose row is written and whose event is not.
Busy(w, k) == pc[w] \in {"write", "select", "insert"} /\ Changes(w) /\ call[w].key = k
Recording(w, k) == Busy(w, k) /\ pc[w] # "write"

\* One request at a time has looked at a row whose changes neither overlap nor fail: what it saw is
\* still there when it writes, and then its event is all that the trail lacks.
Faithful(k) ==
  /\ \A v, w \in Replicas : Busy(v, k) /\ Busy(w, k) => v = w
  /\ \A w \in Replicas : Busy(w, k) /\ pc[w] = "write" =>
       call[w].old = Current(k) /\ (call[w].op = "reset" => Current(k).stored)
  /\ \A w \in Replicas : Recording(w, k) => ledger[k] = Append(Trail(k), EventOf(call[w], call[w].old))
  /\ \A w \in Replicas : Busy(w, k) /\ pc[w] = "insert" => call[w].seq = Len(Trail(k)) + 1
  /\ (\A w \in Replicas : ~Recording(w, k)) => Trail(k) = ledger[k]

TrailInv ==
  /\ Typed
  /\ \A w \in Replicas : Asked(w)
  /\ \A k \in Keys \ muddled : Faithful(k)

\* What the store holds of a rule says what the administrators wrote, or is the handbook's where
\* they wrote nothing or wrote it beside a seeding; what a replica has yet to seed they have not
\* written, or wrote beside its seeding.
KeptRow(r) == \/ rules[r] = intended[r]
              \/ r \in HandbookIds /\ rules[r] = Seeded(r) /\ (intended[r] = NoRow \/ r \in raced)

Seeding == \A w \in Replicas : \A r \in ToSet(todo[w]) : intended[r] = NoRow \/ r \in raced

KeptInv == (\A r \in RuleIds : KeptRow(r)) /\ Seeding

-----------------------------------------------------------------------------
(* The trails.                                                             *)

LEMMA SeqOfSet == ASSUME NEW S, IsFiniteSet(S) PROVE SetToSeq(S) \in Seq(S)
<1>1. Cardinality(S) \in Nat /\ ExistsBijection(1..Cardinality(S), S)
  BY FS_CardinalityType
<1>2. \E f \in [1..Cardinality(S) -> S] : IsInjective(f)
  BY <1>1 DEF ExistsBijection, Bijection, Injection
<1>3. SetToSeq(S) \in [1..Cardinality(S) -> S]
  BY <1>2 DEF SetToSeq
<1> QED BY <1>1, <1>3

LEMMA RowsAreRows ==
  /\ NoRow \in RuleRows /\ \A r \in HandbookIds : Seeded(r) \in RuleRows
  /\ \A row \in AllRows : row.text \in Texts
  /\ \A t \in Templates \cup {Default} : t \in Texts
BY DEF RuleRows, AllRows, Texts

LEMMA CurrentIsRow == ASSUME Typed, NEW k \in Keys PROVE Current(k) \in AllRows
<1>1. CASE k = "template"
  <2> DEFINE stored == template # Default
  <2>1. Current(k) = TemplateRow(stored, template)
    BY <1>1 DEF Current, TemplateRow
  <2>2. stored \in BOOLEAN /\ template \in Templates \cup {Default}
    BY DEF Typed
  <2> HIDE DEF stored
  <2> QED BY <2>1, <2>2 DEF TemplateRows, AllRows
<1>2. CASE k # "template"
  BY <1>2 DEF Typed, Current, AllRows, Keys
<1> QED BY <1>1, <1>2

LEMMA EventsAreEvents ==
  ASSUME NEW c \in Calls, NEW old \in AllRows
  PROVE  EventOf(c, old) \in Events
<1>1. c.by \in Callers /\ c.new.text \in Texts /\ old.text \in Texts /\ Default \in Texts
  BY RowsAreRows DEF Calls
<1>2. CASE c.key = "template"
  <2> DEFINE before == IF old.stored THEN old.text ELSE Default
  <2>1. before \in Texts
    BY <1>1
  <2>2. EventOf(c, old) = IF c.op = "set" THEN SavedEvent(c.by, before, c.new.text) ELSE ClearedEvent(c.by, before)
    BY <1>2 DEF EventOf
  <2> HIDE DEF before
  <2> QED BY <1>1, <2>1, <2>2 DEF SavedEvent, ClearedEvent, Events
<1>3. CASE c.key # "template"
  <2>1. UpsertEvent(old, c.new) \in {"rule_created", "rule_updated"} /\ ResetEvent(old) \in {"rule_deleted", "rule_reset"}
    BY DEF UpsertEvent, ResetEvent
  <2>2. EventOf(c, old) = RuleEvent(IF c.op = "set" THEN UpsertEvent(old, c.new) ELSE ResetEvent(old), c.by)
    BY <1>3 DEF EventOf
  <2> QED BY <1>1, <2>1, <2>2 DEF RuleEvent, Events
<1> QED BY <1>2, <1>3

LEMMA TrailsAreSeqs ==
  ASSUME Typed, NEW k \in Keys
  PROVE  Trail(k) \in Seq(Events) /\ ledger[k] \in Seq(Events) /\ Len(Trail(k)) \in Nat
BY DEF Typed, Trail, Keys

LEMMA NoCallIsCall == NoCall \in Calls /\ NoCall.op = None /\ NoCall.key = None
BY RowsAreRows DEF NoCall, Calls, AllRows, Callers

LEMMA TrailInit == Init => TrailInv
<1> SUFFICES ASSUME Init PROVE TrailInv
  OBVIOUS
<1>1. Typed
  BY RowsAreRows, NoCallIsCall DEF Init, Typed, Labels
<1>2. \A w \in Replicas : pc[w] = "down" /\ call[w] = NoCall
  BY DEF Init
<1>3. \A w \in Replicas : Asked(w)
  BY <1>2, NoCallIsCall DEF Asked, Changes, None
<1>4. ASSUME NEW k \in Keys PROVE Faithful(k)
  <2>1. Trail(k) = <<>> /\ ledger[k] = <<>>
    BY DEF Init, Trail, Keys
  <2> QED BY <1>2, <2>1 DEF Faithful, Busy, Recording
<1> QED BY <1>1, <1>3, <1>4 DEF TrailInv

\* What a step of one replica leaves of the others.
Others(w) == \A v \in Replicas \ {w} : pc'[v] = pc[v] /\ call'[v] = call[v]

\* Nobody else is about to write what it has read of k, or it is still there.
Undisturbed(w, k) == Current(k)' = Current(k) \/ \A v \in Replicas \ {w} : call[v].key # k

LEMMA Elsewhere ==
  ASSUME TrailInv, NEW w \in Replicas, NEW k \in Keys \ muddled, Others(w), UNCHANGED <<Trail(k), ledger[k]>>,
         ~Recording(w, k), ~Busy(w, k)', Undisturbed(w, k)
  PROVE  Faithful(k)'
<1>1. Faithful(k)
  BY DEF TrailInv
<1>2. \A v \in Replicas : Busy(v, k)' => v # w /\ Busy(v, k) /\ pc'[v] = pc[v] /\ call'[v] = call[v]
  BY DEF Others, Busy, Changes
<1>3. \A v \in Replicas : Recording(v, k)' <=> Recording(v, k)
  BY <1>2 DEF Recording, Others, Busy, Changes
<1>4. \A v \in Replicas : Busy(v, k) => call[v].key = k
  BY DEF Busy
<1>5. \A v \in Replicas : Busy(v, k)' /\ pc'[v] = "write" => Current(k)' = Current(k)
  BY <1>2, <1>4 DEF Undisturbed
<1>6. \A v \in Replicas : Recording(v, k) => Busy(v, k)
  BY DEF Recording
<1>7. \A v, u \in Replicas : Busy(v, k)' /\ Busy(u, k)' => v = u
  BY <1>1, <1>2 DEF Faithful
<1>8. \A v \in Replicas : Busy(v, k)' /\ pc'[v] = "write" =>
        call'[v].old = Current(k)' /\ (call'[v].op = "reset" => Current(k)'.stored)
  BY <1>1, <1>2, <1>5 DEF Faithful
<1>9. \A v \in Replicas : Recording(v, k)' => ledger'[k] = Append(Trail(k)', EventOf(call'[v], call'[v].old))
  BY <1>1, <1>2, <1>3, <1>6 DEF Faithful, Recording
<1>10. \A v \in Replicas : Busy(v, k)' /\ pc'[v] = "insert" => call'[v].seq = Len(Trail(k)') + 1
  BY <1>1, <1>2 DEF Faithful
<1>11. (\A v \in Replicas : ~Recording(v, k)') => Trail(k)' = ledger'[k]
  BY <1>1, <1>3 DEF Faithful
<1> QED BY <1>7, <1>8, <1>9, <1>10, <1>11 DEF Faithful

\* A step in which its replica touches no trail, and has looked at no row when it is over.
LEMMA QuietStep ==
  ASSUME TrailInv, NEW w \in Replicas, Others(w), Typed', Asked(w)',
         UNCHANGED <<ruleEvents, templateEvents, ledger>>, muddled \subseteq muddled',
         \A k \in Keys \ muddled' : ~Recording(w, k) /\ ~Busy(w, k)' /\ Undisturbed(w, k)
  PROVE  TrailInv'
<1>1. \A v \in Replicas : Asked(v)'
  BY DEF TrailInv, Others, Asked, Changes
<1>2. ASSUME NEW k \in Keys \ muddled' PROVE Faithful(k)'
  BY <1>2, Elsewhere DEF Trail
<1> QED BY <1>1, <1>2 DEF TrailInv

\* Steps of a replica on its label and its call.
LEMMA Moved ==
  ASSUME Typed, NEW w \in Replicas, NEW label \in Labels, Goto(w, label)
  PROVE  pc'[w] = label /\ pc' \in [Replicas -> Labels] /\ \A v \in Replicas \ {w} : pc'[v] = pc[v]
BY DEF Typed, Goto

LEMMA Called ==
  ASSUME Typed, NEW w \in Replicas, NEW c \in Calls, call' = [call EXCEPT ![w] = c]
  PROVE  call'[w] = c /\ call' \in [Replicas -> Calls] /\ \A v \in Replicas \ {w} : call'[v] = call[v]
BY DEF Typed

LEMMA Returned ==
  ASSUME Typed, NEW w \in Replicas, Return(w)
  PROVE  /\ pc'[w] = "up" /\ call'[w] = NoCall /\ Others(w) /\ Asked(w)'
         /\ pc' \in [Replicas -> Labels] /\ call' \in [Replicas -> Calls]
         /\ \A k : ~Busy(w, k)'
<1>1. "up" \in Labels
  BY DEF Labels
<1>2. /\ pc'[w] = "up" /\ pc' \in [Replicas -> Labels] /\ call'[w] = NoCall /\ call' \in [Replicas -> Calls]
      /\ Others(w)
  BY <1>1, Moved, Called, NoCallIsCall DEF Return, Others
<1> QED BY <1>2, NoCallIsCall DEF Asked, Busy, Changes, None

LEMMA BootQuiet == ASSUME TrailInv, NEW w \in Replicas, Boot(w) PROVE TrailInv'
<1>1. Typed /\ Asked(w)
  BY DEF TrailInv
<1>2. PICK label \in {"migrate", "list", "seed", "up"} : pc'[w] = label /\ pc' \in [Replicas -> Labels]
                                                      /\ \A v \in Replicas \ {w} : pc'[v] = pc[v]
  <2>1. \E label \in {"migrate", "list", "seed", "up"} : Goto(w, label)
    BY <1>1 DEF Boot, BootRoles, BootRules, ListForSeed, SeedOne, Goto, Typed
  <2>2. {"migrate", "list", "seed", "up"} \subseteq Labels
    BY DEF Labels
  <2> QED BY <1>1, <2>1, <2>2, Moved
<1>3. /\ pc[w] \in {"down", "migrate", "list", "seed"}
      /\ UNCHANGED <<call, template, ruleEvents, templateEvents, ledger>> /\ muddled \subseteq muddled'
  BY DEF Boot, BootRoles, BootRules, ListForSeed, SeedOne, history
<1>4. Others(w) /\ Asked(w)'
  BY <1>1, <1>2, <1>3 DEF Others, Asked, Changes
<1>5. \A k : ~Recording(w, k) /\ ~Busy(w, k)'
  BY <1>2, <1>3 DEF Recording, Busy
<1>6. rules' \in [RuleIds -> RuleRows] /\ intended' \in [RuleIds -> RuleRows] /\ todo' \in [Replicas -> Seq(HandbookIds)]
  <2>1. CASE BootRoles(w)
    BY <1>1, <2>1 DEF BootRoles, history, Typed
  <2>2. CASE BootRules(w)
    BY <1>1, <2>2, RowsAreRows DEF BootRules, MigrateRules, Typed
  <2>3. CASE ListForSeed(w)
    <3>1. SetToSeq(HandbookIds) \in Seq(HandbookIds)
      BY SeqOfSet, RowsAreStored DEF HandbookIds
    <3> QED BY <1>1, <2>3, <3>1 DEF ListForSeed, history, Typed
  <2>4. CASE SeedOne(w)
    <3>1. todo[w] \in Seq(HandbookIds) /\ UNCHANGED intended
      BY <1>1, <2>4 DEF SeedOne, Typed
    <3>2. CASE todo[w] = <<>>
      BY <1>1, <2>4, <3>1, <3>2 DEF SeedOne, Typed
    <3>3. CASE todo[w] # <<>>
      <4>1. Head(todo[w]) \in HandbookIds /\ Tail(todo[w]) \in Seq(HandbookIds)
        BY <3>1, <3>3
      <4>2. Seeded(Head(todo[w])) \in RuleRows
        BY <4>1, RowsAreRows
      <4> QED BY <1>1, <2>4, <3>1, <3>3, <4>1, <4>2 DEF SeedOne, UpsertRule, Typed
    <3> QED BY <3>2, <3>3
  <2> QED BY <2>1, <2>2, <2>3, <2>4 DEF Boot
<1>7. Typed'
  BY <1>1, <1>2, <1>3, <1>6 DEF Typed
<1>8. ASSUME NEW k \in Keys \ muddled' PROVE Undisturbed(w, k)
  <2>1. CASE k = "template"
    BY <1>3, <2>1 DEF Undisturbed, Current
  <2>2. CASE k # "template" /\ UNCHANGED rules
    BY <2>2 DEF Undisturbed, Current
  <2>3. CASE k # "template" /\ BootRules(w)
    <3>1. k \in RuleIds
      BY <2>3 DEF Keys
    <3>2. k \in RetiredRules => \A v \in Replicas : call[v].key # k
      BY <1>8, <2>3 DEF BootRules
    <3>3. k \notin RetiredRules => rules'[k] = rules[k]
      BY <2>3, <3>1 DEF BootRules, MigrateRules
    <3> QED BY <2>3, <3>2, <3>3 DEF Undisturbed, Current
  <2>4. CASE k # "template" /\ SeedOne(w) /\ todo[w] # <<>>
    <3>1. rules' = [rules EXCEPT ![Head(todo[w])] = Seeded(Head(todo[w]))]
      BY <2>4 DEF SeedOne, UpsertRule
    <3>2. k # Head(todo[w]) => rules'[k] = rules[k]
      BY <1>1, <2>4, <3>1 DEF Typed, Keys
    <3>3. Head(todo[w]) \in ToSet(todo[w])
      <4>1. todo[w] \in Seq(HandbookIds)
        BY <1>1 DEF Typed
      <4>2. 1 \in DOMAIN todo[w] /\ Head(todo[w]) = todo[w][1]
        BY <2>4, <4>1
      <4> QED BY <4>2 DEF ToSet
    <3>4. k \in ToSet(todo[w]) => \A v \in Replicas : call[v].key # k
      BY <1>8, <2>4 DEF SeedOne
    <3> QED BY <2>4, <3>2, <3>3, <3>4 DEF Undisturbed, Current
  <2> QED BY <2>1, <2>2, <2>3, <2>4 DEF Boot, BootRoles, ListForSeed, SeedOne
<1> QED BY <1>3, <1>4, <1>5, <1>7, <1>8, QuietStep

\* A call as its request makes it.
Fresh(op, by, key, new) == [NoCall EXCEPT !.op = op, !.by = by, !.key = key, !.new = new]

LEMMA FreshCall ==
  ASSUME NEW op \in {"assign", "revoke", "set", "reset"}, NEW by \in People, NEW key \in Keys \cup People,
         NEW new \in AllRows
  PROVE  /\ Fresh(op, by, key, new) \in Calls
         /\ Fresh(op, by, key, new).op = op /\ Fresh(op, by, key, new).key = key
         /\ Fresh(op, by, key, new).new = new
<1>1. NoRow \in AllRows
  BY RowsAreRows DEF AllRows
<1> QED BY <1>1 DEF Fresh, NoCall, Calls, Callers

LEMMA SavedRow ==
  ASSUME NEW t \in Templates
  PROVE  TemplateRow(TRUE, t) \in AllRows /\ TemplateRow(TRUE, t).text = t
<1> DEFINE stored == TRUE
<1>1. stored \in BOOLEAN /\ t \in Templates \cup {Default}
  OBVIOUS
<1>2. TemplateRow(stored, t).text = t
  BY DEF TemplateRow, NoRow
<1> HIDE DEF stored
<1>3. TemplateRow(stored, t) \in TemplateRows
  BY <1>1 DEF TemplateRows
<1> QED BY <1>2, <1>3 DEF AllRows, stored

\* A request as it passes the gate.
LEMMA AskQuiet == ASSUME TrailInv, NEW w \in Replicas, Request(w) PROVE TrailInv'
<1>1. Typed /\ Asked(w)
  BY DEF TrailInv
<1>2. NoRow \in AllRows
  BY RowsAreRows DEF AllRows
<1>3. \A op, by, key, new, next : Ask(w, op, by, key, new, next) <=> Accept(w, next, Fresh(op, by, key, new))
  BY DEF Ask, Fresh
<1>4. PICK c \in Calls, next \in {"read", "write"} :
        /\ Accept(w, next, c)
        /\ next = "write" => c.op = "assign"
        /\ c.op \in {"set", "reset"} => c.key \in Keys
        /\ c.op = "reset" => c.new = NoRow
        /\ c.op = "set" /\ c.key = "template" => c.new.text \in Templates
        /\ c.op = "set" /\ c.key # "template" => c.new \in Overrides \cup CustomRows
  <2>1. CASE AssignRole(w)
    <3>1. PICK by \in People, p \in People : Ask(w, "assign", by, p, NoRow, "write")
      BY <2>1 DEF AssignRole
    <3>2. Accept(w, "write", Fresh("assign", by, p, NoRow))
      BY <1>3, <3>1
    <3> QED BY <1>2, <3>2, FreshCall
  <2>2. CASE RevokeRole(w)
    <3>1. PICK by \in People, p \in People : Ask(w, "revoke", by, p, NoRow, "read")
      BY <2>2 DEF RevokeRole
    <3>2. Accept(w, "read", Fresh("revoke", by, p, NoRow))
      BY <1>3, <3>1
    <3> QED BY <1>2, <3>2, FreshCall
  <2>3. CASE UpsertRuleCall(w)
    <3>1. PICK by \in People, k \in RuleIds, row \in Overrides \cup CustomRows : Ask(w, "set", by, k, row, "read")
      BY <2>3, HandbookIsSane, TypedIdsAreRules DEF UpsertRuleCall, HandbookIds
    <3>2. Accept(w, "read", Fresh("set", by, k, row))
      BY <1>3, <3>1
    <3>3. k # "template" /\ row \in AllRows
      BY RowsAreStored DEF AllRows, RuleRows
    <3> QED BY <3>2, <3>3, FreshCall DEF Keys
  <2>4. CASE ResetRule(w) \/ ResetTemplate(w)
    <3>1. PICK by \in People, k \in Keys : Ask(w, "reset", by, k, NoRow, "read")
      BY <2>4 DEF ResetRule, ResetTemplate, Keys
    <3>2. Accept(w, "read", Fresh("reset", by, k, NoRow))
      BY <1>3, <3>1
    <3> QED BY <1>2, <3>2, FreshCall
  <2>5. CASE SaveTemplate(w)
    <3>1. PICK by \in People, t \in Templates : Ask(w, "set", by, "template", TemplateRow(TRUE, t), "read")
      BY <2>5 DEF SaveTemplate, TemplateRow
    <3>2. Accept(w, "read", Fresh("set", by, "template", TemplateRow(TRUE, t)))
      BY <1>3, <3>1
    <3> DEFINE row == TemplateRow(TRUE, t)
    <3>3. row \in AllRows /\ row.text = t
      BY SavedRow
    <3> HIDE DEF row
    <3>4. /\ Fresh("set", by, "template", row) \in Calls
          /\ Fresh("set", by, "template", row).op = "set" /\ Fresh("set", by, "template", row).key = "template"
          /\ Fresh("set", by, "template", row).new = row
      BY <3>3, FreshCall DEF Keys
    <3>5. Accept(w, "read", Fresh("set", by, "template", row))
      BY <3>2 DEF row
    <3> QED BY <3>3, <3>4, <3>5 DEF Keys
  <2> QED BY <2>1, <2>2, <2>3, <2>4, <2>5 DEF Request
<1>5. /\ pc[w] = "up" /\ pc'[w] = next /\ call'[w] = c /\ Others(w)
      /\ pc' \in [Replicas -> Labels] /\ call' \in [Replicas -> Calls]
      /\ UNCHANGED <<rules, ruleEvents, template, templateEvents, todo, intended, ledger, muddled>>
  <2>1. Goto(w, next) /\ call' = [call EXCEPT ![w] = c] /\ pc[w] = "up"
        /\ UNCHANGED <<rules, ruleEvents, template, templateEvents, todo, intended, ledger, muddled>>
    BY <1>4 DEF Accept, history
  <2>2. next \in Labels
    BY DEF Labels
  <2> QED BY <1>1, <2>1, <2>2, Moved, Called DEF Others
<1>6. Typed'
  BY <1>1, <1>5 DEF Typed
<1>7. Asked(w)' /\ \A k : ~Recording(w, k) /\ ~Busy(w, k)'
  BY <1>4, <1>5 DEF Asked, Changes, Recording, Busy
<1>8. \A k : Undisturbed(w, k)
  BY <1>5 DEF Undisturbed, Current
<1> QED BY <1>5, <1>6, <1>7, <1>8, QuietStep

\* A request that is over without having written.
LEMMA Ended ==
  ASSUME TrailInv, NEW w \in Replicas, Return(w), UNCHANGED <<rules, ruleEvents, template, templateEvents, todo, intended, ledger>>,
         muddled \subseteq muddled', pc[w] \in {"select", "insert"} => call[w].key \in muddled'
  PROVE  TrailInv'
<1>1. Typed
  BY DEF TrailInv
<1>2. Others(w) /\ Asked(w)' /\ pc' \in [Replicas -> Labels] /\ call' \in [Replicas -> Calls] /\ \A k : ~Busy(w, k)'
  BY <1>1, Returned
<1>3. Typed'
  BY <1>1, <1>2 DEF Typed
<1>4. \A k \in Keys \ muddled' : ~Recording(w, k) /\ Undisturbed(w, k)
  BY DEF Recording, Busy, Undisturbed, Current
<1> QED BY <1>2, <1>3, <1>4, QuietStep

LEMMA ReadStep == ASSUME TrailInv, NEW w \in Replicas, Read(w) PROVE TrailInv'
<1>1. Typed /\ Asked(w)
  BY DEF TrailInv
<1> DEFINE c == call[w]
           reading == ~(c.op = "reset" /\ ~Current(c.key).stored)
<1>2. CASE ~reading
  BY <1>2, Ended DEF Read
<1>3. CASE reading
  <2>1. /\ pc[w] = "read" /\ Changes(w) /\ Goto(w, "write")
        /\ call' = [call EXCEPT ![w].old = Current(c.key)]
        /\ muddled' = IF Active(c.key, w) THEN muddled \cup {c.key} ELSE muddled
        /\ UNCHANGED <<rules, ruleEvents, template, templateEvents, todo, intended, ledger>>
    BY <1>3 DEF Read, Changes
  <2>2. c \in Calls /\ c.key \in Keys
    BY <1>1, <2>1 DEF Typed, Asked
  <2>3. Current(c.key) \in AllRows
    BY <1>1, <2>2, CurrentIsRow
  <2>4. [c EXCEPT !.old = Current(c.key)] \in Calls
    BY <2>2, <2>3 DEF Calls
  <2>5. /\ call'[w].op = c.op /\ call'[w].key = c.key /\ call'[w].new = c.new /\ call'[w].old = Current(c.key)
        /\ call' \in [Replicas -> Calls] /\ \A v \in Replicas \ {w} : call'[v] = call[v]
    <3>1. call' = [call EXCEPT ![w] = [c EXCEPT !.old = Current(c.key)]]
      BY <2>1
    <3>2. /\ call'[w] = [c EXCEPT !.old = Current(c.key)] /\ call' \in [Replicas -> Calls]
          /\ \A v \in Replicas \ {w} : call'[v] = call[v]
      BY <1>1, <2>4, <3>1, Called
    <3> QED BY <2>2, <3>2 DEF Calls
  <2>6. pc'[w] = "write" /\ pc' \in [Replicas -> Labels] /\ Others(w)
    <3>1. "write" \in Labels
      BY DEF Labels
    <3> QED BY <1>1, <2>1, <2>5, <3>1, Moved DEF Others
  <2>7. Typed'
    BY <1>1, <2>1, <2>5, <2>6 DEF Typed
  <2>8. \A v \in Replicas : Asked(v)'
    BY <2>5, <2>6 DEF TrailInv, Others, Asked, Changes
  <2>9. \A k : Current(k)' = Current(k) /\ Trail(k)' = Trail(k)
    BY <2>1 DEF Current, Trail
  <2>10. ASSUME NEW k \in Keys \ muddled', k # c.key PROVE Faithful(k)'
    <3>1. ~Recording(w, k) /\ ~Busy(w, k)' /\ Undisturbed(w, k)
      BY <2>5, <2>9, <2>10 DEF Recording, Busy, Undisturbed
    <3>2. k \in Keys \ muddled
      BY <2>1, <2>10
    <3> QED BY <2>1, <2>6, <2>9, <3>1, <3>2, Elsewhere
  <2>11. ASSUME c.key \notin muddled' PROVE Faithful(c.key)'
    <3> DEFINE k == c.key
    <3>1. k \in Keys \ muddled /\ ~Active(k, w)
      BY <2>1, <2>2, <2>11
    <3>2. \A v \in Replicas \ {w} : ~Busy(v, k)
      BY <3>1 DEF Active, Busy, Changes
    <3>3. ~Busy(w, k)
      BY <2>1 DEF Busy
    <3>4. \A v \in Replicas : Busy(v, k)' => v = w
      BY <2>6, <3>2, <2>5 DEF Others, Busy, Changes
    <3>5. \A v \in Replicas : ~Recording(v, k)'
      BY <3>4, <2>6 DEF Recording
    <3>6. Trail(k) = ledger[k]
      BY <3>1, <3>2, <3>3 DEF TrailInv, Faithful, Recording
    <3>7. Trail(k)' = ledger'[k]
      BY <2>1, <2>9, <3>6
    <3>8. call'[w].old = Current(k)' /\ (call'[w].op = "reset" => Current(k)'.stored)
      BY <1>3, <2>5, <2>9
    <3>9. \A v \in Replicas : Busy(v, k)' /\ pc'[v] = "write" =>
            call'[v].old = Current(k)' /\ (call'[v].op = "reset" => Current(k)'.stored)
      BY <3>4, <3>8
    <3>10. \A v \in Replicas : Busy(v, k)' /\ pc'[v] = "insert" => call'[v].seq = Len(Trail(k)') + 1
      BY <3>4, <2>6
    <3>11. \A v, u \in Replicas : Busy(v, k)' /\ Busy(u, k)' => v = u
      BY <3>4
    <3>12. k' = k
      BY <2>5
    <3> HIDE DEF k
    <3>13. /\ \A v \in Replicas : Recording(v, k)' => ledger'[k] = Append(Trail(k)', EventOf(call'[v], call'[v].old))
           /\ (\A v \in Replicas : ~Recording(v, k)') => Trail(k)' = ledger'[k]
      BY <3>5, <3>7
    <3>14. /\ \A v, u \in Replicas : Busy(v, k)' /\ Busy(u, k)' => v = u
           /\ \A v \in Replicas : Busy(v, k)' /\ pc'[v] = "write" =>
                call'[v].old = Current(k)' /\ (call'[v].op = "reset" => Current(k)'.stored)
           /\ \A v \in Replicas : Busy(v, k)' /\ pc'[v] = "insert" => call'[v].seq = Len(Trail(k)') + 1
      BY <3>9, <3>10, <3>11
    <3> QED BY <3>12, <3>13, <3>14 DEF Faithful, k
  <2>12. \A k \in Keys \ muddled' : Faithful(k)'
    BY <2>5, <2>10, <2>11
  <2> QED BY <2>7, <2>8, <2>12 DEF TrailInv
<1> QED BY <1>2, <1>3

\* Which way a statement of its own takes a request on a key, and what it leaves to the rest.
LEMMA RolesQuiet == ASSUME TrailInv, NEW w \in Replicas, ListRoles(w) \/ WriteRole(w) PROVE TrailInv'
<1>1. Typed /\ Asked(w)
  BY DEF TrailInv
<1>2. pc[w] \in {"read", "write"} /\ call[w].op \in {"assign", "revoke"}
      /\ UNCHANGED <<rules, ruleEvents, template, templateEvents, todo, intended, ledger, muddled>>
  BY DEF ListRoles, WriteRole, history
<1>3. CASE Return(w)
  BY <1>2, <1>3, Ended
<1>4. CASE Goto(w, "write") /\ UNCHANGED call
  <2>1. "write" \in Labels
    BY DEF Labels
  <2>2. pc'[w] = "write" /\ pc' \in [Replicas -> Labels] /\ Others(w)
    BY <1>1, <1>4, <2>1, Moved DEF Others
  <2>3. Typed'
    BY <1>1, <1>2, <1>4, <2>2 DEF Typed
  <2>4. Asked(w)' /\ \A k : ~Recording(w, k) /\ ~Busy(w, k)' /\ Undisturbed(w, k)
    BY <1>2, <1>4, <2>2 DEF Asked, Changes, Recording, Busy, Undisturbed, Current
  <2> QED BY <1>2, <2>2, <2>3, <2>4, QuietStep
<1> QED BY <1>3, <1>4 DEF ListRoles, WriteRole

LEMMA WriteStep == ASSUME TrailInv, NEW w \in Replicas, WriteRow(w) PROVE TrailInv'
<1> DEFINE c == call[w]
           k == c.key
<1>1. Typed /\ Asked(w)
  BY DEF TrailInv
<1>2. /\ pc[w] = "write" /\ Changes(w) /\ Goto(w, "select")
      /\ UNCHANGED <<ruleEvents, templateEvents, call, todo, muddled>>
      /\ ledger' = IF c.op = "reset" /\ ~Current(k).stored THEN ledger
                   ELSE [ledger EXCEPT ![k] = Append(@, EventOf(c, Current(k)))]
  BY DEF WriteRow, Changes
<1>3. c \in Calls /\ k \in Keys
  BY <1>1, <1>2 DEF Typed, Asked
<1>4. pc'[w] = "select" /\ pc' \in [Replicas -> Labels] /\ Others(w)
  <2>1. "select" \in Labels
    BY DEF Labels
  <2> QED BY <1>1, <1>2, <2>1, Moved DEF Others
<1>6. EventOf(c, Current(k)) \in Events
  BY <1>1, <1>3, CurrentIsRow, EventsAreEvents
<1>7. ledger' \in [Keys -> Seq(Events)] /\ \A q \in Keys \ {k} : ledger'[q] = ledger[q]
  <2>1. ledger \in [Keys -> Seq(Events)]
    BY <1>1 DEF Typed
  <2> HIDE DEF k, c
  <2>2. Append(ledger[k], EventOf(c, Current(k))) \in Seq(Events)
    BY <1>3, <1>6, <2>1
  <2> QED BY <1>2, <1>3, <2>1, <2>2
<1>8. /\ rules' \in [RuleIds -> RuleRows] /\ intended' \in [RuleIds -> RuleRows] /\ template' \in Templates \cup {Default}
      /\ \A q \in Keys \ {k} : Current(q)' = Current(q)
  <2>1. CASE k = "template"
    <3>1. UNCHANGED <<rules, intended>> /\ template' \in Templates \cup {Default}
      BY <1>1, <1>2, <2>1 DEF WriteRow, SetTemplate, ClearTemplate, Asked, Changes
    <3> QED BY <1>1, <2>1, <3>1 DEF Typed, Current
  <2>2. CASE k # "template"
    <3>1. k \in RuleIds /\ c.new \in RuleRows
      BY <1>1, <1>2, <1>3, <2>2, RowsAreRows DEF Asked, Changes, Keys, RuleRows
    <3>2. /\ rules' = [rules EXCEPT ![k] = IF c.op = "set" THEN c.new ELSE NoRow]
          /\ intended' = [intended EXCEPT ![k] = c.new] /\ UNCHANGED template
      BY <2>2 DEF WriteRow, UpsertRule, DeleteRule
    <3> HIDE DEF k, c
    <3>3. rules' \in [RuleIds -> RuleRows] /\ intended' \in [RuleIds -> RuleRows] /\ \A q \in RuleIds \ {k} : rules'[q] = rules[q]
      BY <1>1, <3>1, <3>2, RowsAreRows DEF Typed
    <3>4. \A q \in Keys \ {k} : Current(q)' = Current(q)
      BY <3>2, <3>3 DEF Current, Keys
    <3> QED BY <1>1, <3>2, <3>3, <3>4 DEF Typed
  <2> QED BY <2>1, <2>2
<1>9. Typed'
  BY <1>1, <1>2, <1>4, <1>7, <1>8 DEF Typed
<1>10. \A v \in Replicas : Asked(v)'
  BY <1>2, <1>4 DEF TrailInv, Others, Asked, Changes
<1>11. \A q : Trail(q)' = Trail(q)
  BY <1>2 DEF Trail
<1>12. ASSUME NEW q \in Keys \ muddled, q # k PROVE Faithful(q)'
  <2>1. ~Recording(w, q) /\ ~Busy(w, q)' /\ Undisturbed(w, q)
    BY <1>2, <1>8, <1>12 DEF Recording, Busy, Undisturbed
  <2> QED BY <1>4, <1>7, <1>11, <1>12, <2>1, Elsewhere
<1>13. ASSUME NEW q \in Keys \ muddled, q = k PROVE Faithful(q)'
  <2>1. Faithful(q) /\ Busy(w, q)
    BY <1>2, <1>13 DEF TrailInv, Busy
  <2>2. \A v \in Replicas : Busy(v, q) => v = w
    BY <2>1 DEF Faithful
  <2>3. \A v \in Replicas : ~Recording(v, q)
    BY <1>2, <2>2 DEF Recording
  <2>4. Trail(q) = ledger[q] /\ c.old = Current(q) /\ (c.op = "reset" => Current(q).stored)
    BY <1>2, <2>1, <2>3 DEF Faithful
  <2>5. ledger'[q] = Append(Trail(q), EventOf(c, c.old))
    <3>1. ledger \in [Keys -> Seq(Events)]
      BY <1>1 DEF Typed
    <3>2. ledger' = [ledger EXCEPT ![q] = Append(ledger[q], EventOf(c, c.old))]
      BY <1>2, <1>13, <2>4
    <3> QED BY <3>1, <3>2, <2>4
  <2>6. \A v \in Replicas : Busy(v, q)' => v = w
    BY <1>2, <1>4, <2>2 DEF Others, Busy, Changes
  <2>7. Recording(w, q)' /\ pc'[w] = "select" /\ UNCHANGED call
    BY <1>2, <1>4, <2>1 DEF Recording, Busy, Changes
  <2>8. \A v \in Replicas : Recording(v, q)' => v = w
    BY <2>6 DEF Recording
  <2>9. /\ \A v, u \in Replicas : Busy(v, q)' /\ Busy(u, q)' => v = u
        /\ \A v \in Replicas : Busy(v, q)' /\ pc'[v] = "write" =>
             call'[v].old = Current(q)' /\ (call'[v].op = "reset" => Current(q)'.stored)
        /\ \A v \in Replicas : Busy(v, q)' /\ pc'[v] = "insert" => call'[v].seq = Len(Trail(q)') + 1
    BY <2>6, <2>7
  <2>10. call'[w] = c
    BY <1>2
  <2>11. /\ \A v \in Replicas : Recording(v, q)' => ledger'[q] = Append(Trail(q)', EventOf(call'[v], call'[v].old))
         /\ (\A v \in Replicas : ~Recording(v, q)') => Trail(q)' = ledger'[q]
    <3> HIDE DEF c
    <3> QED BY <1>11, <2>5, <2>7, <2>8, <2>10
  <2> QED BY <2>9, <2>11 DEF Faithful
<1>14. \A q \in Keys \ muddled' : Faithful(q)'
  BY <1>2, <1>12, <1>13
<1> QED BY <1>9, <1>10, <1>14 DEF TrailInv

LEMMA SelectStep == ASSUME TrailInv, NEW w \in Replicas, NextSeq(w) PROVE TrailInv'
<1> DEFINE c == call[w]
           k == c.key
           n == Len(Trail(k)) + 1
<1>1. Typed /\ Asked(w)
  BY DEF TrailInv
<1>2. /\ pc[w] = "select" /\ Changes(w) /\ Goto(w, "insert") /\ call' = [call EXCEPT ![w] = [c EXCEPT !.seq = n]]
      /\ UNCHANGED <<rules, ruleEvents, template, templateEvents, todo, intended, ledger, muddled>>
  BY <1>1 DEF NextSeq, Asked, history
<1>3. c \in Calls /\ k \in Keys /\ n \in Nat
  BY <1>1, <1>2, TrailsAreSeqs DEF Typed, Asked
<1>4. /\ call'[w].op = c.op /\ call'[w].by = c.by /\ call'[w].key = k /\ call'[w].new = c.new /\ call'[w].old = c.old
      /\ call'[w].seq = n /\ call' \in [Replicas -> Calls] /\ \A v \in Replicas \ {w} : call'[v] = call[v]
  <2> HIDE DEF n
  <2>1. [c EXCEPT !.seq = n] \in Calls
    BY <1>3 DEF Calls
  <2>2. call'[w] = [c EXCEPT !.seq = n] /\ call' \in [Replicas -> Calls] /\ \A v \in Replicas \ {w} : call'[v] = call[v]
    BY <1>1, <1>2, <2>1, Called
  <2> QED BY <1>3, <2>2 DEF Calls
<1>5. pc'[w] = "insert" /\ pc' \in [Replicas -> Labels] /\ Others(w)
  <2>1. "insert" \in Labels
    BY DEF Labels
  <2> QED BY <1>1, <1>2, <1>4, <2>1, Moved DEF Others
<1>6. Typed'
  BY <1>1, <1>2, <1>4, <1>5 DEF Typed
<1>7. \A v \in Replicas : Asked(v)'
  BY <1>2, <1>4, <1>5 DEF TrailInv, Others, Asked, Changes
<1>8. \A q : Trail(q)' = Trail(q) /\ Current(q)' = Current(q)
  BY <1>2 DEF Trail, Current
<1>9. ASSUME NEW q \in Keys \ muddled, q # k PROVE Faithful(q)'
  <2>1. ~Recording(w, q) /\ ~Busy(w, q)' /\ Undisturbed(w, q)
    BY <1>2, <1>4, <1>8, <1>9 DEF Recording, Busy, Undisturbed
  <2> QED BY <1>2, <1>5, <1>8, <1>9, <2>1, Elsewhere
<1>10. ASSUME NEW q \in Keys \ muddled, q = k PROVE Faithful(q)'
  <2>1. Faithful(q) /\ Recording(w, q)
    BY <1>2, <1>10 DEF TrailInv, Recording, Busy
  <2>2. \A v \in Replicas : Busy(v, q) => v = w
    BY <2>1 DEF Faithful, Recording
  <2>3. \A v \in Replicas : Busy(v, q)' => v = w
    BY <1>5, <2>2 DEF Others, Busy, Changes
  <2>4. ledger[q] = Append(Trail(q), EventOf(c, c.old))
    BY <2>1 DEF Faithful
  <2>5. EventOf(call'[w], call'[w].old) = EventOf(c, c.old)
    BY <1>4 DEF EventOf
  <2>6. Recording(w, q)'
    BY <1>2, <1>4, <1>5, <1>10 DEF Recording, Busy, Changes
  <2>7. call'[w].seq = Len(Trail(q)') + 1
    BY <1>4, <1>8, <1>10
  <2>8. /\ \A v, u \in Replicas : Busy(v, q)' /\ Busy(u, q)' => v = u
        /\ \A v \in Replicas : Busy(v, q)' /\ pc'[v] = "write" =>
             call'[v].old = Current(q)' /\ (call'[v].op = "reset" => Current(q)'.stored)
        /\ \A v \in Replicas : Busy(v, q)' /\ pc'[v] = "insert" => call'[v].seq = Len(Trail(q)') + 1
    BY <1>5, <2>3, <2>7
  <2>9. \A v \in Replicas : Recording(v, q)' => v = w
    BY <2>3 DEF Recording
  <2>10. ledger'[q] = Append(Trail(q)', EventOf(c, c.old))
    BY <1>2, <1>8, <2>4
  <2>11. /\ \A v \in Replicas : Recording(v, q)' => ledger'[q] = Append(Trail(q)', EventOf(call'[v], call'[v].old))
         /\ (\A v \in Replicas : ~Recording(v, q)') => Trail(q)' = ledger'[q]
    <3> HIDE DEF c
    <3> QED BY <2>5, <2>6, <2>9, <2>10
  <2> QED BY <2>8, <2>11 DEF Faithful
<1>11. \A q \in Keys \ muddled' : Faithful(q)'
  BY <1>2, <1>9, <1>10
<1> QED BY <1>6, <1>7, <1>11 DEF TrailInv

LEMMA InsertStep == ASSUME TrailInv, NEW w \in Replicas, InsertEvent(w) PROVE TrailInv'
<1> PICK c, k, e : c = call[w] /\ k = c.key /\ e = EventOf(c, c.old)
  OBVIOUS
<1>1. Typed /\ Asked(w)
  BY DEF TrailInv
<1>2. /\ pc[w] = "insert" /\ Changes(w) /\ Return(w)
      /\ UNCHANGED <<rules, template, todo, intended, ledger, muddled>>
  BY <1>1 DEF InsertEvent, Asked, history
<1>3. c \in Calls /\ k \in Keys /\ e \in Events
  BY <1>1, <1>2, EventsAreEvents DEF Typed, Asked, Calls
<1>4. Others(w) /\ Asked(w)' /\ pc' \in [Replicas -> Labels] /\ call' \in [Replicas -> Calls] /\ \A q : ~Busy(w, q)'
  BY <1>1, <1>2, Returned
<1>5. /\ ruleEvents' \in [RuleIds -> Seq(Events)] /\ templateEvents' \in Seq(Events)
      /\ Trail(k)' = Append(Trail(k), e) /\ \A q \in Keys \ {k} : Trail(q)' = Trail(q)
  <2>1. CASE k = "template"
    <3>1. templateEvents' = Append(templateEvents, e) /\ UNCHANGED ruleEvents
      BY <2>1 DEF InsertEvent, InsertTemplateEvent
    <3> QED BY <1>1, <1>3, <2>1, <3>1 DEF Typed, Trail
  <2>2. CASE k # "template"
    <3>1. ruleEvents' = [ruleEvents EXCEPT ![k] = Append(ruleEvents[k], e)] /\ UNCHANGED templateEvents
      BY <2>2 DEF InsertEvent, InsertRuleEvent
    <3>2. k \in RuleIds
      BY <1>3, <2>2 DEF Keys
    <3>3. ruleEvents \in [RuleIds -> Seq(Events)] /\ templateEvents \in Seq(Events)
      BY <1>1 DEF Typed
    <3>4. Append(ruleEvents[k], e) \in Seq(Events)
      BY <1>3, <3>2, <3>3
    <3>5. ruleEvents' \in [RuleIds -> Seq(Events)] /\ ruleEvents'[k] = Append(ruleEvents[k], e)
          /\ \A q \in RuleIds \ {k} : ruleEvents'[q] = ruleEvents[q]
      BY <3>1, <3>2, <3>3, <3>4
    <3> QED BY <2>2, <3>1, <3>3, <3>5 DEF Trail, Keys
  <2> QED BY <2>1, <2>2
<1>6. Typed'
  BY <1>1, <1>2, <1>4, <1>5 DEF Typed
<1>7. \A v \in Replicas : Asked(v)'
  BY <1>4 DEF TrailInv, Others, Asked, Changes
<1>8. \A q : Current(q)' = Current(q)
  BY <1>2 DEF Current
<1>9. ASSUME NEW q \in Keys \ muddled, q # k PROVE Faithful(q)'
  <2>1. ~Recording(w, q) /\ Undisturbed(w, q) /\ UNCHANGED <<Trail(q), ledger[q]>>
    BY <1>2, <1>5, <1>8, <1>9 DEF Recording, Busy, Undisturbed
  <2> QED BY <1>4, <1>9, <2>1, Elsewhere
<1>10. ASSUME NEW q \in Keys \ muddled, q = k PROVE Faithful(q)'
  <2>1. Faithful(q) /\ Recording(w, q)
    BY <1>2, <1>10 DEF TrailInv, Recording, Busy
  <2>2. \A v \in Replicas : Busy(v, q) => v = w
    BY <2>1 DEF Faithful, Recording
  <2>3. \A v \in Replicas : ~Busy(v, q)'
    BY <1>4, <2>2 DEF Others, Busy, Changes
  <2>4. ledger[q] = Append(Trail(q), e)
    BY <2>1 DEF Faithful
  <2>5. Trail(q)' = ledger'[q]
    BY <1>2, <1>5, <1>10, <2>4
  <2> QED BY <2>3, <2>5 DEF Faithful, Recording
<1>11. \A q \in Keys \ muddled' : Faithful(q)'
  BY <1>2, <1>9, <1>10
<1> QED BY <1>6, <1>7, <1>11 DEF TrailInv

LEMMA FaultStep == ASSUME TrailInv, NEW w \in Replicas, Fault(w) PROVE TrailInv'
<1>1. Typed
  BY DEF TrailInv
<1>2. PICK label \in {"down", "up"} : Goto(w, label)
  BY DEF Fault
<1>3. /\ call' = [call EXCEPT ![w] = NoCall] /\ todo' = [todo EXCEPT ![w] = <<>>]
      /\ UNCHANGED <<rules, ruleEvents, template, templateEvents, intended, ledger>>
      /\ muddled \subseteq muddled' /\ (pc[w] \in {"select", "insert"} => call[w].key \in muddled')
  BY DEF Fault
<1>4. pc'[w] = label /\ pc' \in [Replicas -> Labels] /\ call'[w] = NoCall /\ call' \in [Replicas -> Calls] /\ Others(w)
  <2>1. label \in Labels
    BY DEF Labels
  <2> QED BY <1>1, <1>2, <1>3, <2>1, Moved, Called, NoCallIsCall DEF Others
<1>5. Typed'
  <2>1. todo' \in [Replicas -> Seq(HandbookIds)]
    BY <1>1, <1>3 DEF Typed
  <2> QED BY <1>1, <1>3, <1>4, <2>1 DEF Typed
<1>6. Asked(w)' /\ \A k : ~Busy(w, k)'
  BY <1>4, NoCallIsCall DEF Asked, Busy, Changes, None
<1>7. \A k \in Keys \ muddled' : ~Recording(w, k) /\ Undisturbed(w, k)
  BY <1>3 DEF Recording, Busy, Undisturbed, Current
<1> QED BY <1>3, <1>4, <1>5, <1>6, <1>7, QuietStep

LEMMA TrailStep == TrailInv /\ [Next]_vars => TrailInv'
<1> SUFFICES ASSUME TrailInv, [Next]_vars PROVE TrailInv'
  OBVIOUS
<1>1. ASSUME NEW w \in Replicas, Boot(w) PROVE TrailInv'
  BY <1>1, BootQuiet
<1>2. ASSUME NEW w \in Replicas, Request(w) PROVE TrailInv'
  BY <1>2, AskQuiet
<1>3. ASSUME NEW w \in Replicas, Collide(w) PROVE TrailInv'
  <2>1. /\ Return(w) /\ UNCHANGED <<rules, ruleEvents, template, templateEvents, todo, intended, ledger>>
        /\ muddled' = muddled \cup {call[w].key}
    BY <1>3 DEF Collide
  <2> QED BY <2>1, Ended
<1>4. ASSUME NEW w \in Replicas, Statement(w) PROVE TrailInv'
  BY <1>3, <1>4, ReadStep, RolesQuiet, WriteStep, SelectStep, InsertStep DEF Statement
<1>5. ASSUME NEW w \in Replicas, Fault(w) PROVE TrailInv'
  BY <1>5, FaultStep
<1>6. CASE UNCHANGED vars
  BY <1>6 DEF vars, history, TrailInv, Typed, Asked, Changes, Faithful, Busy, Recording, Current, Trail
<1> QED BY <1>1, <1>2, <1>4, <1>5, <1>6 DEF Next

LEMMA TrailInvHolds == Spec => []TrailInv
BY TrailInit, TrailStep, PTL DEF Spec

LEMMA FrontOfAppend ==
  ASSUME NEW S, NEW s \in Seq(S), NEW e \in S
  PROVE  Front(Append(s, e)) = s
<1>1. Append(s, e) \in Seq(S) /\ Len(Append(s, e)) = Len(s) + 1 /\ Len(s) \in Nat
  OBVIOUS
<1>2. \A i \in 1..Len(s) : Append(s, e)[i] = s[i]
  OBVIOUS
<1> QED BY <1>1, <1>2 DEF Front

\* The trail of a rule, or of the template, whose changes neither overlapped nor failed tells its
\* changes one by one (upsert, reset, save, _append_event).
THEOREM TrailsTellTheChanges == Spec => []TrailIsTheHistory
<1>1. TrailInv => TrailIsTheHistory
  <2> SUFFICES ASSUME TrailInv, NEW k \in Keys \ muddled, Trail(k) # ledger[k]
               PROVE  \E w \in Replicas :
                        call[w].key = k /\ pc[w] \in {"select", "insert"} /\ Trail(k) = Front(ledger[k])
    BY DEF TrailIsTheHistory
  <2>1. Faithful(k) /\ Typed
    BY DEF TrailInv
  <2>2. PICK w \in Replicas : Recording(w, k)
    BY <2>1 DEF Faithful
  <2>3. ledger[k] = Append(Trail(k), EventOf(call[w], call[w].old))
    BY <2>1, <2>2 DEF Faithful
  <2>4. EventOf(call[w], call[w].old) \in Events /\ Trail(k) \in Seq(Events)
    BY <2>1, EventsAreEvents, TrailsAreSeqs DEF Typed, Calls
  <2>5. Trail(k) = Front(ledger[k])
    BY <2>3, <2>4, FrontOfAppend
  <2> QED BY <2>2, <2>5 DEF Recording, Busy
<1> QED BY <1>1, TrailInvHolds, PTL

-----------------------------------------------------------------------------
(* The rules that a review sees.                                           *)

LEMMA KeptInit == Init => KeptInv
<1>1. ToSet(<<>>) = {}
  BY DEF ToSet
<1> QED BY <1>1 DEF Init, KeptInv, KeptRow, Seeding

\* A step that changes no rule and gives nobody more to seed.
LEMMA KeptQuiet ==
  ASSUME KeptInv, UNCHANGED <<rules, intended, raced>>,
         \A v \in Replicas : ToSet(todo[v])' \subseteq ToSet(todo[v])
  PROVE  KeptInv'
BY DEF KeptInv, KeptRow, Seeding

\* What a replica has yet to seed are rules of the handbook.
LEMMA SeedsAreRules == ASSUME Typed, NEW w \in Replicas PROVE ToSet(todo[w]) \subseteq HandbookIds
<1>1. todo[w] \in Seq(HandbookIds)
  BY DEF Typed
<1> QED BY <1>1 DEF ToSet

LEMMA KeptStep == TrailInv /\ KeptInv /\ [Next]_vars => KeptInv'
<1> SUFFICES ASSUME TrailInv, KeptInv, [Next]_vars PROVE KeptInv'
  OBVIOUS
<1>1. Typed /\ \A v \in Replicas : Asked(v)
  BY DEF TrailInv
<1>2. HandbookIds \subseteq RuleIds /\ \A v \in Replicas : ToSet(todo[v]) \subseteq RuleIds
  BY <1>1, SeedsAreRules, HandbookIsSane DEF HandbookIds
<1>3. ASSUME NEW w \in Replicas, BootRules(w) PROVE KeptInv'
  <2>1. \A r \in RuleIds : \/ rules'[r] = rules[r] /\ intended'[r] = intended[r]
                           \/ rules'[r] = NoRow /\ intended'[r] = NoRow
    BY <1>3 DEF BootRules, MigrateRules
  <2>2. UNCHANGED <<todo, raced>>
    BY <1>3 DEF BootRules
  <2> QED BY <1>2, <2>1, <2>2 DEF KeptInv, KeptRow, Seeding
<1>4. ASSUME NEW w \in Replicas, ListForSeed(w) PROVE KeptInv'
  <2>1. UNCHANGED <<rules, intended, raced>>
    BY <1>4 DEF ListForSeed, history
  <2>2. CASE Stored(rules) # {}
    BY <1>4, <2>1, <2>2, KeptQuiet DEF ListForSeed
  <2>3. CASE Stored(rules) = {}
    <3>1. ASSUME NEW r \in RuleIds PROVE intended[r] = NoRow
      <4>1. ~rules[r].stored
        BY <2>3 DEF Stored
      <4>2. rules[r] \in RuleRows
        BY <1>1 DEF Typed
      <4>3. rules[r] = NoRow
        BY <4>1, <4>2, RowsAreStored DEF RuleRows, Seeded, NoRow
      <4>4. \A q \in HandbookIds : Seeded(q).stored
        BY DEF Seeded, NoRow
      <4> QED BY <4>1, <4>3, <4>4 DEF KeptInv, KeptRow
    <3>2. \A v \in Replicas : ToSet(todo[v])' \subseteq RuleIds
      <4>1. Typed'
        BY <1>4, BootQuiet DEF Boot, TrailInv
      <4> QED BY <1>2, <4>1, SeedsAreRules DEF ToSet, Typed
    <3> QED BY <2>1, <3>1, <3>2 DEF KeptInv, KeptRow, Seeding
  <2> QED BY <2>2, <2>3
<1>5. ASSUME NEW w \in Replicas, SeedOne(w) PROVE KeptInv'
  <2>1. CASE todo[w] = <<>>
    BY <1>5, <2>1, KeptQuiet DEF SeedOne
  <2>2. CASE todo[w] # <<>>
    <3>1. PICK h : h = Head(todo[w])
      OBVIOUS
    <3>2. /\ rules' = [rules EXCEPT ![h] = Seeded(h)] /\ UNCHANGED <<intended, raced>>
          /\ todo' = [todo EXCEPT ![w] = Tail(todo[w])]
      BY <1>5, <2>2, <3>1 DEF SeedOne, UpsertRule
    <3>3. todo \in [Replicas -> Seq(HandbookIds)]
      BY <1>1 DEF Typed
    <3>4. h \in ToSet(todo[w]) /\ ToSet(Tail(todo[w])) \subseteq ToSet(todo[w])
      BY <2>2, <3>1, <3>3 DEF ToSet
    <3>5. h \in HandbookIds /\ (intended[h] = NoRow \/ h \in raced)
      BY <1>1, <3>4, SeedsAreRules DEF KeptInv, Seeding
    <3>6. \A r \in RuleIds : rules'[r] = IF r = h THEN Seeded(h) ELSE rules[r]
      BY <1>1, <3>2 DEF Typed
    <3>7. \A v \in Replicas : ToSet(todo[v])' \subseteq ToSet(todo[v])
      BY <3>2, <3>3, <3>4
    <3> QED BY <3>2, <3>5, <3>6, <3>7 DEF KeptInv, KeptRow, Seeding
  <2> QED BY <2>1, <2>2
<1>6. ASSUME NEW w \in Replicas, WriteRow(w) PROVE KeptInv'
  <2>1. PICK c, k : c = call[w] /\ k = c.key
    OBVIOUS
  <2>2. UNCHANGED todo
    BY <1>6 DEF WriteRow
  <2>3. CASE k = "template"
    <3>1. UNCHANGED <<rules, intended, raced>>
      BY <1>6, <2>1, <2>3 DEF WriteRow
    <3> QED BY <2>2, <3>1, KeptQuiet
  <2>4. CASE k # "template"
    <3>1. /\ rules' = [rules EXCEPT ![k] = IF c.op = "set" THEN c.new ELSE NoRow]
          /\ intended' = [intended EXCEPT ![k] = c.new] /\ c.op \in {"set", "reset"}
          /\ raced' = IF \E q \in Replicas : k \in ToSet(todo[q]) THEN raced \cup {k} ELSE raced \ {k}
      BY <1>6, <2>1, <2>4 DEF WriteRow, UpsertRule, DeleteRule
    <3>2. c.op = "reset" => c.new = NoRow
      BY <1>1, <2>1 DEF Asked
    <3>3. \A r \in RuleIds : IF r = k THEN rules'[r] = intended'[r]
                             ELSE /\ rules'[r] = rules[r] /\ intended'[r] = intended[r]
                                  /\ r \in raced' <=> r \in raced
      BY <1>1, <3>1, <3>2 DEF Typed
    <3>4. \A q \in Replicas : k \in ToSet(todo[q]) => k \in raced'
      BY <3>1
    <3> QED BY <1>2, <2>2, <3>3, <3>4 DEF KeptInv, KeptRow, Seeding
  <2> QED BY <2>3, <2>4
<1>7. ASSUME NEW w \in Replicas, BootRoles(w) \/ Request(w) PROVE KeptInv'
  BY <1>7, KeptQuiet
  DEF BootRoles, Request, AssignRole, RevokeRole, UpsertRuleCall, ResetRule, SaveTemplate, ResetTemplate,
      Ask, Accept, history
<1>8. ASSUME NEW w \in Replicas, Read(w) \/ ListRoles(w) \/ WriteRole(w) \/ NextSeq(w) \/ InsertEvent(w) \/ Collide(w)
      PROVE  KeptInv'
  BY <1>8, KeptQuiet DEF Read, ListRoles, WriteRole, NextSeq, InsertEvent, Collide, history
<1>9. ASSUME NEW w \in Replicas, Fault(w) PROVE KeptInv'
  <2>1. UNCHANGED <<rules, intended, raced>> /\ todo' = [todo EXCEPT ![w] = <<>>]
    BY <1>9 DEF Fault
  <2>2. todo \in [Replicas -> Seq(HandbookIds)] /\ ToSet(<<>>) = {}
    BY <1>1 DEF Typed, ToSet
  <2> QED BY <2>1, <2>2, KeptQuiet
<1>10. CASE UNCHANGED vars
  BY <1>10 DEF vars, history, KeptInv, KeptRow, Seeding
<1> QED BY <1>3, <1>4, <1>5, <1>6, <1>7, <1>8, <1>9, <1>10 DEF Next, Boot, Statement

\* The changes that a seeding has written over.
Lost == {r \in RuleIds : r \in raced /\ rules[r] # intended[r]}

\* What a review sees of a row, as its store holds it and as an administrator wrote it.
LEMMA RowsSayTheSame ==
  ASSUME KeptInv, NEW Kept, Kept = Without(Lost), NEW r \in RuleIds
  PROVE  /\ rules[r].enabled = Kept[r].enabled
         /\ r \in HandbookIds =>
              /\ Set(rules[r].severity, Handbook[r].severity) = Set(Kept[r].severity, Handbook[r].severity)
              /\ Set(rules[r].text, "handbook") = Set(Kept[r].text, "handbook")
         /\ rules[r] # Kept[r] => ~rules[r].custom /\ ~Kept[r].custom
<1>1. \/ rules[r] = Kept[r]
      \/ r \in HandbookIds /\ rules[r] = Seeded(r) /\ Kept[r] = NoRow
  BY DEF KeptInv, KeptRow, Without, Lost
<1>2. CASE rules[r] = Kept[r]
  BY <1>2
<1>3. CASE r \in HandbookIds /\ rules[r] = Seeded(r) /\ Kept[r] = NoRow
  <2>1. /\ Seeded(r).enabled = TRUE /\ Seeded(r).custom = FALSE /\ Seeded(r).severity = Handbook[r].severity
        /\ Seeded(r).text = "handbook"
    BY DEF Seeded, NoRow
  <2>2. NoRow.enabled = TRUE /\ NoRow.custom = FALSE /\ NoRow.severity = None /\ NoRow.text = None
    BY DEF NoRow
  <2> QED BY <1>3, <2>1, <2>2 DEF Set
<1> QED BY <1>1, <1>2, <1>3

LEMMA KeptIsSeen == KeptInv => EditsAreKept
<1> SUFFICES ASSUME KeptInv, NEW kind PROVE EffectiveRules(rules, kind) = EffectiveRules(Without(Lost), kind)
  BY DEF EditsAreKept, SeenAs, Lost
<1> PICK Kept : Kept = Without(Lost)
  OBVIOUS
<1>1. Grounding(rules, kind) = Grounding(Kept, kind)
  <2>1. \A r \in RulesForKind(kind) : r \in RuleIds /\ r \in HandbookIds
    BY HandbookIsSane DEF RulesForKind, HandbookIds
  <2>2. {q \in RulesForKind(kind) : rules[q].enabled} = {q \in RulesForKind(kind) : Kept[q].enabled}
    BY <2>1, RowsSayTheSame
  <2> QED BY <2>1, <2>2, RowsSayTheSame DEF Grounding
<1>2. Custom(rules) = Custom(Kept)
  <2> DEFINE Seen(rows) == {q \in Stored(rows) : rows[q].custom /\ rows[q].enabled}
  <2>1. ASSUME NEW q \in RuleIds
        PROVE  /\ q \in Seen(rules) <=> q \in Seen(Kept)
               /\ q \in Seen(rules) => rules[q] = Kept[q]
    BY RowsSayTheSame DEF Stored
  <2>2. Seen(rules) \subseteq RuleIds /\ Seen(Kept) \subseteq RuleIds
    BY DEF Stored
  <2>3. Custom(rules) = {Rule(r, Set(rules[r].severity, "SUGGESTION"), Set(rules[r].text, "empty")) : r \in Seen(rules)}
    BY DEF Custom
  <2>4. Custom(Kept) = {Rule(r, Set(Kept[r].severity, "SUGGESTION"), Set(Kept[r].text, "empty")) : r \in Seen(Kept)}
    BY DEF Custom
  <2> HIDE DEF Seen
  <2> QED BY <2>1, <2>2, <2>3, <2>4
<1> QED BY <1>1, <1>2 DEF EffectiveRules

\* EditsAreKept: whatever replicas start, seed, stop half way and seed again beside the requests, a
\* review of either kind sees what the administrators last wrote, but for a change made while a
\* replica had yet to seed its rule, which may be lost to the handbook's (seed_defaults,
\* effective_rules, _lifespan).
THEOREM WhatWasWrittenStays == Spec => []EditsAreKept
<1>1. TrailInv /\ KeptInv /\ [Next]_vars => KeptInv'
  BY KeptStep
<1> QED BY <1>1, KeptInit, TrailInvHolds, KeptIsSeen, PTL DEF Spec

=============================================================================
