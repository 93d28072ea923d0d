----------------------------- MODULE AuditAppend -----------------------------
(***************************************************************************)
(* app/promotion_store.py, append_audit_event over the Postgres backend:   *)
(* web requests and scheduler sweeps of several replicas append to the     *)
(* audit trail of a promotion at the same time.  One INSERT ... SELECT     *)
(* computes the next seq from its snapshot of the table and inserts the    *)
(* row later, when other rows may have been committed.                     *)
(***************************************************************************)
EXTENDS Integers, FiniteSets

CONSTANTS
  Promotions,
  Writers,      \* threads and processes that append
  Events,       \* the event types they append
  Attempts,     \* the retry budget of insert_audit_event
  MaxRows       \* bound: rows per promotion

ASSUME AttemptsArePositive == Attempts \in Nat \ {0}
ASSUME MaxRowsIsNat == MaxRows \in Nat

RecurringEvents == {"requested", "re_reviewed", "rehydrated"}

\* The event types the partial unique index uq_audit_milestone leaves out.
IndexExempt == {"requested", "re_reviewed"}

VARIABLES
  rows,     \* audit_events: per promotion, the event type at each seq in use
  pc,       \* where each writer's call stands
  call,     \* its promotion and event type
  picked,   \* the seq its statement computed
  tries,    \* UniqueViolations it has met
  base      \* the rows its promotion had when the call began (history)

vars == <<rows, pc, call, picked, tries, base>>

Seqs(p) == DOMAIN rows[p]

\* COALESCE(MAX(seq), 0) + 1
NextSeq(p) == IF Seqs(p) = {} THEN 1
              ELSE 1 + CHOOSE m \in Seqs(p) : \A s \in Seqs(p) : s <= m

Recorded(p, e) == \E s \in Seqs(p) : rows[p][s] = e

\* ON CONFLICT (promotion_id, event_type): the index that decides is uq_audit_milestone, and
\* it covers whatever it does not exempt, RECURRING_EVENTS or not.
Conflicts(p, e) == e \notin IndexExempt /\ Recorded(p, e)

Calls == [promotion : Promotions, event : Events]

Init ==
  /\ rows = [p \in Promotions |-> << >>]
  /\ pc = [w \in Writers |-> "idle"]
  /\ call \in [Writers -> Calls]
  /\ picked = [w \in Writers |-> 0]
  /\ tries = [w \in Writers |-> 0]
  /\ base = [w \in Writers |-> 0]

\* append_audit_event is called, for whatever event its caller thinks is new.
Begin(w) ==
  /\ pc[w] \in {"idle", "recorded", "skipped", "raised"}
  /\ \E c \in Calls :
       /\ call' = [call EXCEPT ![w] = c]
       /\ base' = [base EXCEPT ![w] = Cardinality(Seqs(c.promotion))]
  /\ pc' = [pc EXCEPT ![w] = "select"]
  /\ tries' = [tries EXCEPT ![w] = 0]
  /\ UNCHANGED <<rows, picked>>

\* The call is over: None, an AuditEvent, or the UniqueViolation.
Return(w, answer) ==
  /\ pc' = [pc EXCEPT ![w] = answer]
  /\ picked' = [picked EXCEPT ![w] = 0]
  /\ tries' = [tries EXCEPT ![w] = 0]
  /\ UNCHANGED <<call, base>>

\* The statement reads its snapshot.
Select(w) ==
  /\ pc[w] = "select"
  /\ picked' = [picked EXCEPT ![w] = NextSeq(call[w].promotion)]
  /\ pc' = [pc EXCEPT ![w] = "insert"]
  /\ UNCHANGED <<rows, call, tries, base>>

\* The row conflicts with the arbiter index: DO NOTHING, and None to the caller.
Skip(w) ==
  /\ pc[w] = "insert"
  /\ Conflicts(call[w].promotion, call[w].event)
  /\ Return(w, "skipped")
  /\ UNCHANGED rows

\* Slip: DO UPDATE, the row of the seq is overwritten.
Insert_Overwrites(w) ==
  LET p == call[w].promotion IN
  /\ pc[w] = "insert"
  /\ ~Conflicts(p, call[w].event)
  /\ Cardinality(Seqs(p)) < MaxRows
  /\ rows' = [rows EXCEPT ![p] = [s \in Seqs(p) \cup {picked[w]} |->
                                    IF s = picked[w] THEN call[w].event ELSE rows[p][s]]]
  /\ Return(w, "recorded")

Insert(w) ==
  LET p == call[w].promotion IN
  /\ pc[w] = "insert"
  /\ ~Conflicts(p, call[w].event) /\ picked[w] \notin Seqs(p)
  /\ Cardinality(Seqs(p)) < MaxRows
  /\ rows' = [rows EXCEPT ![p] = [s \in Seqs(p) \cup {picked[w]} |->
                                    IF s = picked[w] THEN call[w].event ELSE rows[p][s]]]
  /\ Return(w, "recorded")

\* Slip: the retry repeats the insert with the seq it had.
Collide_SameSeq(w) ==
  LET p == call[w].promotion IN
  /\ pc[w] = "insert"
  /\ ~Conflicts(p, call[w].event) /\ picked[w] \in Seqs(p)
  /\ IF tries[w] + 1 = Attempts
       THEN Return(w, "raised")
       ELSE tries' = [tries EXCEPT ![w] = @ + 1] /\ UNCHANGED <<pc, picked, call, base>>
  /\ UNCHANGED rows

\* UNIQUE (promotion_id, seq): somebody took the seq.  Try again, up to the budget.
Collide(w) ==
  LET p == call[w].promotion IN
  /\ pc[w] = "insert"
  /\ ~Conflicts(p, call[w].event) /\ picked[w] \in Seqs(p)
  /\ IF tries[w] + 1 = Attempts
       THEN Return(w, "raised")
       ELSE /\ tries' = [tries EXCEPT ![w] = @ + 1]
            /\ pc' = [pc EXCEPT ![w] = "select"]
            /\ picked' = [picked EXCEPT ![w] = 0]
            /\ UNCHANGED <<call, base>>
  /\ UNCHANGED rows

Step(w) == Select(w) \/ Skip(w) \/ Insert(w) \/ Collide(w)

Next == \E w \in Writers : Begin(w) \/ Step(w)

Spec == Init /\ [][Next]_vars

-----------------------------------------------------------------------------
TypeOK ==
  /\ DOMAIN rows = Promotions
  /\ \A p \in Promotions : rows[p] = [s \in Seqs(p) |-> rows[p][s]]
                           /\ \A s \in Seqs(p) : s \in Nat /\ rows[p][s] \in Events
  /\ pc \in [Writers -> {"idle", "select", "insert", "recorded", "skipped", "raised"}]
  /\ call \in [Writers -> Calls]
  /\ picked \in [Writers -> Nat]
  /\ tries \in [Writers -> 0 .. Attempts - 1]
  /\ base \in [Writers -> Nat]

\* However the appends interleave, the seqs of a promotion have no gap: the trail a reader
\* sorts by seq is complete (promotion_store.py, UNIQUE (promotion_id, seq) and the retry).
Gapless == \A p \in Promotions : Seqs(p) = 1 .. Cardinality(Seqs(p))

\* A milestone is recorded at most once per promotion, also by two reconciles that both
\* found it missing.
MilestoneOnce ==
  \A p \in Promotions : \A s, t \in Seqs(p) :
    rows[p][s] = rows[p][t] /\ rows[p][s] \notin RecurringEvents => s = t

\* None answers only a call whose event is in the trail already.
SkippedIsRecorded ==
  \A w \in Writers : pc[w] = "skipped" => Recorded(call[w].promotion, call[w].event)

\* An append fails only when as many rows as it had attempts were committed meanwhile: no
\* collision is charged twice to one competing row.
RaisesOnlyUnderContention ==
  \A w \in Writers : pc[w] = "raised" =>
    Cardinality(Seqs(call[w].promotion)) >= base[w] + Attempts

\* What append_audit_event tells its caller is true, however the appends interleave.
AnswersAreTrue == SkippedIsRecorded /\ RaisesOnlyUnderContention

\* The trail is the atomic one of AuditLog.
Log == INSTANCE AuditLog WITH
  log <- rows, EventTypes <- Events, Repeatable <- RecurringEvents

\* Every append is one entry at the end of an append-only trail, or nothing.
ImplementsLog == Log!LSpec

=============================================================================
