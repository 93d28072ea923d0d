-------------------------- MODULE AuditAppendProofs --------------------------
(***************************************************************************)
(* Proofs about AuditAppend, for every number of promotions, writers and   *)
(* event types, every retry budget and every bound.                        *)
(***************************************************************************)
EXTENDS AuditAppend, SequenceTheorems, FiniteSetTheorems, TLAPS

Count(w) == Len(rows[call[w].promotion])

\* The rows of a promotion are a sequence: no gap, whatever was computed from which snapshot.
RowsAreSequences == rows \in [Promotions -> Seq(Events)]

CallsType ==
  /\ pc \in [Writers -> {"idle", "select", "insert", "recorded", "skipped", "raised"}]
  /\ call \in [Writers -> Calls]
  /\ picked \in [Writers -> Nat]
  /\ tries \in [Writers -> 0 .. Attempts - 1]
  /\ base \in [Writers -> Nat]

\* A seq that was computed is one that was in use then, or the next one; it only gets older.
PickedWasNext == \A w \in Writers : pc[w] = "insert" => picked[w] \in 1 .. Count(w) + 1

\* Every collision is paid for by a row of somebody else.
CollisionsArePaid ==
  \A w \in Writers :
    /\ pc[w] = "select" => Count(w) >= base[w] + tries[w]
    /\ pc[w] = "insert" => picked[w] >= base[w] + tries[w] + 1
    /\ pc[w] = "raised" => Count(w) >= base[w] + Attempts

AuditInv ==
  /\ RowsAreSequences /\ CallsType /\ PickedWasNext /\ CollisionsArePaid
  /\ MilestoneOnce /\ SkippedIsRecorded

-----------------------------------------------------------------------------
(* The rows of one promotion.                                              *)

LEMMA SeqsOf ==
  ASSUME RowsAreSequences, NEW p \in Promotions
  PROVE  /\ rows[p] \in Seq(Events) /\ Len(rows[p]) \in Nat
         /\ Seqs(p) = 1 .. Len(rows[p])
         /\ Cardinality(Seqs(p)) = Len(rows[p])
<1>1. rows[p] \in Seq(Events)
  BY DEF RowsAreSequences
<1>2. Len(rows[p]) \in Nat /\ DOMAIN rows[p] = 1 .. Len(rows[p])
  BY <1>1, LenProperties
<1>3. Cardinality(1 .. Len(rows[p])) = Len(rows[p])
  BY <1>2, FS_Interval
<1> QED BY <1>1, <1>2, <1>3 DEF Seqs

\* COALESCE(MAX(seq), 0) + 1 is the number of rows and one more.
LEMMA NextSeqIsNext ==
  ASSUME RowsAreSequences, NEW p \in Promotions
  PROVE  NextSeq(p) = Len(rows[p]) + 1
<1> DEFINE n == Len(rows[p])
<1>1. n \in Nat /\ Seqs(p) = 1 .. n
  BY SeqsOf
<1>2. CASE n = 0
  BY <1>1, <1>2 DEF NextSeq
<1>3. CASE n # 0
  <2>1. n \in Seqs(p) /\ \A s \in Seqs(p) : s <= n
    BY <1>1, <1>3
  <2>2. \A m \in Seqs(p) : (\A s \in Seqs(p) : s <= m) => m = n
    BY <1>1, <2>1
  <2>3. (CHOOSE m \in Seqs(p) : \A s \in Seqs(p) : s <= m) = n
    BY <2>1, <2>2
  <2> QED BY <1>1, <2>1, <2>3 DEF NextSeq
<1> QED BY <1>2, <1>3

-----------------------------------------------------------------------------
(* The one step that changes the table.                                    *)

\* A row is inserted at the end: a seq that is not in use can only be the next one.
LEMMA InsertAppends ==
  ASSUME RowsAreSequences, CallsType, PickedWasNext, NEW w \in Writers, Insert(w)
  PROVE  /\ call[w].promotion \in Promotions /\ call[w].event \in Events
         /\ rows' = [rows EXCEPT ![call[w].promotion] = Append(@, call[w].event)]
         /\ RowsAreSequences'
<1> DEFINE p == call[w].promotion
           e == call[w].event
           n == Len(rows[p])
<1>1. p \in Promotions /\ e \in Events
  BY DEF CallsType, Calls
<1>2. rows[p] \in Seq(Events) /\ n \in Nat /\ Seqs(p) = 1 .. n
  BY <1>1, SeqsOf
<1>3. picked[w] = n + 1
  <2>1. picked[w] \in 1 .. n + 1 /\ picked[w] \notin 1 .. n
    BY <1>2 DEF PickedWasNext, Insert, Count
  <2> QED BY <1>2, <2>1
<1>4. [s \in Seqs(p) \cup {picked[w]} |-> IF s = picked[w] THEN e ELSE rows[p][s]]
        = Append(rows[p], e)
  <2>1. Seqs(p) \cup {picked[w]} = 1 .. n + 1
    BY <1>2, <1>3
  <2>2. Append(rows[p], e) = [s \in 1 .. n + 1 |-> IF s = n + 1 THEN e ELSE rows[p][s]]
    BY <1>1, <1>2, AppendProperties
  <2> QED BY <2>1, <2>2, <1>3
<1>5. rows' = [rows EXCEPT ![p] = Append(rows[p], e)]
  BY <1>4 DEF Insert
<1>6. Append(rows[p], e) \in Seq(Events)
  BY <1>1, <1>2, AppendProperties
<1> QED BY <1>1, <1>5, <1>6 DEF RowsAreSequences

\* Nothing that was in the trail is lost or moved, and nothing else than the new row comes in.
LEMMA InsertKeeps ==
  ASSUME RowsAreSequences, CallsType, PickedWasNext, NEW w \in Writers, Insert(w),
         NEW p \in Promotions
  PROVE  /\ Len(rows'[p]) \in {Len(rows[p]), Len(rows[p]) + 1}
         /\ \A s \in Seqs(p) : s \in Seqs(p)' /\ rows'[p][s] = rows[p][s]
         /\ \A s \in Seqs(p)' \ Seqs(p) :
              p = call[w].promotion /\ s = Len(rows[p]) + 1 /\ rows'[p][s] = call[w].event
<1>1. rows' = [rows EXCEPT ![call[w].promotion] = Append(@, call[w].event)] /\ RowsAreSequences'
      /\ call[w].promotion \in Promotions /\ call[w].event \in Events
  BY InsertAppends
<1>2. rows[p] \in Seq(Events) /\ Len(rows[p]) \in Nat /\ Seqs(p) = 1 .. Len(rows[p])
  BY SeqsOf
<1>3. rows'[p] \in Seq(Events) /\ Seqs(p)' = 1 .. Len(rows'[p])
  BY <1>1, LenProperties DEF RowsAreSequences, Seqs
<1>4. CASE p = call[w].promotion
  <2>1. rows'[p] = Append(rows[p], call[w].event)
    BY <1>1, <1>4 DEF RowsAreSequences
  <2> QED BY <2>1, <1>1, <1>2, <1>3, <1>4, AppendProperties
<1>5. CASE p # call[w].promotion
  <2>1. rows'[p] = rows[p]
    BY <1>1, <1>5 DEF RowsAreSequences
  <2> QED BY <2>1, <1>2, <1>3, <1>5
<1> QED BY <1>4, <1>5

\* What a step of one call does to the calls: w's own is the only one that moves.
LEMMA OthersStay ==
  ASSUME CallsType, NEW w \in Writers, Begin(w) \/ Step(w), NEW v \in Writers, v # w
  PROVE  /\ pc'[v] = pc[v] /\ call'[v] = call[v] /\ picked'[v] = picked[v]
         /\ tries'[v] = tries[v] /\ base'[v] = base[v]
  BY DEF CallsType, Begin, Step, Select, Skip, Insert, Collide, Return

\* Only Insert changes the table.
LEMMA OthersRead ==
  ASSUME NEW w \in Writers, Begin(w) \/ Select(w) \/ Skip(w) \/ Collide(w)
  PROVE  UNCHANGED rows
  BY DEF Begin, Select, Skip, Collide, Return

\* The table never shrinks.
LEMMA RowsGrow ==
  ASSUME RowsAreSequences, CallsType, PickedWasNext, NEW w \in Writers, Begin(w) \/ Step(w)
  PROVE  /\ RowsAreSequences'
         /\ \A p \in Promotions : /\ Len(rows'[p]) \in Nat /\ Len(rows'[p]) >= Len(rows[p])
                                  /\ \A e : Recorded(p, e) => Recorded(p, e)'
<1>1. CASE Insert(w)
  <2>1. RowsAreSequences'
    BY <1>1, InsertAppends
  <2>2. ASSUME NEW p \in Promotions
        PROVE  /\ Len(rows'[p]) \in Nat /\ Len(rows'[p]) >= Len(rows[p])
               /\ \A e : Recorded(p, e) => Recorded(p, e)'
    <3>1. Len(rows[p]) \in Nat
      BY SeqsOf
    <3>2. /\ Len(rows'[p]) \in {Len(rows[p]), Len(rows[p]) + 1}
          /\ \A s \in Seqs(p) : s \in Seqs(p)' /\ rows'[p][s] = rows[p][s]
      BY <1>1, InsertKeeps
    <3>3. Len(rows'[p]) \in Nat /\ Len(rows'[p]) >= Len(rows[p])
      BY <3>1, <3>2
    <3>4. \A e : Recorded(p, e) => Recorded(p, e)'
      BY <3>2 DEF Recorded
    <3> QED BY <3>3, <3>4
  <2> QED BY <2>1, <2>2
<1>2. CASE ~Insert(w)
  <2>1. UNCHANGED rows
    BY <1>2, OthersRead DEF Step
  <2>2. \A p \in Promotions : Len(rows[p]) \in Nat
    BY SeqsOf
  <2> QED BY <2>1, <2>2 DEF RowsAreSequences, Recorded, Seqs
<1> QED BY <1>1, <1>2

-----------------------------------------------------------------------------
(* The calls.                                                              *)

LEMMA CallsTypeKept ==
  ASSUME RowsAreSequences, CallsType, NEW w \in Writers, Begin(w) \/ Step(w)
  PROVE  CallsType'
<1>1. call[w].promotion \in Promotions
  BY DEF CallsType, Calls
<1>2. NextSeq(call[w].promotion) \in Nat
  BY <1>1, SeqsOf, NextSeqIsNext
<1>3. CASE Begin(w)
  <2>1. \A c \in Calls : Cardinality(Seqs(c.promotion)) \in Nat
    BY SeqsOf DEF Calls
  <2> QED BY <1>3, <2>1, AttemptsArePositive DEF CallsType, Begin
<1>4. CASE Select(w)
  BY <1>4, <1>2 DEF CallsType, Select
<1>5. CASE Skip(w)
  BY <1>5, AttemptsArePositive DEF CallsType, Skip, Return
<1>6. CASE Insert(w)
  BY <1>6, AttemptsArePositive DEF CallsType, Insert, Return
<1>7. CASE Collide(w)
  <2>1. CASE tries[w] + 1 = Attempts
    BY <1>7, <2>1, AttemptsArePositive DEF CallsType, Collide, Return
  <2>2. CASE tries[w] + 1 # Attempts
    <3>1. tries[w] + 1 \in 0 .. Attempts - 1
      BY <2>2, AttemptsArePositive DEF CallsType
    <3> QED BY <1>7, <2>2, <3>1 DEF CallsType, Collide
  <2> QED BY <2>1, <2>2
<1> QED BY <1>3, <1>4, <1>5, <1>6, <1>7 DEF Step

LEMMA PickedKept ==
  ASSUME RowsAreSequences, CallsType, PickedWasNext, NEW w \in Writers, Begin(w) \/ Step(w)
  PROVE  PickedWasNext'
<1> SUFFICES ASSUME NEW v \in Writers, pc'[v] = "insert"
             PROVE  picked'[v] \in 1 .. Len(rows'[call'[v].promotion]) + 1
  BY DEF PickedWasNext, Count
<1> DEFINE p == call[v].promotion
<1>1. p \in Promotions
  BY DEF CallsType, Calls
<1>2. Len(rows[p]) \in Nat /\ Len(rows'[p]) \in Nat /\ Len(rows'[p]) >= Len(rows[p])
  BY <1>1, SeqsOf, RowsGrow
<1>3. CASE v # w
  <2>1. pc[v] = "insert" /\ picked'[v] = picked[v] /\ call'[v] = call[v]
    BY <1>3, OthersStay
  <2>2. picked[v] \in 1 .. Len(rows[p]) + 1
    BY <2>1 DEF PickedWasNext, Count
  <2> QED BY <1>2, <2>1, <2>2
<1>4. CASE v = w
  <2>1. Select(w)
    BY <1>4 DEF Begin, Step, Select, Skip, Insert, Collide, Return, CallsType
  <2>2. picked'[w] = Len(rows[p]) + 1 /\ UNCHANGED <<rows, call>>
    BY <2>1, <1>1, <1>4, NextSeqIsNext DEF Select, CallsType
  <2> QED BY <1>2, <1>4, <2>2
<1> QED BY <1>3, <1>4

LEMMA CollisionsKept ==
  ASSUME RowsAreSequences, CallsType, PickedWasNext, CollisionsArePaid,
         NEW w \in Writers, Begin(w) \/ Step(w)
  PROVE  CollisionsArePaid'
<1> SUFFICES ASSUME NEW v \in Writers
             PROVE  /\ pc'[v] = "select" => Len(rows'[call'[v].promotion]) >= base'[v] + tries'[v]
                    /\ pc'[v] = "insert" => picked'[v] >= base'[v] + tries'[v] + 1
                    /\ pc'[v] = "raised" => Len(rows'[call'[v].promotion]) >= base'[v] + Attempts
  BY DEF CollisionsArePaid, Count
<1> DEFINE p == call[v].promotion
<1>1. p \in Promotions /\ base[v] \in Nat /\ tries[v] \in Nat /\ picked[v] \in Nat /\ Attempts \in Nat
  BY AttemptsArePositive DEF CallsType, Calls
<1>2. Len(rows[p]) \in Nat /\ Len(rows'[p]) \in Nat /\ Len(rows'[p]) >= Len(rows[p])
  BY <1>1, SeqsOf, RowsGrow
<1>3. /\ pc[v] = "select" => Len(rows[p]) >= base[v] + tries[v]
      /\ pc[v] = "insert" => picked[v] >= base[v] + tries[v] + 1
      /\ pc[v] = "raised" => Len(rows[p]) >= base[v] + Attempts
  BY DEF CollisionsArePaid, Count
<1>4. CASE v # w
  <2>1. /\ pc'[v] = pc[v] /\ call'[v] = call[v] /\ picked'[v] = picked[v]
        /\ tries'[v] = tries[v] /\ base'[v] = base[v]
    BY <1>4, OthersStay
  <2> QED BY <1>1, <1>2, <1>3, <2>1
<1>5. CASE v = w /\ Begin(w)
  <2>1. PICK c \in Calls : call' = [call EXCEPT ![w] = c]
                          /\ base' = [base EXCEPT ![w] = Cardinality(Seqs(c.promotion))]
    BY <1>5 DEF Begin
  <2>2. c.promotion \in Promotions
    BY DEF Calls
  <2>3. Cardinality(Seqs(c.promotion)) = Len(rows[c.promotion]) /\ Len(rows[c.promotion]) \in Nat
    BY <2>2, SeqsOf
  <2>4. /\ pc'[v] = "select" /\ tries'[v] = 0 /\ UNCHANGED rows
        /\ call'[v] = c /\ base'[v] = Len(rows[c.promotion])
    BY <1>5, <2>1, <2>3 DEF Begin, CallsType
  <2> QED BY <2>3, <2>4
<1>6. CASE v = w /\ Select(w)
  <2>1. /\ pc[v] = "select" /\ pc'[v] = "insert" /\ picked'[v] = Len(rows[p]) + 1
        /\ UNCHANGED <<tries, base>>
    BY <1>1, <1>6, NextSeqIsNext DEF Select, CallsType
  <2> QED BY <1>1, <1>2, <1>3, <2>1
<1>7. CASE v = w /\ (Skip(w) \/ Insert(w))
  <2>1. pc'[v] \in {"skipped", "recorded"}
    BY <1>7 DEF Skip, Insert, Return, CallsType
  <2> QED BY <2>1
<1>8. CASE v = w /\ Collide(w)
  <2>1. pc[v] = "insert" /\ picked[v] \in Seqs(p) /\ UNCHANGED <<rows, call, base>>
    BY <1>8 DEF Collide, Return
  <2>2. Len(rows[p]) >= picked[v]
    BY <2>1, <1>1, <1>2, SeqsOf
  <2>3. CASE tries[w] + 1 = Attempts
    <3>1. pc'[v] = "raised"
      BY <1>8, <2>3 DEF Collide, Return, CallsType
    <3> QED BY <1>1, <1>2, <1>3, <1>8, <2>1, <2>2, <2>3, <3>1
  <2>4. CASE tries[w] + 1 # Attempts
    <3>1. pc'[v] = "select" /\ tries'[v] = tries[v] + 1
      BY <1>8, <2>4 DEF Collide, CallsType
    <3> QED BY <1>1, <1>2, <1>3, <1>8, <2>1, <2>2, <3>1
  <2> QED BY <2>3, <2>4
<1> QED BY <1>4, <1>5, <1>6, <1>7, <1>8 DEF Step

-----------------------------------------------------------------------------
(* The trail and the answers.                                              *)

LEMMA MilestoneKept ==
  ASSUME RowsAreSequences, CallsType, PickedWasNext, MilestoneOnce,
         NEW w \in Writers, Begin(w) \/ Step(w)
  PROVE  MilestoneOnce'
<1>1. CASE Insert(w)
  <2> SUFFICES ASSUME NEW p \in Promotions, NEW s \in Seqs(p)', NEW t \in Seqs(p)',
                      rows'[p][s] = rows'[p][t], rows'[p][s] \notin RecurringEvents
               PROVE  s = t
    BY DEF MilestoneOnce
  <2>1. /\ \A i \in Seqs(p) : i \in Seqs(p)' /\ rows'[p][i] = rows[p][i]
        /\ \A i \in Seqs(p)' \ Seqs(p) :
             p = call[w].promotion /\ i = Len(rows[p]) + 1 /\ rows'[p][i] = call[w].event
    BY <1>1, InsertKeeps
  <2>2. \A e : e = call[w].event /\ e \notin RecurringEvents => ~Recorded(call[w].promotion, e)
    BY <1>1 DEF Insert, Conflicts, IndexExempt, RecurringEvents
  <2>3. CASE s \in Seqs(p) /\ t \in Seqs(p)
    BY <2>1, <2>3 DEF MilestoneOnce
  <2>4. CASE s \notin Seqs(p) /\ t \notin Seqs(p)
    BY <2>1, <2>4
  <2>5. CASE s \in Seqs(p) /\ t \notin Seqs(p)
    BY <2>1, <2>2, <2>5 DEF Recorded
  <2>6. CASE s \notin Seqs(p) /\ t \in Seqs(p)
    BY <2>1, <2>2, <2>6 DEF Recorded
  <2> QED BY <2>3, <2>4, <2>5, <2>6
<1>2. CASE ~Insert(w)
  BY <1>2, OthersRead DEF Step, MilestoneOnce, Seqs
<1> QED BY <1>1, <1>2

LEMMA SkippedKept ==
  ASSUME RowsAreSequences, CallsType, PickedWasNext, SkippedIsRecorded,
         NEW w \in Writers, Begin(w) \/ Step(w)
  PROVE  SkippedIsRecorded'
<1> SUFFICES ASSUME NEW v \in Writers, pc'[v] = "skipped"
             PROVE  Recorded(call[v].promotion, call[v].event)'
  BY DEF SkippedIsRecorded
<1>1. call[v].promotion \in Promotions
  BY DEF CallsType, Calls
<1>2. call'[v] = call[v] /\ Recorded(call[v].promotion, call[v].event)
  <2>1. CASE v # w
    BY <2>1, OthersStay DEF SkippedIsRecorded
  <2>2. CASE v = w
    <3>1. Skip(w)
      BY <2>2 DEF Begin, Step, Select, Skip, Insert, Collide, Return, CallsType
    <3> QED BY <2>2, <3>1 DEF Skip, Return, Conflicts
  <2> QED BY <2>1, <2>2
<1>3. \A p \in Promotions : \A e : Recorded(p, e) => \E s \in DOMAIN rows'[p] : rows'[p][s] = e
  BY RowsGrow DEF Recorded, Seqs
<1>4. \E s \in DOMAIN rows'[call[v].promotion] : rows'[call[v].promotion][s] = call[v].event
  BY <1>1, <1>2, <1>3
<1> QED BY <1>2, <1>4 DEF Recorded, Seqs

-----------------------------------------------------------------------------
(* The theorems.                                                           *)

LEMMA AuditInvHolds == Spec => []AuditInv
<1>1. Init => AuditInv
  <2> SUFFICES ASSUME Init PROVE AuditInv
    OBVIOUS
  <2>1. RowsAreSequences
    BY EmptySeq DEF Init, RowsAreSequences
  <2>2. CallsType
    BY AttemptsArePositive DEF Init, CallsType
  <2>3. \A p \in Promotions : Seqs(p) = {}
    BY DEF Init, Seqs
  <2>4. MilestoneOnce
    BY <2>3 DEF MilestoneOnce
  <2>5. PickedWasNext /\ CollisionsArePaid /\ SkippedIsRecorded
    BY DEF Init, PickedWasNext, CollisionsArePaid, SkippedIsRecorded
  <2> QED BY <2>1, <2>2, <2>4, <2>5 DEF AuditInv
<1>2. AuditInv /\ [Next]_vars => AuditInv'
  <2> SUFFICES ASSUME AuditInv, [Next]_vars PROVE AuditInv'
    OBVIOUS
  <2>1. CASE \E w \in Writers : Begin(w) \/ Step(w)
    BY <2>1, RowsGrow, CallsTypeKept, PickedKept, CollisionsKept, MilestoneKept, SkippedKept
    DEF AuditInv
  <2>2. CASE UNCHANGED vars
    BY <2>2 DEF vars, AuditInv, RowsAreSequences, CallsType, PickedWasNext, CollisionsArePaid,
                Count, MilestoneOnce, SkippedIsRecorded, Recorded, Seqs
  <2> QED BY <2>1, <2>2 DEF Next
<1> QED BY <1>1, <1>2, PTL DEF Spec

\* Every variable keeps its type.
THEOREM AuditTypeCorrect == Spec => []TypeOK
<1>1. AuditInv => TypeOK
  <2> SUFFICES ASSUME AuditInv PROVE TypeOK
    OBVIOUS
  <2>1. DOMAIN rows = Promotions
    BY DEF AuditInv, RowsAreSequences
  <2>2. ASSUME NEW p \in Promotions
        PROVE  /\ rows[p] = [s \in Seqs(p) |-> rows[p][s]]
               /\ \A s \in Seqs(p) : s \in Nat /\ rows[p][s] \in Events
    <3>1. rows[p] \in Seq(Events) /\ Len(rows[p]) \in Nat /\ Seqs(p) = 1 .. Len(rows[p])
      BY SeqsOf DEF AuditInv
    <3>2. rows[p] = [s \in 1 .. Len(rows[p]) |-> rows[p][s]] /\ \A s \in 1 .. Len(rows[p]) : rows[p][s] \in Events
      BY <3>1, LenProperties, ElementOfSeq
    <3> QED BY <3>1, <3>2
  <2> QED BY <2>1, <2>2 DEF TypeOK, AuditInv, CallsType
<1> QED BY <1>1, AuditInvHolds, PTL

\* However the appends interleave, the trail has no gap (promotion_store.py, insert_audit_event).
THEOREM TrailIsGapless == Spec => []Gapless
<1>1. AuditInv => Gapless
  BY SeqsOf DEF AuditInv, Gapless
<1> QED BY <1>1, AuditInvHolds, PTL

\* A milestone is in the trail at most once (uq_audit_milestone).
THEOREM MilestonesAreUnique == Spec => []MilestoneOnce
<1>1. AuditInv => MilestoneOnce
  BY DEF AuditInv
<1> QED BY <1>1, AuditInvHolds, PTL

\* None means that the milestone is there, UniqueViolation that as many rows as there were
\* attempts have come in between (append_audit_event).
THEOREM AnswersAreTrueAlways == Spec => []AnswersAreTrue
<1>1. AuditInv => RaisesOnlyUnderContention
  <2> SUFFICES ASSUME AuditInv, NEW w \in Writers, pc[w] = "raised"
               PROVE  Cardinality(Seqs(call[w].promotion)) >= base[w] + Attempts
    BY DEF RaisesOnlyUnderContention
  <2>1. call[w].promotion \in Promotions
    BY DEF AuditInv, CallsType, Calls
  <2>2. Cardinality(Seqs(call[w].promotion)) = Len(rows[call[w].promotion])
    BY <2>1, SeqsOf DEF AuditInv
  <2> QED BY <2>2 DEF AuditInv, CollisionsArePaid, Count
<1>2. AuditInv => AnswersAreTrue
  BY <1>1 DEF AuditInv, AnswersAreTrue
<1> QED BY <1>2, AuditInvHolds, PTL

\* The concurrent appends implement the append-only log: each is one entry at its end, not there
\* before if it is a milestone, or nothing.
THEOREM AppendsImplementLog == Spec => ImplementsLog
<1>1. Init => Log!LInit
  BY DEF Init, Log!LInit
<1>2. AuditInv /\ [Next]_vars => [Log!LNext]_rows
  <2> SUFFICES ASSUME AuditInv, [Next]_vars PROVE [Log!LNext]_rows
    OBVIOUS
  <2>1. ASSUME NEW w \in Writers, Insert(w) PROVE Log!LNext
    <3> DEFINE p == call[w].promotion
               e == call[w].event
    <3>1. /\ p \in Promotions /\ e \in Events
          /\ rows' = [rows EXCEPT ![p] = Append(@, e)]
      BY <2>1, InsertAppends DEF AuditInv
    <3>2. e \in RecurringEvents \/ e \notin Log!Recorded(p)
      <4>1. Seqs(p) = 1 .. Len(rows[p])
        BY <3>1, SeqsOf DEF AuditInv
      <4> QED BY <2>1, <4>1
              DEF Insert, Conflicts, IndexExempt, RecurringEvents, Recorded, Log!Recorded
    <3> QED BY <3>1, <3>2 DEF Log!LNext, Log!Record
  <2>2. CASE UNCHANGED vars
    BY <2>2 DEF vars
  <2>3. CASE Next
    BY <2>1, <2>3, OthersRead DEF Next, Step
  <2> QED BY <2>2, <2>3
<1> QED BY <1>1, <1>2, AuditInvHolds, PTL DEF Spec, ImplementsLog, Log!LSpec

=============================================================================
