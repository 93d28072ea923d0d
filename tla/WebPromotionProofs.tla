------------------------- MODULE WebPromotionProofs --------------------------
(***************************************************************************)
(* What the page of one promotion shows belongs together, and what it says *)
(* is loading is, for any number of resources, promotions, runs, acts,     *)
(* calls and failures, until the page takes an answer it did not wait for; *)
(* what it marks as fresh, and as the steps of a run, is, even then.       *)
(***************************************************************************)
EXTENDS WebPromotion, TLAPS

-----------------------------------------------------------------------------
(* The inductive invariant, of a page u and a set C of calls in flight.    *)

Syncs == [refreshing : BOOLEAN, fresh : BOOLEAN, error : OrNone(Promotions),
          evidenceLoading : BOOLEAN, evidenceError : OrNone(Promotions)]

Pages == [resource : OrNone(Resources), phase : {"idle", "reviewing", "reviewed", "error"},
          review : OrNone(Resources), error : OrNone(Resources \cup Promotions),
          pr : OrNone(Promotions), liveStatus : OrNone(Statuses), sync : Syncs,
          evidenceRun : OrNone(Runs), promotionId : OrNone(Promotions),
          audit : OrNone(Promotions), opening : BOOLEAN, noChange : BOOLEAN, declared : BOOLEAN]

Has(C, op, x) == \E c \in C : c.op = op /\ c.of = x

\* The properties, of a page: what its selection, its status and its marks say of one another.
Selection(u) ==
  /\ u.review # None => u.review = u.resource
  /\ u.pr # None => u.promotionId = u.pr /\ ResourceOf[u.pr] = u.resource
  /\ u.audit # None => \/ u.audit = u.promotionId
                       \/ u.resource # None /\ ResourceOf[u.audit] = u.resource
  /\ u.error # None => u.error \in {u.resource, u.promotionId}
  /\ u.resource # None /\ u.promotionId # None => ResourceOf[u.promotionId] = u.resource

Marks(u) ==
  /\ u.liveStatus # None =>
       /\ u.liveStatus.steps \in {None, u.liveStatus.run}
       /\ u.liveStatus.run # None => u.evidenceRun \in {None, u.liveStatus.run}
  /\ u.sync.fresh => u.liveStatus # None /\ u.liveStatus.live

Status(u) ==
  /\ Marks(u)
  /\ u.liveStatus # None => u.liveStatus.of = u.pr
  /\ u.sync.error # None => u.sync.error = u.pr
  /\ u.sync.evidenceError # None => u.sync.evidenceError = u.pr

Loads(u, C) ==
  /\ u.opening => Has(C, "open", u.promotionId)
  /\ u.phase = "reviewing" => Has(C, "promote", u.resource)
  /\ u.sync.refreshing => Has(C, "status", u.pr)
  /\ u.sync.evidenceLoading => Has(C, "evidence", u.pr)

\* A page whose request is reviewed shows nothing of an earlier pull request.
Reviewing(u) ==
  u.phase = "reviewing" =>
    u.pr = None /\ u.liveStatus = None /\ u.sync = Unasked /\ u.evidenceRun = None /\ u.error = None

PageOK(u, C) == u \in Pages /\ C \subseteq Calls /\ Selection(u) /\ Status(u) /\ Loads(u, C) /\ Reviewing(u)

Settled == PageOK(ui, DOMAIN calls)

\* Of every page: types and marks.
MarksInv == ui \in Pages /\ DOMAIN calls \subseteq Calls /\ Marks(ui)

\* ... and of a page that has taken no answer but those it waited for.
PageInv == MarksInv /\ mixed \in BOOLEAN /\ (~mixed => Settled)

-----------------------------------------------------------------------------
(* The calls in flight.                                                    *)

LEMMA Removed ==
  ASSUME NEW c \in DOMAIN calls
  PROVE  DOMAIN Rest(c) \subseteq DOMAIN calls /\ DOMAIN calls \ {c} \subseteq DOMAIN Rest(c)
BY DEF Rest, BagRemove

LEMMA Added == ASSUME NEW B, NEW x PROVE DOMAIN BagAdd(B, x) = DOMAIN B \cup {x}
<1>1. CASE x \in DOMAIN B
  BY <1>1 DEF BagAdd
<1>2. CASE x \notin DOMAIN B
  BY <1>2 DEF BagAdd
<1> QED BY <1>1, <1>2

\* The trail of the page, asked for beside the rest.
Trail(u) == {Call("audit", p) : p \in {u.promotionId} \ {None}}

LEMMA TrailAsked ==
  ASSUME NEW B, NEW u
  PROVE  DOMAIN (B (+) AuditCalls(u)) = DOMAIN B \cup Trail(u)
<1> DEFINE A == AuditCalls(u)
<1>1. DOMAIN A = Trail(u)
  BY DEF AuditCalls, EmptyBag, SetToBag, Trail
<1> HIDE DEF A
<1>2. DOMAIN (B (+) A) = DOMAIN B \cup DOMAIN A
  BY DEF (+)
<1> QED BY <1>1, <1>2 DEF A

LEMMA ACall == ASSUME NEW op, NEW x PROVE Call(op, x).op = op /\ Call(op, x).of = x
BY DEF Call

LEMMA CallsAreCalls ==
  /\ \A p \in Promotions : \A op \in {"recover", "open", "openById", "status", "audit"} : Call(op, p) \in Calls
  /\ \A r \in Resources : Call("promote", r) \in Calls
BY DEF Calls, Call

LEMMA CallsAreOf ==
  ASSUME NEW c \in Calls
  PROVE  /\ c.op \in {"recover", "open", "openById", "status", "audit", "evidence"} => c.of \in Promotions
         /\ c.op = "promote" => c.of \in Resources /\ c = Call("promote", c.of)
BY DEF Calls, Call

LEMMA CallSent == ASSUME NEW B, DOMAIN B \subseteq Calls, NEW x \in Calls PROVE DOMAIN BagAdd(B, x) \subseteq Calls
<1>1. DOMAIN BagAdd(B, x) = DOMAIN B \cup {x}
  BY Added
<1> QED BY <1>1

LEMMA TrailSent ==
  ASSUME NEW B, NEW u \in Pages, DOMAIN B \subseteq Calls
  PROVE  DOMAIN (B (+) AuditCalls(u)) \subseteq Calls
<1>1. Trail(u) \subseteq Calls
  BY CallsAreCalls DEF Trail, Pages, OrNone
<1> QED BY <1>1, TrailAsked

\* More calls in flight.
LEMMA More ==
  ASSUME NEW u, NEW C, NEW D \in SUBSET Calls, PageOK(u, C), C \subseteq D
  PROVE  PageOK(u, D)
<1>1. \A op, x : Has(C, op, x) => Has(D, op, x)
  BY DEF Has
<1> QED BY <1>1 DEF PageOK, Loads

-----------------------------------------------------------------------------
(* The page.                                                               *)

\* Two pages that differ at most in their sync.
SameBesides(v, u) ==
  /\ v.resource = u.resource /\ v.phase = u.phase /\ v.review = u.review /\ v.error = u.error /\ v.pr = u.pr
  /\ v.liveStatus = u.liveStatus /\ v.evidenceRun = u.evidenceRun /\ v.promotionId = u.promotionId
  /\ v.audit = u.audit /\ v.opening = u.opening

LEMMA SyncReplaced ==
  ASSUME NEW u \in Pages, NEW s \in Syncs
  PROVE  /\ [u EXCEPT !.sync = s] \in Pages /\ SameBesides([u EXCEPT !.sync = s], u)
         /\ [u EXCEPT !.sync = s].sync = s
BY DEF Pages, SameBesides

LEMMA Refreshed ==
  ASSUME NEW u, NEW C, PageOK(u, C), CanRefresh(u), Has(C, "status", u.pr)
  PROVE  PageOK(Refreshing(u), C)
<1> DEFINE s == [u.sync EXCEPT !.refreshing = TRUE, !.error = None]
           v == [u EXCEPT !.sync = s]
<1>1. u \in Pages /\ u.sync \in Syncs
  BY DEF PageOK, Pages
<1>2. v = Refreshing(u)
  BY <1>1 DEF Refreshing, Pages
<1>3. /\ s \in Syncs /\ s.error = None /\ s.fresh = u.sync.fresh /\ s.evidenceLoading = u.sync.evidenceLoading
      /\ s.evidenceError = u.sync.evidenceError
  BY <1>1 DEF Syncs, OrNone
<1> HIDE DEF s
<1>4. v \in Pages /\ SameBesides(v, u) /\ v.sync = s
  BY <1>1, <1>3, SyncReplaced
<1> HIDE DEF v
<1>5. Selection(v) /\ Status(v) /\ Loads(v, C)
  BY <1>3, <1>4 DEF PageOK, Selection, Status, Marks, Loads, SameBesides
<1>6. Reviewing(v)
  BY <1>4 DEF PageOK, Reviewing, SameBesides, CanRefresh
<1> QED BY <1>2, <1>4, <1>5, <1>6 DEF PageOK

\* What is shown asks for the status and the trail of its pull request.
LEMMA ShowKeeps ==
  ASSUME NEW u, NEW rest, PageOK(u, DOMAIN rest), Show(u, rest)
  PROVE  Settled'
<1> DEFINE asks == u.phase # "idle" /\ CanRefresh(u)
<1>1. CASE ~asks
  <2>1. ui' = u /\ calls' = rest
    BY <1>1 DEF Show
  <2> QED BY <2>1 DEF Settled
<1>2. CASE asks
  <2> DEFINE c == Call("status", u.pr)
             B == BagAdd(rest, c)
             C == DOMAIN B \cup Trail(u)
  <2>1. ui' = Refreshing(u) /\ calls' = B (+) AuditCalls(u)
    BY <1>2 DEF Show
  <2>2. u \in Pages /\ u.pr \in Promotions /\ DOMAIN rest \subseteq Calls
    BY <1>2 DEF PageOK, Pages, CanRefresh, OrNone
  <2>3. c \in Calls /\ c.op = "status" /\ c.of = u.pr
    BY <2>2, CallsAreCalls, ACall
  <2> HIDE DEF c
  <2>4. DOMAIN B = DOMAIN rest \cup {c}
    BY Added
  <2>5. Trail(u) \subseteq Calls
    BY <2>2, CallsAreCalls DEF Trail, Pages, OrNone
  <2> HIDE DEF B
  <2>6. DOMAIN calls' = C
    BY <2>1, TrailAsked
  <2>7. C \in SUBSET Calls /\ DOMAIN rest \subseteq C /\ Has(C, "status", u.pr)
    BY <2>2, <2>3, <2>4, <2>5 DEF Has
  <2> HIDE DEF C
  <2>8. PageOK(u, C)
    BY <2>7, More
  <2>9. PageOK(Refreshing(u), C)
    BY <1>2, <2>7, <2>8, Refreshed
  <2> QED BY <2>1, <2>6, <2>9 DEF Settled
<1> QED BY <1>1, <1>2

-----------------------------------------------------------------------------
(* The user and the interval.                                              *)

LEMMA UnaskedIsASync ==
  /\ Unasked \in Syncs /\ Unasked.fresh = FALSE /\ Unasked.refreshing = FALSE /\ Unasked.evidenceLoading = FALSE
  /\ Unasked.error = None /\ Unasked.evidenceError = None
BY DEF Unasked, Syncs, OrNone

\* A page that shows a selection, or a promotion that is being opened, and nothing else.
Bare(v, r, p, opening) ==
  /\ v \in Pages /\ v.resource = r /\ v.promotionId = p /\ v.opening = opening /\ v.phase = "idle"
  /\ v.review = None /\ v.error = None /\ v.pr = None /\ v.liveStatus = None /\ v.sync = Unasked
  /\ v.evidenceRun = None /\ v.audit = None

LEMMA BlankIsBare == ASSUME NEW r \in OrNone(Resources) PROVE Bare(Blank(r), r, None, FALSE)
BY UnaskedIsASync DEF Bare, Blank, Pages, OrNone

LEMMA OpeningIsBare ==
  ASSUME NEW p \in Promotions
  PROVE  /\ Bare([Blank(None) EXCEPT !.promotionId = p, !.opening = TRUE], None, p, TRUE)
         /\ Bare([Blank(None) EXCEPT !.promotionId = p], None, p, FALSE)
<1> DEFINE b == Blank(None)
<1>1. Bare(b, None, None, FALSE)
  BY BlankIsBare DEF OrNone
<1> HIDE DEF b
<1>2. p \in OrNone(Promotions)
  BY DEF OrNone
<1>3. Bare([b EXCEPT !.promotionId = p, !.opening = TRUE], None, p, TRUE)
  BY <1>1, <1>2 DEF Bare, Pages
<1>4. Bare([b EXCEPT !.promotionId = p], None, p, FALSE)
  BY <1>1, <1>2 DEF Bare, Pages
<1> QED BY <1>3, <1>4 DEF b

LEMMA BareIsOK ==
  ASSUME NEW v, NEW r, NEW p, NEW opening, Bare(v, r, p, opening),
         NEW C \in SUBSET Calls, opening => Has(C, "open", p), r = None \/ p = None
  PROVE  PageOK(v, C)
<1>1. Selection(v) /\ Status(v)
  BY UnaskedIsASync DEF Bare, Selection, Status, Marks
<1>2. Loads(v, C) /\ Reviewing(v)
  BY UnaskedIsASync DEF Bare, Loads, Reviewing
<1> QED BY <1>1, <1>2 DEF PageOK, Bare

\* What the user turns to is bare, whatever the page had taken before.
LEMMA SelectStep ==
  ASSUME DOMAIN calls \subseteq Calls, NEW r \in OrNone(Resources), Select(r)
  PROVE  Settled'
<1>1. ui' = Blank(r) /\ UNCHANGED calls
  BY DEF Select, Selected
<1>2. PageOK(Blank(r), DOMAIN calls)
  BY BlankIsBare, BareIsOK
<1> QED BY <1>1, <1>2 DEF Settled

LEMMA OpenStep ==
  ASSUME DOMAIN calls \subseteq Calls, NEW p \in Promotions, Open(p) \/ OpenById(p)
  PROVE  Settled'
<1>1. PICK op \in {"open", "openById"}, opening \in BOOLEAN :
        /\ Bare(ui', None, p, opening) /\ calls' = BagAdd(calls, Call(op, p))
        /\ opening => op = "open"
  BY OpeningIsBare DEF Open, OpenById, Selected
<1> DEFINE c == Call(op, p)
           D == DOMAIN calls \cup {c}
<1>2. c \in Calls /\ c.op = op /\ c.of = p
  BY CallsAreCalls, ACall
<1> HIDE DEF c
<1>3. DOMAIN calls' = D
  BY <1>1, Added DEF c
<1>4. D \in SUBSET Calls /\ (opening => Has(D, "open", p))
  BY <1>1, <1>2 DEF Has
<1> HIDE DEF D
<1>5. PageOK(ui', D)
  BY <1>1, <1>4, BareIsOK
<1> QED BY <1>3, <1>5 DEF Settled

LEMMA DeclareStep == ASSUME Settled, Declare PROVE Settled'
<1> DEFINE v == [ui EXCEPT !.declared = TRUE]
<1>1. ui' = v /\ UNCHANGED calls
  BY DEF Declare
<1>2. v \in Pages /\ SameBesides(v, ui) /\ v.sync = ui.sync
  BY DEF Settled, PageOK, Pages, SameBesides
<1> HIDE DEF v
<1>3. PageOK(v, DOMAIN calls)
  BY <1>2 DEF Settled, PageOK, SameBesides, Selection, Status, Marks, Loads, Reviewing
<1> QED BY <1>1, <1>3 DEF Settled

LEMMA RequestStep == ASSUME Settled, RequestPromotion PROVE Settled'
<1> DEFINE C == DOMAIN calls
<1>1. ui.resource \in Resources /\ ui \in Pages /\ C \subseteq Calls /\ PageOK(ui, C)
  BY DEF RequestPromotion, Settled, PageOK, Pages, OrNone
<1> HIDE DEF C
<1>2. CASE ui.declared
  <2> DEFINE v == [ui EXCEPT !.phase = "reviewing", !.review = None, !.error = None, !.pr = None,
                             !.liveStatus = None, !.sync = Unasked, !.evidenceRun = None, !.noChange = FALSE]
             c == Call("promote", ui.resource)
             D == C \cup {c}
  <2>1. ui' = v /\ calls' = BagAdd(calls, c)
    BY <1>2 DEF RequestPromotion
  <2>2. /\ v \in Pages /\ v.resource = ui.resource /\ v.promotionId = ui.promotionId /\ v.opening = ui.opening
        /\ v.phase = "reviewing" /\ v.review = None /\ v.error = None /\ v.pr = None /\ v.liveStatus = None
        /\ v.sync = Unasked /\ v.evidenceRun = None /\ v.audit = ui.audit
    BY <1>1, UnaskedIsASync DEF Pages, OrNone
  <2> HIDE DEF v
  <2>3. c \in Calls /\ c.op = "promote" /\ c.of = ui.resource
    BY <1>1, CallsAreCalls, ACall
  <2> HIDE DEF c
  <2>4. DOMAIN calls' = D
    BY <2>1, Added DEF C
  <2>5. D \subseteq Calls /\ Has(D, "promote", ui.resource) /\ \A op, x : Has(C, op, x) => Has(D, op, x)
    BY <1>1, <2>3 DEF Has
  <2> HIDE DEF D
  <2>6. Selection(v) /\ Status(v)
    BY <1>1, <2>2, UnaskedIsASync DEF PageOK, Selection, Status, Marks
  <2>7. Loads(v, D) /\ Reviewing(v)
    BY <1>1, <2>2, <2>5, UnaskedIsASync DEF PageOK, Loads, Reviewing
  <2> QED BY <2>1, <2>2, <2>4, <2>5, <2>6, <2>7 DEF Settled, PageOK
<1>3. CASE ~ui.declared
  <2> DEFINE v == [ui EXCEPT !.phase = "error", !.error = ui.resource]
  <2>1. ui' = v /\ UNCHANGED calls
    BY <1>3 DEF RequestPromotion
  <2>2. /\ v \in Pages /\ v.resource = ui.resource /\ v.promotionId = ui.promotionId /\ v.opening = ui.opening
        /\ v.phase = "error" /\ v.review = ui.review /\ v.error = ui.resource /\ v.pr = ui.pr
        /\ v.liveStatus = ui.liveStatus /\ v.sync = ui.sync /\ v.evidenceRun = ui.evidenceRun /\ v.audit = ui.audit
    BY <1>1 DEF Pages, OrNone
  <2> HIDE DEF v
  <2>3. Selection(v) /\ Status(v) /\ Loads(v, C) /\ Reviewing(v)
    BY <1>1, <2>2 DEF PageOK, Selection, Status, Marks, Loads, Reviewing
  <2> QED BY <1>1, <2>1, <2>2, <2>3 DEF Settled, PageOK, C
<1> QED BY <1>1, <1>2, <1>3 DEF Pages

\* Calls that only read: the user retries the status, the interval polls.
LEMMA PollStep ==
  ASSUME Settled, RetryStatus \/ Tick
  PROVE  Settled'
<1> DEFINE c == Call("status", ui.pr)
           D == DOMAIN calls \cup {c}
<1>1. CanRefresh(ui) /\ ui' = Refreshing(ui) /\ calls' = BagAdd(calls, c)
  BY DEF RetryStatus, Tick
<1>2. ui \in Pages /\ ui.pr \in Promotions /\ PageOK(ui, DOMAIN calls) /\ DOMAIN calls \subseteq Calls
  BY <1>1 DEF Settled, PageOK, Pages, CanRefresh, OrNone
<1>3. c \in Calls /\ c.op = "status" /\ c.of = ui.pr
  BY <1>2, CallsAreCalls, ACall
<1> HIDE DEF c
<1>4. DOMAIN calls' = D
  BY <1>1, Added
<1>5. D \in SUBSET Calls /\ DOMAIN calls \subseteq D /\ Has(D, "status", ui.pr)
  BY <1>2, <1>3 DEF Has
<1> HIDE DEF D
<1>6. PageOK(ui, D)
  BY <1>2, <1>5, More
<1>7. PageOK(Refreshing(ui), D)
  BY <1>1, <1>5, <1>6, Refreshed
<1> QED BY <1>1, <1>4, <1>7 DEF Settled

LEMMA TickAuditStep == ASSUME Settled, TickAudit PROVE Settled'
<1>1. calls' = calls (+) AuditCalls(ui) /\ UNCHANGED ui
  BY DEF TickAudit
<1>2. PageOK(ui, DOMAIN calls) /\ ui \in Pages /\ DOMAIN calls \subseteq Calls
  BY DEF Settled, PageOK
<1>3. DOMAIN calls' \in SUBSET Calls /\ DOMAIN calls \subseteq DOMAIN calls'
  BY <1>1, <1>2, TrailAsked, TrailSent
<1>4. PageOK(ui, DOMAIN calls')
  BY <1>2, <1>3, More
<1> QED BY <1>1, <1>4 DEF Settled

LEMMA EvidenceStep == ASSUME Settled, LoadEvidence PROVE Settled'
<1> DEFINE run == ui.liveStatus.run
           c == [Call("evidence", ui.pr) EXCEPT !.run = run]
           D == DOMAIN calls \cup {c}
           s == [ui.sync EXCEPT !.evidenceLoading = TRUE, !.evidenceError = None]
           v == [ui EXCEPT !.sync = s]
<1>1. ui.pr # None /\ ui.liveStatus # None /\ run # None /\ calls' = BagAdd(calls, c)
      /\ ui' = [ui EXCEPT !.sync.evidenceLoading = TRUE, !.sync.evidenceError = None]
  BY DEF LoadEvidence
<1>2. /\ ui \in Pages /\ ui.pr \in Promotions /\ run \in Runs /\ PageOK(ui, DOMAIN calls)
      /\ ui.sync \in Syncs /\ DOMAIN calls \subseteq Calls
  BY <1>1 DEF Settled, PageOK, Pages, OrNone, Statuses
<1> HIDE DEF run
<1>3. c \in Calls /\ c.op = "evidence" /\ c.of = ui.pr
  BY <1>2 DEF Call, Calls
<1> HIDE DEF c
<1>4. DOMAIN calls' = D
  BY <1>1, Added
<1>5. D \in SUBSET Calls /\ DOMAIN calls \subseteq D /\ Has(D, "evidence", ui.pr)
  BY <1>2, <1>3 DEF Has
<1> HIDE DEF D
<1>6. PageOK(ui, D)
  BY <1>2, <1>5, More
<1>7. ui' = v
  BY <1>1, <1>2 DEF Pages
<1>8. /\ s \in Syncs /\ s.evidenceError = None /\ s.fresh = ui.sync.fresh /\ s.refreshing = ui.sync.refreshing
      /\ s.error = ui.sync.error
  BY <1>2 DEF Syncs, OrNone
<1> HIDE DEF s
<1>9. v \in Pages /\ SameBesides(v, ui) /\ v.sync = s
  BY <1>2, <1>8, SyncReplaced
<1> HIDE DEF v
<1>10. Selection(v) /\ Status(v) /\ Loads(v, D) /\ Reviewing(v)
  BY <1>1, <1>5, <1>6, <1>8, <1>9 DEF PageOK, Selection, Status, Marks, Loads, Reviewing, SameBesides
<1> QED BY <1>4, <1>5, <1>7, <1>9, <1>10 DEF Settled, PageOK

-----------------------------------------------------------------------------
(* The answers.                                                            *)

\* Nothing on the page u waits for the call c.
NotAwaited(u, c) ==
  /\ ~(u.opening /\ c.op = "open" /\ c.of = u.promotionId)
  /\ ~(u.phase = "reviewing" /\ c.op = "promote" /\ c.of = u.resource)
  /\ ~(u.sync.refreshing /\ c.op = "status" /\ c.of = u.pr)
  /\ ~(u.sync.evidenceLoading /\ c.op = "evidence" /\ c.of = u.pr)

LEMMA Answered ==
  ASSUME NEW u, NEW c \in DOMAIN calls, PageOK(u, DOMAIN calls), NotAwaited(u, c)
  PROVE  PageOK(u, DOMAIN Rest(c))
<1> DEFINE C == DOMAIN calls
           D == DOMAIN Rest(c)
<1>1. D \subseteq C /\ C \ {c} \subseteq D
  BY Removed
<1> HIDE DEF D
<1>2. \A op, x : Has(C, op, x) => Has(D, op, x) \/ (c.op = op /\ c.of = x)
  BY <1>1 DEF Has
<1>3. Loads(u, D)
  BY <1>2 DEF PageOK, Loads, NotAwaited
<1> QED BY <1>1, <1>3 DEF PageOK, D

LEMMA DropStep ==
  ASSUME Settled, NEW c \in DOMAIN calls, Drop(c), NotAwaited(ui, c)
  PROVE  Settled'
<1>1. ui' = ui /\ calls' = Rest(c)
  BY DEF Drop
<1> QED BY <1>1, Answered DEF Settled

LEMMA ListedStep == ASSUME Settled, NEW c, Listed(c) PROVE Settled'
<1>1. c \in DOMAIN calls /\ c.op = "list" /\ NotAwaited(ui, c)
  BY DEF Listed, Pending, BagToSet, NotAwaited
<1>2. CASE Drop(c)
  BY <1>1, <1>2, DropStep
<1>3. ASSUME NEW p \in Promotions, calls' = BagAdd(Rest(c), Call("recover", p)), UNCHANGED ui
      PROVE  Settled'
  <2>1. PageOK(ui, DOMAIN Rest(c)) /\ DOMAIN Rest(c) \subseteq Calls
    BY <1>1, Answered DEF Settled, PageOK
  <2>2. Call("recover", p) \in Calls
    BY CallsAreCalls
  <2>3. DOMAIN calls' = DOMAIN Rest(c) \cup {Call("recover", p)}
    BY <1>3, Added
  <2>4. PageOK(ui, DOMAIN calls')
    BY <2>1, <2>2, <2>3, More
  <2> QED BY <1>3, <2>4 DEF Settled
<1> QED BY <1>2, <1>3 DEF Listed

\* A stored promotion p on the page, with what the store says of it.
LoadedRun(d) == IF d.live # None /\ d.live.steps # None THEN d.live.run ELSE None

Restored(v, u, p, d, phase, opening) ==
  /\ v \in Pages /\ v.resource = ResourceOf[p] /\ v.phase = phase /\ v.review = d.review /\ v.error = u.error
  /\ v.pr = p /\ v.promotionId = p /\ v.liveStatus = d.live /\ v.sync = Unasked /\ v.audit = p
  /\ v.evidenceRun = LoadedRun(d) /\ v.opening = opening

LEMMA DetailsAreStored ==
  ASSUME NEW p \in Promotions, NEW d \in Details(p)
  PROVE  /\ d.review \in {None, ResourceOf[p]} /\ ResourceOf[p] \in Resources /\ ResourceOf[p] # None
         /\ d.live \in OrNone(Statuses) /\ LoadedRun(d) \in OrNone(Runs)
         /\ d.live # None => /\ d.live.of = p /\ d.live.steps \in {None, d.live.run}
                             /\ LoadedRun(d) \in {None, d.live.run}
<1>1. d.review \in {None, ResourceOf[p]}
  BY DEF Details
<1>2. d.live = None \/ (d.live \in Statuses /\ d.live.of = p /\ d.live.steps \in {None, d.live.run})
  BY DEF Details, OrNone
<1>3. ResourceOf[p] \in Resources /\ ResourceOf[p] # None
  BY WebAssumption
<1>4. d.live # None => d.live.run \in OrNone(Runs)
  BY <1>2 DEF Statuses
<1> QED BY <1>1, <1>2, <1>3, <1>4 DEF LoadedRun, OrNone

Replaced(u, r, review, p, live, s, run) ==
  [u EXCEPT !.resource = r, !.review = review, !.pr = p, !.promotionId = p, !.liveStatus = live,
            !.sync = s, !.audit = p, !.evidenceRun = run]

HasFields(v, u, r, review, p, live, s, run) ==
  /\ v \in Pages /\ v.resource = r /\ v.phase = u.phase /\ v.review = review /\ v.error = u.error
  /\ v.pr = p /\ v.promotionId = p /\ v.liveStatus = live /\ v.sync = s /\ v.audit = p
  /\ v.evidenceRun = run /\ v.opening = u.opening

LEMMA FieldsReplaced ==
  ASSUME NEW u \in Pages, NEW r \in OrNone(Resources), NEW review \in OrNone(Resources), NEW p \in OrNone(Promotions),
         NEW live \in OrNone(Statuses), NEW s \in Syncs, NEW run \in OrNone(Runs)
  PROVE  HasFields(Replaced(u, r, review, p, live, s, run), u, r, review, p, live, s, run)
BY DEF Pages, Replaced, HasFields

LEMMA ApplyRestores ==
  ASSUME NEW u \in Pages, NEW p \in Promotions, NEW d \in Details(p),
         NEW phase \in {"idle", "reviewing", "reviewed", "error"}, NEW opening \in BOOLEAN
  PROVE  /\ Restored([Apply(u, p, d) EXCEPT !.phase = phase], u, p, d, phase, u.opening)
         /\ Restored([Apply(u, p, d) EXCEPT !.phase = phase, !.opening = opening], u, p, d, phase, opening)
         /\ Apply(u, p, d).opening = u.opening /\ Apply(u, p, d) \in Pages
<1> DEFINE a == Apply(u, p, d)
<1>1. p \in OrNone(Promotions) /\ ResourceOf[p] \in OrNone(Resources) /\ d.review \in OrNone(Resources)
      /\ d.live \in OrNone(Statuses) /\ LoadedRun(d) \in OrNone(Runs) /\ Unasked \in Syncs
  BY DetailsAreStored, UnaskedIsASync DEF OrNone
<1>2. a = Replaced(u, ResourceOf[p], d.review, p, d.live, Unasked, LoadedRun(d))
  BY DEF Apply, LoadedRun, Replaced
<1> HIDE DEF a
<1>3. HasFields(a, u, ResourceOf[p], d.review, p, d.live, Unasked, LoadedRun(d))
  BY <1>1, <1>2, FieldsReplaced
<1>4. Restored(a, u, p, d, u.phase, u.opening)
  BY <1>3 DEF Restored, HasFields
<1>5. Restored([a EXCEPT !.phase = phase], u, p, d, phase, u.opening)
  BY <1>4 DEF Restored, Pages
<1>6. Restored([a EXCEPT !.phase = phase, !.opening = opening], u, p, d, phase, opening)
  BY <1>4 DEF Restored, Pages
<1> QED BY <1>4, <1>5, <1>6 DEF a, Restored

LEMMA RestoredIsOK ==
  ASSUME NEW v, NEW u, NEW p \in Promotions, NEW d \in Details(p), NEW phase \in {"idle", "reviewed"}, NEW opening,
         Restored(v, u, p, d, phase, opening), NEW C \in SUBSET Calls,
         u.error # None => u.error \in {ResourceOf[p], p}, opening => Has(C, "open", p)
  PROVE  PageOK(v, C)
<1>1. Selection(v)
  BY DetailsAreStored DEF Restored, Selection
<1>2. Status(v)
  BY DetailsAreStored, UnaskedIsASync DEF Restored, Status, Marks
<1>3. Loads(v, C) /\ Reviewing(v)
  BY UnaskedIsASync DEF Restored, Loads, Reviewing
<1> QED BY <1>1, <1>2, <1>3 DEF PageOK, Restored

\* The latest promotion is recovered on a page where nothing else is opened.
LEMMA RecoveredStep ==
  ASSUME Settled, NEW c, Recovered(c), Drop(c) \/ ui.promotionId = None
  PROVE  Settled'
<1> DEFINE C == DOMAIN calls
           p == c.of
<1>1. c \in C /\ c.op = "recover" /\ NotAwaited(ui, c)
  BY DEF Recovered, Pending, BagToSet, NotAwaited
<1>2. PageOK(ui, C) /\ ui \in Pages /\ C \in SUBSET Calls /\ p \in Promotions
  BY <1>1, CallsAreOf DEF Settled, PageOK
<1>3. CASE Drop(c)
  BY <1>1, <1>3, DropStep
<1>4. ASSUME NEW d \in Details(p), Idle, ui.promotionId = None,
             Show([Apply(ui, p, d) EXCEPT !.phase = "reviewed"], Rest(c))
      PROVE  Settled'
  <2> DEFINE v == [Apply(ui, p, d) EXCEPT !.phase = "reviewed"]
  <2>1. ui.opening \in BOOLEAN
    BY <1>2 DEF Pages
  <2>2. Restored(v, ui, p, d, "reviewed", ui.opening)
    BY <1>2, <2>1, ApplyRestores
  <2> HIDE DEF v
  <2>3. ui.error = None
    BY <1>2, <1>4 DEF PageOK, Selection, Idle
  <2>4. ~ui.opening
    <3>1. ui.opening => Has(C, "open", None)
      BY <1>2, <1>4 DEF PageOK, Loads
    <3>2. ~Has(C, "open", None)
      BY <1>2, CallsAreOf, WebAssumption DEF Has
    <3> QED BY <3>1, <3>2
  <2>5. PageOK(v, C)
    <3>1. "reviewed" \in {"idle", "reviewed"} /\ (ui.error # None => ui.error \in {ResourceOf[p], p})
          /\ (ui.opening => Has(C, "open", p))
      BY <2>3, <2>4
    <3> HIDE DEF C, p
    <3> QED BY <1>2, <2>2, <3>1, RestoredIsOK
  <2>6. NotAwaited(v, c)
    BY <1>1 DEF NotAwaited
  <2>7. PageOK(v, DOMAIN Rest(c))
    BY <1>1, <2>5, <2>6, Answered
  <2> QED BY <1>4, <2>7, ShowKeeps DEF v
<1> QED BY <1>3, <1>4 DEF Recovered

LEMMA OpenedStep == ASSUME Settled, NEW c, Opened(c) PROVE Settled'
<1> DEFINE C == DOMAIN calls
           p == c.of
<1>1. c \in C /\ c.op \in {"open", "openById"}
  BY DEF Opened, Pending, BagToSet
<1>2. PageOK(ui, C) /\ ui \in Pages /\ C \in SUBSET Calls /\ p \in Promotions
  BY <1>1, CallsAreOf DEF Settled, PageOK
<1>3. CASE ~StillOpening(c)
  <2>1. Drop(c)
    BY <1>3 DEF Opened
  <2>2. NotAwaited(ui, c)
    BY <1>1, <1>3 DEF NotAwaited, StillOpening
  <2> QED BY <1>1, <2>1, <2>2, DropStep
<1>4. CASE StillOpening(c)
  <2> DEFINE phase(d) == IF d.review = None THEN "idle" ELSE "reviewed"
             opening  == IF c.op = "open" THEN FALSE ELSE ui.opening
  <2>1. PICK d \in Details(p) :
          Show([Apply(ui, p, d) EXCEPT !.phase = phase(d), !.opening = IF c.op = "open" THEN FALSE ELSE @], Rest(c))
    BY <1>4 DEF Opened
  <2> DEFINE a == Apply(ui, p, d)
             v == [a EXCEPT !.phase = phase(d), !.opening = opening]
  <2>2. opening \in BOOLEAN /\ phase(d) \in {"idle", "reviewed"} /\ ui.phase \in {"idle", "reviewing", "reviewed", "error"}
    BY <1>2 DEF Pages
  <2>3. a.opening = ui.opening /\ a \in Pages
    BY <1>2, <2>2, ApplyRestores
  <2>4. Restored(v, ui, p, d, phase(d), opening)
    BY <1>2, <2>2, ApplyRestores
  <2>5. Show(v, Rest(c))
    BY <2>1, <2>3 DEF Pages
  <2> HIDE DEF v, a, phase
  <2>6. ui.promotionId = p /\ p # None
    BY <1>2, <1>4, WebAssumption DEF StillOpening
  <2>7. ui.error # None => ui.error \in {ResourceOf[p], p}
    BY <1>2, <2>6 DEF PageOK, Selection
  <2>8. opening => Has(C, "open", p) /\ c.op # "open"
    BY <1>2, <2>6 DEF PageOK, Loads
  <2> HIDE DEF opening
  <2>9. PageOK(v, C)
    <3> HIDE DEF C, p
    <3> QED BY <1>2, <2>2, <2>4, <2>7, <2>8, RestoredIsOK
  <2>10. NotAwaited(v, c)
    BY <1>1, <2>4, <2>8 DEF NotAwaited, Restored
  <2>11. PageOK(v, DOMAIN Rest(c))
    BY <1>1, <2>9, <2>10, Answered
  <2> QED BY <2>5, <2>11, ShowKeeps
<1> QED BY <1>3, <1>4

\* A request is answered while the page waits for its review, and for nothing else.
LEMMA PromotedStep ==
  ASSUME Settled, NEW c, Promoted(c), StillSelected(c) => ui.phase = "reviewing" /\ ~ui.opening
  PROVE  Settled'
<1> DEFINE C == DOMAIN calls
<1>1. c \in C /\ c.op = "promote"
  BY DEF Promoted, Pending, BagToSet
<1>2. PageOK(ui, C) /\ ui \in Pages /\ C \in SUBSET Calls /\ c.of \in Resources
  BY <1>1, CallsAreOf DEF Settled, PageOK
<1>3. CASE ~StillSelected(c)
  <2>1. Drop(c) /\ NotAwaited(ui, c)
    BY <1>1, <1>3 DEF Promoted, NotAwaited, StillSelected
  <2> QED BY <1>1, <2>1, DropStep
<1>4. CASE StillSelected(c)
  <2>1. PICK p \in OrNone({q \in Promotions : ResourceOf[q] = c.of}) :
          LET u == [ui EXCEPT !.review = c.of, !.pr = p, !.promotionId = p, !.noChange = (p = None), !.phase = "reviewed"]
          IN  Show(u, Rest(c) (+) AuditCalls(u))
    BY <1>4 DEF Promoted
  <2> DEFINE none == (p = None)
             v == [ui EXCEPT !.review = c.of, !.pr = p, !.promotionId = p, !.noChange = none, !.phase = "reviewed"]
             B == Rest(c) (+) AuditCalls(v)
  <2>2. Show(v, B)
    BY <2>1
  <2>3. p \in OrNone(Promotions) /\ (p # None => ResourceOf[p] = c.of) /\ none \in BOOLEAN /\ ui.resource = c.of
        /\ c.of \in OrNone(Resources) /\ c.of # None
    BY <1>2, <1>4, WebAssumption DEF OrNone, StillSelected
  <2> HIDE DEF none
  <2>4. /\ v \in Pages /\ v.resource = c.of /\ v.promotionId = p /\ v.opening = ui.opening
        /\ v.phase = "reviewed" /\ v.review = c.of /\ v.error = ui.error /\ v.pr = p
        /\ v.liveStatus = ui.liveStatus /\ v.sync = ui.sync /\ v.evidenceRun = ui.evidenceRun /\ v.audit = ui.audit
    <3>1. ui \in Pages
      BY <1>2
    <3> QED BY <2>3, <3>1 DEF Pages
  <2> HIDE DEF v
  <2>5. ui.liveStatus = None /\ ui.sync = Unasked /\ ui.evidenceRun = None /\ ui.error = None /\ ~ui.opening
    BY <1>2, <1>4 DEF PageOK, Reviewing
  <2>6. Selection(v) /\ Status(v)
    BY <1>2, <2>3, <2>4, <2>5, UnaskedIsASync DEF PageOK, Selection, Status, Marks
  <2>7. Loads(v, C) /\ Reviewing(v)
    BY <2>4, <2>5, UnaskedIsASync DEF Loads, Reviewing
  <2>8. PageOK(v, C) /\ NotAwaited(v, c)
    BY <1>1, <1>2, <2>4, <2>6, <2>7 DEF PageOK, NotAwaited
  <2>9. PageOK(v, DOMAIN Rest(c)) /\ DOMAIN Rest(c) \subseteq Calls
    BY <1>1, <2>8, Answered DEF PageOK
  <2>10. DOMAIN B \in SUBSET Calls /\ DOMAIN Rest(c) \subseteq DOMAIN B
    BY <2>4, <2>9, TrailAsked, TrailSent
  <2> HIDE DEF B
  <2>11. PageOK(v, DOMAIN B)
    BY <2>9, <2>10, More
  <2> QED BY <2>2, <2>11, ShowKeeps
<1> QED BY <1>3, <1>4

\* A page that shows another status of its pull request.
StatusReplaced(v, u, l, run, y) ==
  /\ v \in Pages /\ v.resource = u.resource /\ v.promotionId = u.promotionId /\ v.opening = u.opening
  /\ v.phase = u.phase /\ v.review = u.review /\ v.error = u.error /\ v.pr = u.pr /\ v.audit = u.audit
  /\ v.liveStatus = l /\ v.evidenceRun = run /\ v.sync = y

LEMMA StatusIsReplaced ==
  ASSUME NEW u \in Pages, NEW l \in Statuses, NEW run \in OrNone(Runs), NEW y \in Syncs
  PROVE  StatusReplaced([u EXCEPT !.liveStatus = l, !.evidenceRun = run, !.sync = y], u, l, run, y)
<1>1. l \in OrNone(Statuses)
  BY DEF OrNone
<1> HIDE DEF OrNone
<1> QED BY <1>1 DEF StatusReplaced, Pages

\* A page that has read the status s of its pull request: what it has of s, and what it keeps.
Applied(v, u, s) ==
  /\ v \in Pages /\ v.resource = u.resource /\ v.promotionId = u.promotionId /\ v.opening = u.opening
  /\ v.phase = u.phase /\ v.review = u.review /\ v.error = u.error /\ v.pr = u.pr /\ v.audit = u.audit
  /\ v.liveStatus \in Statuses /\ v.liveStatus.of = s.of /\ v.liveStatus.run = s.run /\ v.liveStatus.live = s.live
  /\ v.liveStatus.steps \in {None, s.run}
  /\ s.run # None => v.evidenceRun \in {None, s.run}

Keeps(v, u) ==
  /\ v.sync.refreshing => u.sync.refreshing
  /\ v.sync.evidenceLoading => u.sync.evidenceLoading
  /\ v.sync.error = u.sync.error /\ v.sync.evidenceError \in {None, u.sync.evidenceError}

LEMMA StatusApplied ==
  ASSUME NEW u \in Pages, NEW s \in Statuses, s.steps \in {None, s.run}, Marks(u)
  PROVE  Applied(ApplyLiveStatus(u, s), u, s) /\ Keeps(ApplyLiveStatus(u, s), u)
<1> DEFINE old  == u.liveStatus
           same == SameRun(old, s)
           st   == IF s.steps = None /\ same THEN old.steps ELSE s.steps
           l    == [s EXCEPT !.steps = st]
           run  == IF same THEN u.evidenceRun ELSE None
           err  == IF same THEN u.sync.evidenceError ELSE None
           y    == [u.sync EXCEPT !.evidenceError = err]
           v    == [u EXCEPT !.liveStatus = l, !.evidenceRun = run, !.sync = y]
<1>1. u.sync \in Syncs /\ u.evidenceRun \in OrNone(Runs)
  BY DEF Pages
<1>2. same => old # None /\ old.run = s.run /\ s.run # None
  BY DEF SameRun
<1>3. st \in {None, s.run} /\ run \in OrNone(Runs) /\ (s.run # None => run \in {None, s.run})
  BY <1>1, <1>2 DEF Status, Marks, OrNone
<1>4. s.run \in OrNone(Runs)
  BY DEF Statuses
<1>5. err \in OrNone(Promotions) /\ err \in {None, u.sync.evidenceError}
  BY <1>1 DEF Syncs, OrNone
<1>6. v = ApplyLiveStatus(u, s)
  BY <1>1 DEF ApplyLiveStatus, Pages
<1> HIDE DEF st, run, err, same
<1>7. l \in Statuses /\ l.of = s.of /\ l.run = s.run /\ l.live = s.live /\ l.steps = st
  BY <1>3, <1>4 DEF Statuses, OrNone
<1>8. /\ y \in Syncs /\ y.refreshing = u.sync.refreshing /\ y.evidenceLoading = u.sync.evidenceLoading
      /\ y.error = u.sync.error /\ y.evidenceError = err
  BY <1>1, <1>5 DEF Syncs
<1> HIDE DEF l, y
<1>9. StatusReplaced(v, u, l, run, y)
  BY <1>3, <1>7, <1>8, StatusIsReplaced
<1> HIDE DEF v
<1>10. Applied(v, u, s)
  BY <1>3, <1>7, <1>9 DEF Applied, StatusReplaced
<1>11. Keeps(v, u)
  BY <1>5, <1>8, <1>9 DEF Keeps, StatusReplaced
<1> QED BY <1>6, <1>10, <1>11

LEMMA AppliedIsOK ==
  ASSUME NEW v, NEW u, NEW C, NEW s, PageOK(u, C), u.pr # None, s.of = u.pr, s.live, Applied(v, u, s), Keeps(v, u)
  PROVE  PageOK(v, C)
<1>1. v.liveStatus # None
  BY StatusIsNotNone DEF Applied
<1>2. Selection(v)
  BY DEF PageOK, Selection, Applied
<1>3. Status(v)
  BY <1>1 DEF PageOK, Status, Marks, Applied, Keeps
<1>4. Loads(v, C)
  BY DEF PageOK, Loads, Applied, Keeps
<1>5. Reviewing(v)
  BY DEF PageOK, Reviewing, Applied
<1> QED BY <1>2, <1>3, <1>4, <1>5 DEF PageOK, Applied

LEMMA AnswersAreStatuses ==
  ASSUME NEW p, NEW deep \in BOOLEAN, NEW s \in LiveAnswers(p, deep)
  PROVE  s \in Statuses /\ s.of = p /\ s.live /\ s.steps \in {None, s.run}
BY DEF LiveAnswers

LEMMA StatusReadPage ==
  ASSUME NEW u \in Pages, Marks(u), NEW s \in Statuses, s.steps \in {None, s.run},
         NEW v, v = [ApplyLiveStatus(u, s) EXCEPT !.sync.fresh = TRUE, !.sync.refreshing = FALSE]
  PROVE  Applied(v, u, s) /\ Keeps(v, u) /\ ~v.sync.refreshing
<1> DEFINE a == ApplyLiveStatus(u, s)
           z == [a.sync EXCEPT !.fresh = TRUE, !.refreshing = FALSE]
<1>1. Applied(a, u, s) /\ Keeps(a, u)
  BY StatusApplied
<1> HIDE DEF a
<1>2. a \in Pages /\ a.sync \in Syncs
  BY <1>1 DEF Applied, Pages
<1>3. v = [a EXCEPT !.sync = z]
  BY <1>2 DEF a, Pages
<1>4. /\ z \in Syncs /\ z.fresh = TRUE /\ z.refreshing = FALSE /\ z.error = a.sync.error
      /\ z.evidenceLoading = a.sync.evidenceLoading /\ z.evidenceError = a.sync.evidenceError
  BY <1>2 DEF Syncs
<1> HIDE DEF z
<1>5. v \in Pages /\ SameBesides(v, a) /\ v.sync = z
  BY <1>2, <1>3, <1>4, SyncReplaced
<1> QED BY <1>1, <1>4, <1>5 DEF Applied, Keeps, SameBesides

LEMMA EvidenceReadPage ==
  ASSUME NEW u \in Pages, Marks(u), NEW s \in Statuses, s.steps \in {None, s.run}, NEW r \in Runs,
         NEW v, v = [ApplyLiveStatus(u, s) EXCEPT !.sync.fresh = TRUE, !.sync.evidenceLoading = FALSE,
                                                 !.evidenceRun = IF s.run = None THEN r ELSE s.run]
  PROVE  Applied(v, u, s) /\ Keeps(v, u) /\ ~v.sync.evidenceLoading
<1> DEFINE a == ApplyLiveStatus(u, s)
           z == [a.sync EXCEPT !.fresh = TRUE, !.evidenceLoading = FALSE]
           run == IF s.run = None THEN r ELSE s.run
<1>1. Applied(a, u, s) /\ Keeps(a, u)
  BY StatusApplied
<1> HIDE DEF a
<1>2. a \in Pages /\ a.sync \in Syncs /\ a.liveStatus \in Statuses
  BY <1>1 DEF Applied, Pages
<1>3. v = [a EXCEPT !.liveStatus = a.liveStatus, !.evidenceRun = run, !.sync = z]
  BY <1>2 DEF a, Pages
<1>4. /\ z \in Syncs /\ z.fresh = TRUE /\ z.evidenceLoading = FALSE /\ z.error = a.sync.error
      /\ z.refreshing = a.sync.refreshing /\ z.evidenceError = a.sync.evidenceError
  BY <1>2 DEF Syncs
<1>5. run \in OrNone(Runs) /\ (s.run # None => run = s.run)
  BY DEF Statuses, OrNone
<1> HIDE DEF z, run
<1>6. StatusReplaced(v, a, a.liveStatus, run, z)
  <2>1. StatusReplaced([a EXCEPT !.liveStatus = a.liveStatus, !.evidenceRun = run, !.sync = z], a, a.liveStatus, run, z)
    BY <1>2, <1>4, <1>5, StatusIsReplaced
  <2> QED BY <1>3, <2>1
<1> QED BY <1>1, <1>4, <1>5, <1>6 DEF Applied, Keeps, StatusReplaced

LEMMA StatusStep == ASSUME Settled, NEW c, StatusRead(c) PROVE Settled'
<1> DEFINE C == DOMAIN calls
<1>1. c \in C /\ c.op = "status"
  BY DEF StatusRead, Pending, BagToSet
<1>2. PageOK(ui, C) /\ ui \in Pages /\ Marks(ui) /\ c.of \in Promotions
  BY <1>1, CallsAreOf DEF Settled, PageOK, Status
<1>3. CASE ~StillShown(c)
  <2>1. Drop(c) /\ NotAwaited(ui, c)
    BY <1>1, <1>3 DEF StatusRead, NotAwaited, StillShown
  <2> QED BY <1>1, <2>1, DropStep
<1>4. CASE StillShown(c)
  <2>1. PICK s \in LiveAnswers(c.of, FALSE) :
          ui' = [ApplyLiveStatus(ui, s) EXCEPT !.sync.fresh = TRUE, !.sync.refreshing = FALSE] /\ calls' = Rest(c)
    BY <1>4 DEF StatusRead
  <2>2. s \in Statuses /\ s.of = c.of /\ s.live /\ s.steps \in {None, s.run}
    <3>1. FALSE \in BOOLEAN
      OBVIOUS
    <3> QED BY <3>1, AnswersAreStatuses
  <2>3. Applied(ui', ui, s) /\ Keeps(ui', ui) /\ ~ui'.sync.refreshing
    BY <1>2, <2>1, <2>2, StatusReadPage
  <2> DEFINE v == ui'
  <2> HIDE DEF v
  <2>4. ui.pr = c.of /\ ui.pr # None
    BY <1>2, <1>4, WebAssumption DEF StillShown
  <2>5. PageOK(v, C)
    BY <1>2, <2>2, <2>3, <2>4, AppliedIsOK DEF v
  <2>6. NotAwaited(v, c)
    BY <1>1, <2>3 DEF NotAwaited, v
  <2>7. PageOK(v, DOMAIN Rest(c))
    BY <1>1, <1>2, <2>5, <2>6, Answered
  <2> QED BY <2>1, <2>7 DEF Settled, v
<1> QED BY <1>3, <1>4

LEMMA EvidenceReadStep == ASSUME Settled, NEW c, EvidenceRead(c) PROVE Settled'
<1> DEFINE C == DOMAIN calls
<1>1. c \in C /\ c.op = "evidence"
  BY DEF EvidenceRead, Pending, BagToSet
<1>2. PageOK(ui, C) /\ ui \in Pages /\ Marks(ui) /\ c.of \in Promotions /\ c.run \in Runs
  BY <1>1, CallsAreOf DEF Settled, PageOK, Status, Calls
<1>3. CASE ~StillShown(c)
  <2>1. Drop(c) /\ NotAwaited(ui, c)
    BY <1>1, <1>3 DEF EvidenceRead, NotAwaited, StillShown
  <2> QED BY <1>1, <2>1, DropStep
<1>4. CASE StillShown(c)
  <2>1. PICK s \in LiveAnswers(c.of, TRUE) :
          /\ ui' = [ApplyLiveStatus(ui, s) EXCEPT !.sync.fresh = TRUE, !.sync.evidenceLoading = FALSE,
                                                  !.evidenceRun = IF s.run = None THEN c.run ELSE s.run]
          /\ calls' = Rest(c)
    BY <1>4 DEF EvidenceRead
  <2>2. s \in Statuses /\ s.of = c.of /\ s.live /\ s.steps \in {None, s.run}
    <3>1. TRUE \in BOOLEAN
      OBVIOUS
    <3> QED BY <3>1, AnswersAreStatuses
  <2>3. Applied(ui', ui, s) /\ Keeps(ui', ui) /\ ~ui'.sync.evidenceLoading
    BY <1>2, <2>1, <2>2, EvidenceReadPage
  <2> DEFINE v == ui'
  <2> HIDE DEF v
  <2>4. ui.pr = c.of /\ ui.pr # None
    BY <1>2, <1>4, WebAssumption DEF StillShown
  <2>5. PageOK(v, C)
    BY <1>2, <2>2, <2>3, <2>4, AppliedIsOK DEF v
  <2>6. NotAwaited(v, c)
    BY <1>1, <2>3 DEF NotAwaited, v
  <2>7. PageOK(v, DOMAIN Rest(c))
    BY <1>1, <1>2, <2>5, <2>6, Answered
  <2> QED BY <2>1, <2>7 DEF Settled, v
<1> QED BY <1>3, <1>4

LEMMA AuditStep == ASSUME Settled, NEW c, AuditRead(c) PROVE Settled'
<1> DEFINE C == DOMAIN calls
           v == IF StillOpening(c) THEN [ui EXCEPT !.audit = c.of] ELSE ui
<1>1. c \in C /\ c.op = "audit" /\ ui' = v /\ calls' = Rest(c)
  BY DEF AuditRead, Pending, BagToSet
<1>2. PageOK(ui, C) /\ ui \in Pages /\ c.of \in OrNone(Promotions)
  BY <1>1, CallsAreOf DEF Settled, PageOK, OrNone
<1>3. v \in Pages /\ v.audit \in {ui.audit, ui.promotionId} /\ v = [ui EXCEPT !.audit = v.audit]
  BY <1>2 DEF StillOpening, Pages
<1>4. /\ v.resource = ui.resource /\ v.promotionId = ui.promotionId /\ v.opening = ui.opening
      /\ v.phase = ui.phase /\ v.review = ui.review /\ v.error = ui.error /\ v.pr = ui.pr
      /\ v.liveStatus = ui.liveStatus /\ v.sync = ui.sync /\ v.evidenceRun = ui.evidenceRun
  BY <1>2 DEF Pages
<1> HIDE DEF v
<1>5. Selection(v) /\ Status(v)
  BY <1>2, <1>3, <1>4 DEF PageOK, Selection, Status, Marks
<1>6. Loads(v, C) /\ Reviewing(v)
  BY <1>2, <1>4 DEF PageOK, Loads, Reviewing
<1>7. PageOK(v, C) /\ NotAwaited(v, c)
  BY <1>1, <1>2, <1>3, <1>5, <1>6 DEF PageOK, NotAwaited
<1>8. PageOK(v, DOMAIN Rest(c))
  BY <1>1, <1>2, <1>7, Answered
<1> QED BY <1>1, <1>8 DEF Settled

-----------------------------------------------------------------------------
(* The calls that fail.                                                    *)

\* A call about the pull request on the page: only its sync tells.
LEMMA SyncFails ==
  ASSUME Settled, NEW c, NEW z \in Syncs, Pending(c), ui.pr # None, calls' = Rest(c), ui' = [ui EXCEPT !.sync = z],
         z.fresh = ui.sync.fresh, z.refreshing => ui.sync.refreshing, z.evidenceLoading => ui.sync.evidenceLoading,
         z.error \in {ui.pr, ui.sync.error}, z.evidenceError \in {ui.pr, ui.sync.evidenceError},
         \/ c.op = "status" /\ ~z.refreshing
         \/ c.op = "evidence" /\ ~z.evidenceLoading
  PROVE  Settled'
<1> DEFINE C == DOMAIN calls
           v == [ui EXCEPT !.sync = z]
<1>1. PageOK(ui, C) /\ ui \in Pages /\ c \in C
  BY DEF Settled, PageOK, Pending, BagToSet
<1>2. v \in Pages /\ SameBesides(v, ui) /\ v.sync = z
  BY <1>1, SyncReplaced
<1> HIDE DEF v, C
<1>3. Selection(v) /\ Status(v)
  BY <1>1, <1>2 DEF PageOK, Selection, Status, Marks, SameBesides
<1>4. Loads(v, C)
  BY <1>1, <1>2 DEF PageOK, Loads, SameBesides
<1>5. Reviewing(v)
  BY <1>1, <1>2 DEF PageOK, Reviewing, SameBesides
<1>6. PageOK(v, C)
  BY <1>1, <1>2, <1>3, <1>4, <1>5 DEF PageOK
<1>7. NotAwaited(v, c)
  BY <1>2 DEF NotAwaited
<1>8. PageOK(v, DOMAIN Rest(c))
  BY <1>1, <1>6, <1>7, Answered DEF C
<1> QED BY <1>8 DEF Settled, v

\* A page that says that what it shows has failed.
FailedPage(v, u, x, opening) ==
  /\ v \in Pages /\ v.resource = u.resource /\ v.promotionId = u.promotionId /\ v.opening = opening
  /\ v.phase = "error" /\ v.review = u.review /\ v.error = x /\ v.pr = u.pr /\ v.audit = u.audit
  /\ v.liveStatus = u.liveStatus /\ v.sync = u.sync /\ v.evidenceRun = u.evidenceRun

LEMMA FailingFails ==
  ASSUME NEW c, NEW u \in Pages, c.of \in Resources \cup Promotions
  PROVE  /\ FailedPage(Failing(c, u), u, c.of, u.opening)
         /\ FailedPage([Failing(c, u) EXCEPT !.opening = FALSE], u, c.of, FALSE)
<1> DEFINE a == Failing(c, u)
<1>1. c.of \in OrNone(Resources \cup Promotions)
  BY DEF OrNone
<1>2. FailedPage(a, u, c.of, u.opening)
  BY <1>1 DEF Failing, FailedPage, Pages
<1> HIDE DEF a
<1>3. FailedPage([a EXCEPT !.opening = FALSE], u, c.of, FALSE)
  BY <1>2 DEF FailedPage, Pages
<1> QED BY <1>2, <1>3 DEF a

LEMMA PageFails ==
  ASSUME Settled, NEW c, NEW v, NEW opening \in BOOLEAN, Pending(c), calls' = Rest(c), ui' = v,
         FailedPage(v, ui, c.of, opening),
         \/ c.op = "promote" /\ StillSelected(c) /\ opening = ui.opening
         \/ c.op = "openById" /\ StillOpening(c) /\ opening = ui.opening
         \/ c.op = "open" /\ StillOpening(c) /\ ~opening
  PROVE  Settled'
<1> DEFINE C == DOMAIN calls
<1>1. PageOK(ui, C) /\ ui \in Pages /\ c \in C /\ C \subseteq Calls
  BY DEF Settled, PageOK, Pending, BagToSet
<1> HIDE DEF C
<1>2. Selection(v) /\ Status(v)
  BY <1>1 DEF PageOK, Selection, Status, Marks, FailedPage, StillSelected, StillOpening
<1>3. Loads(v, C) /\ Reviewing(v)
  BY <1>1 DEF PageOK, Loads, Reviewing, FailedPage
<1>4. PageOK(v, C)
  BY <1>1, <1>2, <1>3 DEF PageOK, FailedPage
<1>5. NotAwaited(v, c)
  BY DEF NotAwaited, FailedPage
<1>6. PageOK(v, DOMAIN Rest(c))
  BY <1>1, <1>4, <1>5, Answered DEF C
<1> QED BY <1>6 DEF Settled

LEMMA FailsStep == ASSUME Settled, NEW c, Fails(c) PROVE Settled'
<1> DEFINE C == DOMAIN calls
<1>1. c \in C /\ Pending(c) /\ calls' = Rest(c)
  BY DEF Fails, Pending, BagToSet
<1>2. PageOK(ui, C) /\ ui \in Pages /\ ui.sync \in Syncs /\ ui.opening \in BOOLEAN /\ c \in Calls
  BY <1>1 DEF Settled, PageOK, Pages
<1>3. CASE c.op = "status" /\ StillShown(c)
  <2> DEFINE z == [ui.sync EXCEPT !.error = c.of, !.refreshing = FALSE]
  <2>1. c.of \in Promotions /\ ui.pr = c.of /\ ui.pr # None
    BY <1>2, <1>3, CallsAreOf, WebAssumption DEF StillShown
  <2>2. ui' = [ui EXCEPT !.sync = z]
    BY <1>2, <1>3 DEF Fails, StatusFailed, Pages
  <2>3. /\ z \in Syncs /\ z.fresh = ui.sync.fresh /\ ~z.refreshing /\ z.evidenceLoading = ui.sync.evidenceLoading
        /\ z.error = ui.pr /\ z.evidenceError = ui.sync.evidenceError
    BY <1>2, <2>1 DEF Syncs, OrNone
  <2> HIDE DEF z
  <2>4. /\ z.refreshing => ui.sync.refreshing
        /\ z.evidenceLoading => ui.sync.evidenceLoading
        /\ z.error \in {ui.pr, ui.sync.error} /\ z.evidenceError \in {ui.pr, ui.sync.evidenceError}
        /\ \/ c.op = "status" /\ ~z.refreshing
           \/ c.op = "evidence" /\ ~z.evidenceLoading
    BY <1>3, <2>3
  <2> QED BY <1>1, <2>1, <2>2, <2>3, <2>4, SyncFails
<1>4. CASE c.op = "evidence" /\ StillShown(c)
  <2> DEFINE z == [ui.sync EXCEPT !.evidenceError = c.of, !.evidenceLoading = FALSE]
  <2>1. c.of \in Promotions /\ ui.pr = c.of /\ ui.pr # None
    BY <1>2, <1>4, CallsAreOf, WebAssumption DEF StillShown
  <2>2. ui' = [ui EXCEPT !.sync = z]
    BY <1>2, <1>4 DEF Fails, EvidenceFailed, Pages
  <2>3. /\ z \in Syncs /\ z.fresh = ui.sync.fresh /\ ~z.evidenceLoading /\ z.refreshing = ui.sync.refreshing
        /\ z.evidenceError = ui.pr /\ z.error = ui.sync.error
    BY <1>2, <2>1 DEF Syncs, OrNone
  <2> HIDE DEF z
  <2>4. /\ z.refreshing => ui.sync.refreshing
        /\ z.evidenceLoading => ui.sync.evidenceLoading
        /\ z.error \in {ui.pr, ui.sync.error} /\ z.evidenceError \in {ui.pr, ui.sync.evidenceError}
        /\ \/ c.op = "status" /\ ~z.refreshing
           \/ c.op = "evidence" /\ ~z.evidenceLoading
    BY <1>4, <2>3
  <2> QED BY <1>1, <2>1, <2>2, <2>3, <2>4, SyncFails
<1>5. CASE c.op = "promote" /\ StillSelected(c)
  <2>1. ui' = Failing(c, ui)
    BY <1>5 DEF Fails
  <2>2. c.of \in Resources \cup Promotions
    BY <1>2, <1>5, CallsAreOf
  <2>3. FailedPage(ui', ui, c.of, ui.opening)
    BY <1>2, <2>1, <2>2, FailingFails
  <2> QED BY <1>1, <1>2, <1>5, <2>3, PageFails
<1>6. CASE c.op = "openById" /\ StillOpening(c)
  <2>1. ui' = Failing(c, ui)
    BY <1>6 DEF Fails
  <2>2. c.of \in Resources \cup Promotions
    BY <1>2, <1>6, CallsAreOf
  <2>3. FailedPage(ui', ui, c.of, ui.opening)
    BY <1>2, <2>1, <2>2, FailingFails
  <2> QED BY <1>1, <1>2, <1>6, <2>3, PageFails
<1>7. CASE c.op = "open" /\ StillOpening(c)
  <2>1. ui' = [Failing(c, ui) EXCEPT !.opening = FALSE]
    BY <1>7 DEF Fails
  <2>2. c.of \in Resources \cup Promotions
    BY <1>2, <1>7, CallsAreOf
  <2> DEFINE no == FALSE
  <2>3. FailedPage(ui', ui, c.of, no)
    BY <1>2, <2>1, <2>2, FailingFails
  <2>4. no \in BOOLEAN /\ ~no
    OBVIOUS
  <2> HIDE DEF no
  <2> QED BY <1>1, <1>7, <2>3, <2>4, PageFails
<1>8. CASE ~(\/ c.op \in {"status", "evidence"} /\ StillShown(c)
             \/ c.op = "promote" /\ StillSelected(c)
             \/ c.op \in {"open", "openById"} /\ StillOpening(c))
  <2>1. ui' = ui
    BY <1>8 DEF Fails
  <2>2. NotAwaited(ui, c)
    BY <1>8 DEF NotAwaited, StillShown, StillSelected, StillOpening
  <2>3. PageOK(ui, DOMAIN Rest(c))
    BY <1>1, <2>2, Answered DEF Settled
  <2> QED BY <1>1, <2>1, <2>3 DEF Settled
<1> QED BY <1>3, <1>4, <1>5, <1>6, <1>7, <1>8

-----------------------------------------------------------------------------
(* What the marks say of any page.                                         *)

\* A page on which the status is asked for again.
LEMMA RefreshedPage ==
  ASSUME NEW u \in Pages, Marks(u)
  PROVE  Refreshing(u) \in Pages /\ Marks(Refreshing(u))
<1> DEFINE s == [u.sync EXCEPT !.refreshing = TRUE, !.error = None]
           v == [u EXCEPT !.sync = s]
<1>1. u.sync \in Syncs
  BY DEF Pages
<1>2. v = Refreshing(u)
  BY <1>1 DEF Refreshing, Pages
<1>3. s \in Syncs /\ s.fresh = u.sync.fresh
  BY <1>1 DEF Syncs, OrNone
<1> HIDE DEF s
<1>4. v \in Pages /\ SameBesides(v, u) /\ v.sync = s
  BY <1>3, SyncReplaced
<1> HIDE DEF v
<1> QED BY <1>2, <1>3, <1>4 DEF Marks, SameBesides

LEMMA ShowMarks ==
  ASSUME NEW u \in Pages, Marks(u), NEW rest, DOMAIN rest \subseteq Calls, Show(u, rest)
  PROVE  MarksInv'
<1> DEFINE asks == u.phase # "idle" /\ CanRefresh(u)
<1>1. CASE ~asks
  <2>1. ui' = u /\ calls' = rest
    BY <1>1 DEF Show
  <2> QED BY <2>1 DEF MarksInv
<1>2. CASE asks
  <2> DEFINE B == BagAdd(rest, Call("status", u.pr))
  <2>1. ui' = Refreshing(u) /\ calls' = B (+) AuditCalls(u)
    BY <1>2 DEF Show
  <2>2. u.pr \in Promotions
    BY <1>2 DEF Pages, CanRefresh, OrNone
  <2>3. DOMAIN B \subseteq Calls
    <3>1. Call("status", u.pr) \in Calls
      BY <2>2, CallsAreCalls
    <3> QED BY <3>1, CallSent
  <2> HIDE DEF B
  <2> QED BY <2>1, <2>3, TrailSent, RefreshedPage DEF MarksInv
<1> QED BY <1>1, <1>2

LEMMA BareMarks == ASSUME NEW v, NEW r, NEW p, NEW opening, Bare(v, r, p, opening) PROVE v \in Pages /\ Marks(v)
BY UnaskedIsASync DEF Bare, Marks

LEMMA UserMarks == ASSUME MarksInv, User PROVE MarksInv'
<1>1. ASSUME NEW r \in OrNone(Resources), Select(r) PROVE MarksInv'
  BY <1>1, BlankIsBare, BareMarks DEF Select, Selected, MarksInv
<1>2. ASSUME NEW p \in Promotions, Open(p) \/ OpenById(p) PROVE MarksInv'
  <2>1. PICK op \in {"open", "openById"}, opening \in BOOLEAN :
          Bare(ui', None, p, opening) /\ calls' = BagAdd(calls, Call(op, p))
    BY <1>2, OpeningIsBare DEF Open, OpenById, Selected
  <2>2. Call(op, p) \in Calls
    BY CallsAreCalls
  <2>3. DOMAIN calls' \subseteq Calls
    BY <2>1, <2>2, CallSent DEF MarksInv
  <2>4. ui' \in Pages /\ Marks(ui')
    BY <2>1, BareMarks
  <2> QED BY <2>3, <2>4 DEF MarksInv, Marks
<1>3. CASE Declare
  <2> DEFINE v == [ui EXCEPT !.declared = TRUE]
  <2>1. v \in Pages /\ SameBesides(v, ui) /\ v.sync = ui.sync
    BY DEF MarksInv, Pages, SameBesides
  <2>2. ui' = v /\ UNCHANGED calls
    BY <1>3 DEF Declare
  <2> HIDE DEF v
  <2> QED BY <2>1, <2>2 DEF MarksInv, Marks, SameBesides
<1>4. CASE RequestPromotion /\ ui.declared
  <2> DEFINE v == [ui EXCEPT !.phase = "reviewing", !.review = None, !.error = None, !.pr = None,
                             !.liveStatus = None, !.sync = Unasked, !.evidenceRun = None, !.noChange = FALSE]
  <2>1. ui' = v /\ calls' = BagAdd(calls, Call("promote", ui.resource)) /\ ui.resource \in Resources
    BY <1>4 DEF RequestPromotion, MarksInv, Pages, OrNone
  <2>2. v \in Pages /\ v.liveStatus = None /\ v.sync = Unasked
    BY UnaskedIsASync DEF MarksInv, Pages, OrNone
  <2> HIDE DEF v
  <2>3. Marks(v)
    BY <2>2, UnaskedIsASync DEF Marks
  <2>4. Call("promote", ui.resource) \in Calls
    BY <2>1, CallsAreCalls
  <2>5. DOMAIN calls' \subseteq Calls
    BY <2>1, <2>4, CallSent DEF MarksInv
  <2> QED BY <2>1, <2>2, <2>3, <2>5 DEF MarksInv, Marks
<1>5. CASE RequestPromotion /\ ~ui.declared
  <2> DEFINE v == [ui EXCEPT !.phase = "error", !.error = ui.resource]
  <2>1. ui' = v /\ UNCHANGED calls
    BY <1>5 DEF RequestPromotion
  <2>2. v \in Pages /\ v.liveStatus = ui.liveStatus /\ v.evidenceRun = ui.evidenceRun /\ v.sync = ui.sync
    BY DEF MarksInv, Pages, OrNone
  <2> HIDE DEF v
  <2> QED BY <2>1, <2>2 DEF MarksInv, Marks
<1>6. CASE LoadEvidence
  <2> DEFINE run == ui.liveStatus.run
             c == [Call("evidence", ui.pr) EXCEPT !.run = run]
             s == [ui.sync EXCEPT !.evidenceLoading = TRUE, !.evidenceError = None]
             v == [ui EXCEPT !.sync = s]
  <2>1. /\ ui.pr \in Promotions /\ run \in Runs /\ ui.sync \in Syncs /\ calls' = BagAdd(calls, c)
        /\ ui' = [ui EXCEPT !.sync.evidenceLoading = TRUE, !.sync.evidenceError = None]
    BY <1>6 DEF LoadEvidence, MarksInv, Pages, OrNone, Statuses
  <2> HIDE DEF run
  <2>2. c \in Calls
    BY <2>1 DEF Call, Calls
  <2> HIDE DEF c
  <2>3. ui' = v
    BY <2>1 DEF MarksInv, Pages
  <2>4. s \in Syncs /\ s.fresh = ui.sync.fresh
    BY <2>1 DEF Syncs, OrNone
  <2> HIDE DEF s
  <2>5. v \in Pages /\ SameBesides(v, ui) /\ v.sync = s
    BY <2>4, SyncReplaced DEF MarksInv
  <2> HIDE DEF v
  <2>6. DOMAIN calls' \subseteq Calls
    BY <2>1, <2>2, CallSent DEF MarksInv
  <2> QED BY <2>3, <2>4, <2>5, <2>6 DEF MarksInv, Marks, SameBesides
<1>7. CASE RetryStatus
  <2>1. ui' = Refreshing(ui) /\ calls' = BagAdd(calls, Call("status", ui.pr)) /\ ui.pr \in Promotions
    BY <1>7 DEF RetryStatus, CanRefresh, MarksInv, Pages, OrNone
  <2>2. Call("status", ui.pr) \in Calls
    BY <2>1, CallsAreCalls
  <2>3. DOMAIN calls' \subseteq Calls
    BY <2>1, <2>2, CallSent DEF MarksInv
  <2> QED BY <2>1, <2>3, RefreshedPage DEF MarksInv, Marks
<1> QED BY <1>1, <1>2, <1>3, <1>4, <1>5, <1>6, <1>7 DEF User

LEMMA IntervalMarks == ASSUME MarksInv, Interval PROVE MarksInv'
<1>1. CASE Tick
  <2>1. ui' = Refreshing(ui) /\ calls' = BagAdd(calls, Call("status", ui.pr)) /\ ui.pr \in Promotions
    BY <1>1 DEF Tick, CanRefresh, MarksInv, Pages, OrNone
  <2>2. Call("status", ui.pr) \in Calls
    BY <2>1, CallsAreCalls
  <2>3. DOMAIN calls' \subseteq Calls
    BY <2>1, <2>2, CallSent DEF MarksInv
  <2> QED BY <2>1, <2>3, RefreshedPage DEF MarksInv, Marks
<1>2. CASE TickAudit
  BY <1>2, TrailSent DEF TickAudit, MarksInv
<1>3. CASE StopPolling
  BY <1>3 DEF StopPolling, MarksInv
<1> QED BY <1>1, <1>2, <1>3 DEF Interval

\* The answers.
LEMMA RestoredMarks ==
  ASSUME NEW v, NEW u, NEW p \in Promotions, NEW d \in Details(p), NEW phase, NEW opening, Restored(v, u, p, d, phase, opening)
  PROVE  v \in Pages /\ Marks(v)
BY DetailsAreStored, UnaskedIsASync DEF Restored, Marks

LEMMA AppliedMarks ==
  ASSUME NEW v, NEW u, NEW s, s.live, Applied(v, u, s)
  PROVE  v \in Pages /\ Marks(v)
BY StatusIsNotNone DEF Applied, Marks

LEMMA AnswerMarks == ASSUME MarksInv, NEW c \in DOMAIN calls, Answer(c) PROVE MarksInv'
<1> DEFINE p == c.of
<1>1. ui \in Pages /\ Marks(ui) /\ DOMAIN Rest(c) \subseteq Calls /\ c \in Calls
  BY Removed DEF MarksInv
<1>2. ASSUME Drop(c) PROVE MarksInv'
  BY <1>1, <1>2 DEF Drop, MarksInv
<1>3. CASE Listed(c)
  <2>1. ASSUME NEW q \in Promotions, calls' = BagAdd(Rest(c), Call("recover", q)), UNCHANGED ui PROVE MarksInv'
    <3>1. Call("recover", q) \in Calls
      BY CallsAreCalls
    <3>2. DOMAIN calls' \subseteq Calls
      BY <1>1, <2>1, <3>1, CallSent
    <3> QED BY <1>1, <2>1, <3>2 DEF MarksInv
  <2> QED BY <1>2, <1>3, <2>1 DEF Listed
<1>4. CASE Recovered(c)
  <2>1. p \in Promotions /\ ui.opening \in BOOLEAN
    BY <1>1, <1>4, CallsAreOf DEF Recovered, Pages
  <2>2. ASSUME NEW d \in Details(p), Show([Apply(ui, p, d) EXCEPT !.phase = "reviewed"], Rest(c)) PROVE MarksInv'
    <3> DEFINE v == [Apply(ui, p, d) EXCEPT !.phase = "reviewed"]
    <3>1. Restored(v, ui, p, d, "reviewed", ui.opening)
      BY <1>1, <2>1, ApplyRestores
    <3> HIDE DEF v
    <3>2. v \in Pages /\ Marks(v)
      BY <2>1, <3>1, RestoredMarks
    <3> QED BY <1>1, <2>2, <3>2, ShowMarks DEF v
  <2> QED BY <1>2, <1>4, <2>2 DEF Recovered
<1>5. CASE Opened(c) /\ StillOpening(c)
  <2> DEFINE phase(d) == IF d.review = None THEN "idle" ELSE "reviewed"
             opening  == IF c.op = "open" THEN FALSE ELSE ui.opening
  <2>1. p \in Promotions /\ opening \in BOOLEAN
    BY <1>1, <1>5, CallsAreOf DEF Opened, Pages
  <2>2. PICK d \in Details(p) :
          Show([Apply(ui, p, d) EXCEPT !.phase = phase(d), !.opening = IF c.op = "open" THEN FALSE ELSE @], Rest(c))
    BY <1>5 DEF Opened
  <2> DEFINE a == Apply(ui, p, d)
             v == [a EXCEPT !.phase = phase(d), !.opening = opening]
  <2>3. phase(d) \in {"idle", "reviewing", "reviewed", "error"}
    OBVIOUS
  <2>4. a.opening = ui.opening /\ a \in Pages /\ Restored(v, ui, p, d, phase(d), opening)
    BY <1>1, <2>1, <2>3, ApplyRestores
  <2>5. Show(v, Rest(c))
    BY <2>2, <2>4 DEF Pages
  <2> HIDE DEF v, a, phase, opening
  <2>6. v \in Pages /\ Marks(v)
    BY <2>1, <2>4, RestoredMarks
  <2> QED BY <1>1, <2>5, <2>6, ShowMarks
<1>6. CASE Opened(c) /\ ~StillOpening(c)
  BY <1>2, <1>6 DEF Opened
<1>7. CASE Promoted(c) /\ StillSelected(c)
  <2>1. PICK q \in OrNone({n \in Promotions : ResourceOf[n] = c.of}) :
          LET u == [ui EXCEPT !.review = c.of, !.pr = q, !.promotionId = q, !.noChange = (q = None), !.phase = "reviewed"]
          IN  Show(u, Rest(c) (+) AuditCalls(u))
    BY <1>7 DEF Promoted
  <2> DEFINE none == (q = None)
             v == [ui EXCEPT !.review = c.of, !.pr = q, !.promotionId = q, !.noChange = none, !.phase = "reviewed"]
  <2>2. Show(v, Rest(c) (+) AuditCalls(v))
    BY <2>1
  <2>3. q \in OrNone(Promotions) /\ none \in BOOLEAN /\ c.of \in OrNone(Resources)
    BY <1>1, <1>7, CallsAreOf DEF Promoted, OrNone
  <2> HIDE DEF none
  <2>4. v \in Pages /\ v.liveStatus = ui.liveStatus /\ v.evidenceRun = ui.evidenceRun /\ v.sync = ui.sync
    <3>1. ui \in Pages
      BY <1>1
    <3> QED BY <2>3, <3>1 DEF Pages
  <2> HIDE DEF v
  <2>5. Marks(v)
    BY <1>1, <2>4 DEF Marks
  <2>6. DOMAIN (Rest(c) (+) AuditCalls(v)) \subseteq Calls
    BY <1>1, <2>4, TrailSent
  <2> QED BY <2>2, <2>4, <2>5, <2>6, ShowMarks
<1>8. CASE Promoted(c) /\ ~StillSelected(c)
  BY <1>2, <1>8 DEF Promoted
<1>9. CASE StatusRead(c) /\ StillShown(c)
  <2>1. PICK s \in LiveAnswers(c.of, FALSE) :
          ui' = [ApplyLiveStatus(ui, s) EXCEPT !.sync.fresh = TRUE, !.sync.refreshing = FALSE] /\ calls' = Rest(c)
    BY <1>9 DEF StatusRead
  <2>2. s \in Statuses /\ s.live /\ s.steps \in {None, s.run}
    <3>1. FALSE \in BOOLEAN
      OBVIOUS
    <3> QED BY <3>1, AnswersAreStatuses
  <2>3. Applied(ui', ui, s)
    BY <1>1, <2>1, <2>2, StatusReadPage
  <2> QED BY <1>1, <2>1, <2>2, <2>3, AppliedMarks DEF MarksInv
<1>10. CASE StatusRead(c) /\ ~StillShown(c)
  BY <1>2, <1>10 DEF StatusRead
<1>11. CASE EvidenceRead(c) /\ StillShown(c)
  <2>1. PICK s \in LiveAnswers(c.of, TRUE) :
          /\ ui' = [ApplyLiveStatus(ui, s) EXCEPT !.sync.fresh = TRUE, !.sync.evidenceLoading = FALSE,
                                                  !.evidenceRun = IF s.run = None THEN c.run ELSE s.run]
          /\ calls' = Rest(c)
    BY <1>11 DEF EvidenceRead
  <2>2. s \in Statuses /\ s.live /\ s.steps \in {None, s.run} /\ c.run \in Runs
    <3>1. TRUE \in BOOLEAN
      OBVIOUS
    <3>2. c.run \in Runs
      BY <1>1, <1>11 DEF EvidenceRead, Calls
    <3> QED BY <3>1, <3>2, AnswersAreStatuses
  <2>3. Applied(ui', ui, s)
    BY <1>1, <2>1, <2>2, EvidenceReadPage
  <2> QED BY <1>1, <2>1, <2>2, <2>3, AppliedMarks DEF MarksInv
<1>12. CASE EvidenceRead(c) /\ ~StillShown(c)
  BY <1>2, <1>12 DEF EvidenceRead
<1>13. CASE AuditRead(c)
  <2> DEFINE v == IF StillOpening(c) THEN [ui EXCEPT !.audit = c.of] ELSE ui
  <2>1. ui' = v /\ calls' = Rest(c) /\ c.of \in OrNone(Promotions)
    BY <1>1, <1>13, CallsAreOf DEF AuditRead, OrNone
  <2>2. v \in Pages /\ v.liveStatus = ui.liveStatus /\ v.evidenceRun = ui.evidenceRun /\ v.sync = ui.sync
    <3>1. ui \in Pages
      BY <1>1
    <3> QED BY <2>1, <3>1 DEF Pages
  <2> HIDE DEF v
  <2> QED BY <1>1, <2>1, <2>2 DEF MarksInv, Marks
<1>14. CASE Fails(c)
  <2>0. calls' = Rest(c)
    BY <1>14 DEF Fails
  <2>1. CASE c.op = "status" /\ StillShown(c)
    <3> DEFINE z == [ui.sync EXCEPT !.error = c.of, !.refreshing = FALSE]
    <3>1. ui.sync \in Syncs /\ c.of \in OrNone(Promotions)
      BY <1>1, <2>1, CallsAreOf DEF Pages, OrNone
    <3>2. ui' = [ui EXCEPT !.sync = z]
      BY <1>1, <1>14, <2>1, <3>1 DEF Fails, StatusFailed, Pages
    <3>3. z \in Syncs /\ z.fresh = ui.sync.fresh
      BY <3>1 DEF Syncs
    <3> HIDE DEF z
    <3>4. ui' \in Pages /\ SameBesides(ui', ui) /\ ui'.sync = z
      BY <1>1, <3>2, <3>3, SyncReplaced
    <3> QED BY <1>1, <2>0, <3>3, <3>4 DEF MarksInv, Marks, SameBesides
  <2>2. CASE c.op = "evidence" /\ StillShown(c)
    <3> DEFINE z == [ui.sync EXCEPT !.evidenceError = c.of, !.evidenceLoading = FALSE]
    <3>1. ui.sync \in Syncs /\ c.of \in OrNone(Promotions)
      BY <1>1, <2>2, CallsAreOf DEF Pages, OrNone
    <3>2. ui' = [ui EXCEPT !.sync = z]
      BY <1>1, <1>14, <2>2, <3>1 DEF Fails, EvidenceFailed, Pages
    <3>3. z \in Syncs /\ z.fresh = ui.sync.fresh
      BY <3>1 DEF Syncs
    <3> HIDE DEF z
    <3>4. ui' \in Pages /\ SameBesides(ui', ui) /\ ui'.sync = z
      BY <1>1, <3>2, <3>3, SyncReplaced
    <3> QED BY <1>1, <2>0, <3>3, <3>4 DEF MarksInv, Marks, SameBesides
  <2>3. CASE (c.op = "promote" /\ StillSelected(c)) \/ (c.op \in {"open", "openById"} /\ StillOpening(c))
    <3>1. c.of \in Resources \cup Promotions
      BY <1>1, <2>3, CallsAreOf
    <3>2. ui' \in {Failing(c, ui), [Failing(c, ui) EXCEPT !.opening = FALSE]}
      BY <1>14, <2>3 DEF Fails
    <3>3. \E opening : FailedPage(ui', ui, c.of, opening)
      BY <1>1, <3>1, <3>2, FailingFails
    <3> QED BY <1>1, <2>0, <3>3 DEF MarksInv, Marks, FailedPage
  <2>4. CASE ~(\/ c.op \in {"status", "evidence"} /\ StillShown(c)
               \/ c.op = "promote" /\ StillSelected(c)
               \/ c.op \in {"open", "openById"} /\ StillOpening(c))
    <3>1. ui' = ui
      BY <1>14, <2>4 DEF Fails
    <3> QED BY <1>1, <2>0, <3>1 DEF MarksInv
  <2> QED BY <2>1, <2>2, <2>3, <2>4
<1> QED BY <1>3, <1>4, <1>5, <1>6, <1>7, <1>8, <1>9, <1>10, <1>11, <1>12, <1>13, <1>14 DEF Answer

-----------------------------------------------------------------------------
(* The invariants hold.                                                    *)

LEMMA PageStarts == ASSUME Init PROVE MarksInv /\ Settled
<1>1. Call("list", None) \in Calls
  BY DEF Call, Calls
<1>2. DOMAIN calls \in SUBSET Calls /\ Bare(ui, None, None, FALSE)
  BY <1>1, BlankIsBare DEF Init, EmptyBag, SetToBag, OrNone
<1>3. PageOK(ui, DOMAIN calls)
  BY <1>2, BareIsOK
<1> QED BY <1>2, <1>3, BareMarks DEF MarksInv, Settled

LEMMA MarksStep == ASSUME MarksInv, [Next]_vars PROVE MarksInv'
<1>1. ASSUME NEW c \in BagToSet(calls), Answer(c) PROVE MarksInv'
  BY <1>1, AnswerMarks DEF BagToSet
<1>2. ASSUME UNCHANGED vars PROVE MarksInv'
  BY <1>2 DEF vars, MarksInv
<1> QED BY <1>1, <1>2, UserMarks, IntervalMarks DEF Next

\* A step after which the page has taken no answer it did not wait for.
LEMMA PageStep == ASSUME PageInv, [Next]_vars, ~mixed' PROVE Settled'
<1>1. DOMAIN calls \subseteq Calls
  BY DEF PageInv, MarksInv
<1>2. ASSUME NEW r \in OrNone(Resources), Select(r) PROVE Settled'
  BY <1>1, <1>2, SelectStep
<1>3. ASSUME NEW p \in Promotions, Open(p) \/ OpenById(p) PROVE Settled'
  BY <1>1, <1>3, OpenStep
<1>4. CASE UNCHANGED vars
  BY <1>4 DEF vars, PageInv, Settled
<1>5. CASE Declare \/ RequestPromotion \/ LoadEvidence \/ RetryStatus
  <2>1. Settled
    BY <1>5 DEF PageInv, Declare, RequestPromotion, LoadEvidence, RetryStatus
  <2> QED BY <1>5, <2>1, DeclareStep, RequestStep, EvidenceStep, PollStep
<1>6. CASE Interval
  <2>1. Settled
    BY <1>6 DEF PageInv, Interval, Tick, TickAudit, StopPolling
  <2>2. CASE StopPolling
    BY <2>1, <2>2 DEF StopPolling, Settled
  <2> QED BY <1>6, <2>1, <2>2, PollStep, TickAuditStep DEF Interval
<1>7. ASSUME NEW c, Recovered(c) PROVE Settled'
  <2>1. Settled /\ (Drop(c) \/ ui.promotionId = None)
    BY <1>7 DEF PageInv, Recovered, Drop, Takes
  <2> QED BY <1>7, <2>1, RecoveredStep
<1>8. ASSUME NEW c, Promoted(c) PROVE Settled'
  <2>1. Settled /\ (StillSelected(c) => ui.phase = "reviewing" /\ ~ui.opening)
    BY <1>8 DEF PageInv, Promoted, Drop, Takes
  <2> QED BY <1>8, <2>1, PromotedStep
<1>9. ASSUME NEW c, Listed(c) \/ Opened(c) \/ StatusRead(c) \/ EvidenceRead(c) \/ AuditRead(c) \/ Fails(c)
      PROVE  Settled'
  <2>1. Settled
    BY <1>9 DEF PageInv, Listed, Opened, StatusRead, EvidenceRead, AuditRead, Fails, Drop
  <2> QED BY <1>9, <2>1, ListedStep, OpenedStep, StatusStep, EvidenceReadStep, AuditStep, FailsStep
<1> QED BY <1>2, <1>3, <1>4, <1>5, <1>6, <1>7, <1>8, <1>9 DEF Next, User, Answer

LEMMA MixedIsBoolean == ASSUME PageInv, [Next]_vars PROVE mixed' \in BOOLEAN
<1>1. CASE User
  BY <1>1 DEF PageInv, User, Select, Open, OpenById, Declare, RequestPromotion, LoadEvidence, RetryStatus
<1>2. CASE Interval
  BY <1>2 DEF PageInv, Interval, Tick, TickAudit, StopPolling
<1>3. ASSUME NEW c, Answer(c) PROVE mixed' \in BOOLEAN
  BY <1>3 DEF PageInv, Answer, Listed, Recovered, Opened, Promoted, StatusRead, EvidenceRead, AuditRead, Fails, Drop, Takes
<1>4. CASE UNCHANGED vars
  BY <1>4 DEF PageInv, vars
<1> QED BY <1>1, <1>2, <1>3, <1>4 DEF Next

LEMMA PageInvHolds == Spec => []PageInv
<1>1. Init => PageInv
  BY PageStarts DEF PageInv, Init
<1>2. PageInv /\ [Next]_vars => PageInv'
  <2>1. ASSUME PageInv, [Next]_vars PROVE MarksInv' /\ mixed' \in BOOLEAN /\ (~mixed' => Settled')
    BY <2>1, MarksStep, MixedIsBoolean, PageStep DEF PageInv
  <2> QED BY <2>1 DEF PageInv
<1> QED BY <1>1, <1>2, PTL DEF Spec

\* Whatever the user does, a stored snapshot is never presented as what GitHub says now, and the job
\* steps on the page are of the run it shows (statusFresh, _applyLiveStatus).
THEOREM MarksAreTrue == Spec => [](FreshIsLive /\ EvidenceIsOfTheRun)
<1>1. PageInv => FreshIsLive /\ EvidenceIsOfTheRun
  BY DEF PageInv, MarksInv, Marks, FreshIsLive, EvidenceIsOfTheRun
<1> QED BY <1>1, PageInvHolds, PTL

\* What the page shows at one moment belongs together, whatever the order in which the answers of the
\* calls made for what it showed before arrive (the guards after every await in promotion.svelte.ts):
\* only a review that comes on a page which no longer waits for it, and the latest promotion recovered
\* over one that is being opened, put two promotions on one page, and the next selection parts them.
THEOREM OnePromotionAtATime == Spec => []ShownTogether
<1>1. PageInv => ShownTogether
  BY DEF PageInv, MarksInv, Settled, PageOK, Selection, Status, Marks, ShownTogether, OneOnThePage, FreshIsLive,
         EvidenceIsOfTheRun
<1> QED BY <1>1, PageInvHolds, PTL

\* Whatever is said to be loading has a call in flight whose answer or failure ends it, although calls
\* are answered in any order, dropped by the guards, and asked for again; the same two answers are the
\* only ones after which a page may wait for nothing, until the next selection.
THEOREM FlagsAreAnswered == Spec => []NothingLoadsForEver
<1>1. PageInv => NothingLoadsForEver
  BY DEF PageInv, Settled, PageOK, Loads, NothingLoadsForEver, LoadingEnds, InFlight, BagToSet, Has
<1> QED BY <1>1, PageInvHolds, PTL

=============================================================================
