---------------------------- MODULE WebPromotion ----------------------------
(***************************************************************************)
(* The class Promotion of src/web/src/lib/promotion.svelte.ts: what the    *)
(* browser shows of one promotion while the user selects, requests and     *)
(* opens others.  An asynchronous method is a step up to its call and      *)
(* another one when the answer comes; between them any other method may    *)
(* run.  Overlapping calls are answered in any order, so that an answer    *)
(* may be older than what is shown: it is chosen when it arrives.          *)
(***************************************************************************)
EXTENDS Naturals, Bags, BagsExt

CONSTANTS
  Resources,   \* what the user may select
  Promotions,  \* stored promotions; each has a pull request, named alike
  ResourceOf,  \* the resource of each promotion
  Reviewless,  \* promotions whose request stopped before it stored its review
  Runs,        \* deploy runs GitHub may show
  None,        \* null
  MaxActs,     \* bounds the acts of the user
  MaxFaults,   \* bounds the calls that fail
  MaxCalls     \* bounds the calls in flight when the interval adds one

ASSUME WebAssumption ==
  /\ ResourceOf \in [Promotions -> Resources]
  /\ Reviewless \subseteq Promotions
  /\ None \notin Resources \cup Promotions \cup Runs
  /\ MaxActs \in Nat /\ MaxFaults \in Nat /\ MaxCalls \in Nat

VARIABLES
  ui,       \* the reactive fields of the Promotion
  calls,    \* the calls the browser waits for, a bag
  polling,  \* the screen's interval is running
  acts, faults,
  mixed     \* the page has taken an answer it was not waiting for (history)

vars == <<ui, calls, polling, acts, faults, mixed>>

OrNone(S) == S \cup {None}

\* A status of a pull request: the deploy run in it, the run whose job steps
\* come with it, and whether GitHub said it now or a snapshot was stored.
Statuses == [of : Promotions, run : OrNone(Runs), steps : OrNone(Runs), live : BOOLEAN]

ASSUME StatusIsNotNone == None \notin Statuses

Calls ==
  [op : {"list"}, of : {None}, run : {None}] \cup [op : {"promote"}, of : Resources, run : {None}]
    \cup [op : {"recover", "open", "openById", "status", "audit"}, of : Promotions, run : {None}]
    \cup [op : {"evidence"}, of : Promotions, run : Runs]

Call(op, x)     == [op |-> op, of |-> x, run |-> None]
InFlight(op, x) == \E c \in BagToSet(calls) : c.op = op /\ c.of = x

\* What is known of a pull request that nobody has asked GitHub about yet.
Unasked == [refreshing |-> FALSE, fresh |-> FALSE, error |-> None,
            evidenceLoading |-> FALSE, evidenceError |-> None]

Blank(r) ==
  [resource |-> r, phase |-> "idle", review |-> None, error |-> None, pr |-> None,
   liveStatus |-> None, sync |-> Unasked, evidenceRun |-> None, promotionId |-> None,
   audit |-> None, opening |-> FALSE, noChange |-> FALSE, declared |-> FALSE]

Selected_KeepsOpening(r) ==  \* Slip: select forgets the flag of an open under way.
  [Blank(r) EXCEPT !.opening = ui.opening]

Selected(r) == Blank(r)

Init ==
  /\ ui = Blank(None)
  /\ calls \in {EmptyBag, SetToBag({Call("list", None)})}  \* recover() on a workspace screen
  /\ polling = FALSE /\ acts = 0 /\ faults = 0 /\ mixed = FALSE

-----------------------------------------------------------------------------
(* Steps that both the screens and the methods take.                       *)

CanRefresh(u) == u.pr # None /\ ~u.sync.refreshing /\ ~u.sync.evidenceLoading

Refreshing(u) == [u EXCEPT !.sync.refreshing = TRUE, !.sync.error = None]

AuditCalls(u) == IF u.promotionId = None THEN EmptyBag
                 ELSE SetToBag({Call("audit", u.promotionId)})

\* The state u is shown, rest are the calls in flight.  With a pull request,
\* PromotionReview asks for its status and its trail and starts its interval.
Show(u, rest) ==
  LET asks == u.phase # "idle" /\ CanRefresh(u)
  IN  /\ ui' = IF asks THEN Refreshing(u) ELSE u
      /\ calls' = IF asks THEN BagAdd(rest, Call("status", u.pr)) (+) AuditCalls(u) ELSE rest
      /\ polling' = (u.phase # "idle" /\ u.pr # None)

\* The page takes an answer, whether or not it is the one it waits for.
Takes(awaited) == mixed' = (mixed \/ ~awaited)

\* _apply: a stored promotion p with its detail d.
Apply(u, p, d) ==
  [u EXCEPT !.resource = ResourceOf[p], !.review = d.review, !.pr = p, !.promotionId = p,
            !.liveStatus = d.live, !.sync = Unasked, !.audit = p,
            !.evidenceRun = IF d.live # None /\ d.live.steps # None THEN d.live.run ELSE None]

\* What the store answers about p: a review, if it has one, and a snapshot.
Details(p) ==
  LET Stored == {s \in Statuses : s.of = p /\ ~s.live /\ s.steps \in {None, s.run}}
  IN  [review : {IF p \in Reviewless THEN None ELSE ResourceOf[p]}, live : OrNone(Stored)]

LiveAnswers(p, deep) ==
  {s \in Statuses : s.of = p /\ s.live /\ s.steps \in (IF deep THEN {None, s.run} ELSE {None})}

SameRun(old, s) == old # None /\ old.run # None /\ old.run = s.run

ApplyLiveStatus(u, s) ==
  LET old  == u.liveStatus
      same == SameRun(old, s)
  IN  [u EXCEPT !.liveStatus = [s EXCEPT !.steps = IF s.steps = None /\ same
                                                    THEN old.steps ELSE s.steps],
                !.evidenceRun = IF same THEN @ ELSE None,
                !.sync.evidenceError = IF same THEN @ ELSE None]

Act   == acts < MaxActs /\ acts' = acts + 1 /\ UNCHANGED faults
Fault == faults < MaxFaults /\ faults' = faults + 1 /\ UNCHANGED acts

-----------------------------------------------------------------------------
(* The user.                                                               *)

\* A row of a register, or the way back to it, which is None.  Only the register of the Spaces
\* is locked while a request is reviewed; that of the dashboards is not (Paineis.svelte:153).
Select(r) ==
  /\ Act
  /\ ui' = Selected(r) /\ polling' = FALSE /\ mixed' = FALSE /\ UNCHANGED calls

\* The confirmation panel: the audience, and for a dashboard its area.
Declare ==
  /\ ui.resource # None /\ ui.phase = "idle" /\ ~ui.declared
  /\ ui' = [ui EXCEPT !.declared = TRUE] /\ UNCHANGED <<calls, polling, acts, faults, mixed>>

\* requestPromotion; the button of an error calls it again.
RequestPromotion ==
  /\ Act /\ ui.resource # None /\ ui.phase \in {"idle", "error"}
  /\ IF ui.declared
     THEN /\ ui' = [ui EXCEPT !.phase = "reviewing", !.review = None, !.error = None, !.pr = None,
                              !.liveStatus = None, !.sync = Unasked, !.evidenceRun = None,
                              !.noChange = FALSE]
          /\ calls' = BagAdd(calls, Call("promote", ui.resource)) /\ polling' = FALSE
     ELSE /\ ui' = [ui EXCEPT !.phase = "error", !.error = ui.resource]
          /\ UNCHANGED <<calls, polling>>
  /\ UNCHANGED mixed

\* open, from the history; openById, from a link.
Open(p) ==
  /\ Act
  /\ ui' = [Selected(None) EXCEPT !.promotionId = p, !.opening = TRUE]
  /\ calls' = BagAdd(calls, Call("open", p)) /\ polling' = FALSE /\ mixed' = FALSE

OpenById(p) ==
  /\ Act /\ ~(ui.promotionId = p /\ ui.phase # "idle")
  /\ ui' = [Selected(None) EXCEPT !.promotionId = p]
  /\ calls' = BagAdd(calls, Call("openById", p)) /\ polling' = FALSE /\ mixed' = FALSE

\* refreshDeploymentEvidence, when the details are unfolded.
LoadEvidence ==
  /\ Act /\ ui.pr # None /\ ui.phase = "reviewed" /\ ui.liveStatus # None
  /\ LET run == ui.liveStatus.run
     IN  /\ run # None /\ ui.evidenceRun # run /\ ~ui.sync.evidenceLoading
         /\ ui' = [ui EXCEPT !.sync.evidenceLoading = TRUE, !.sync.evidenceError = None]
         /\ calls' = BagAdd(calls, [Call("evidence", ui.pr) EXCEPT !.run = run])
  /\ UNCHANGED <<polling, mixed>>

RetryStatus ==
  /\ Act /\ ui.sync.error # None /\ CanRefresh(ui)
  /\ ui' = Refreshing(ui) /\ calls' = BagAdd(calls, Call("status", ui.pr))
  /\ UNCHANGED <<polling, mixed>>

-----------------------------------------------------------------------------
(* The interval: the status, then the trail, then the end of a terminal    *)
(* phase.  The status's phase is not modelled: any status may be the last. *)

Tick ==
  /\ polling /\ CanRefresh(ui) /\ BagCardinality(calls) < MaxCalls
  /\ ui' = Refreshing(ui) /\ calls' = BagAdd(calls, Call("status", ui.pr))
  /\ UNCHANGED <<polling, acts, faults, mixed>>

TickAudit ==
  /\ polling /\ ui.promotionId # None /\ BagCardinality(calls) < MaxCalls
  /\ calls' = calls (+) AuditCalls(ui) /\ UNCHANGED <<ui, polling, acts, faults, mixed>>

StopPolling ==
  /\ polling /\ ui.liveStatus # None
  /\ polling' = FALSE /\ UNCHANGED <<ui, calls, acts, faults, mixed>>

-----------------------------------------------------------------------------
(* Answers.  A method takes its answer only while what it was asked for is *)
(* still what the user looks at.                                           *)

StillSelected(c) == ui.resource = c.of

StillOpening_Always(c) ==  \* Slip: another open() does not cancel this one.
  TRUE

StillOpening(c) == ui.promotionId = c.of

StillShown(c) == ui.pr = c.of

Idle == ui.phase = "idle" /\ ui.resource = None

Rest(c)    == BagRemove(calls, c)
Drop(c)    == calls' = Rest(c) /\ UNCHANGED <<ui, polling, mixed>>
Pending(c) == c \in BagToSet(calls)
Quiet      == UNCHANGED <<acts, faults>>

\* recover: the list, whose first item it restores, and then its detail.
Listed(c) ==
  /\ Pending(c) /\ c.op = "list" /\ Quiet
  /\ \/ Drop(c)
     \/ \E p \in Promotions :
          calls' = BagAdd(Rest(c), Call("recover", p)) /\ UNCHANGED <<ui, polling, mixed>>

Recovered(c) ==
  /\ Pending(c) /\ c.op = "recover" /\ Quiet
  /\ \E d \in Details(c.of) :
       IF Idle /\ d.review # None
       THEN Show([Apply(ui, c.of, d) EXCEPT !.phase = "reviewed"], Rest(c)) /\ Takes(ui.promotionId = None)
       ELSE Drop(c)

Opened(c) ==
  /\ Pending(c) /\ c.op \in {"open", "openById"} /\ Quiet
  /\ IF StillOpening(c)
     THEN \E d \in Details(c.of) :
            Show([Apply(ui, c.of, d)
                    EXCEPT !.phase = IF d.review = None THEN "idle" ELSE "reviewed",
                           !.opening = IF c.op = "open" THEN FALSE ELSE @], Rest(c)) /\ UNCHANGED mixed
     ELSE Drop(c)

\* The request is answered with a review and a pull request, or with a
\* review alone when there is nothing to promote.
Promoted(c) ==
  /\ Pending(c) /\ c.op = "promote" /\ Quiet
  /\ IF StillSelected(c)
     THEN \E p \in OrNone({q \in Promotions : ResourceOf[q] = c.of}) :
            LET u == [ui EXCEPT !.review = c.of, !.pr = p, !.promotionId = p,
                                !.noChange = (p = None), !.phase = "reviewed"]
            IN  Show(u, Rest(c) (+) AuditCalls(u)) /\ Takes(ui.phase = "reviewing" /\ ~ui.opening)
     ELSE Drop(c)

StatusRead(c) ==
  /\ Pending(c) /\ c.op = "status" /\ Quiet
  /\ IF StillShown(c)
     THEN /\ \E s \in LiveAnswers(c.of, FALSE) :
               ui' = [ApplyLiveStatus(ui, s) EXCEPT !.sync.fresh = TRUE, !.sync.refreshing = FALSE]
          /\ calls' = Rest(c) /\ UNCHANGED <<polling, mixed>>
     ELSE Drop(c)

EvidenceRead(c) ==
  /\ Pending(c) /\ c.op = "evidence" /\ Quiet
  /\ IF StillShown(c)
     THEN /\ \E s \in LiveAnswers(c.of, TRUE) :
               ui' = [ApplyLiveStatus(ui, s)
                        EXCEPT !.sync.fresh = TRUE, !.sync.evidenceLoading = FALSE,
                               !.evidenceRun = IF s.run = None THEN c.run ELSE s.run]
          /\ calls' = Rest(c) /\ UNCHANGED <<polling, mixed>>
     ELSE Drop(c)

AuditRead(c) ==
  /\ Pending(c) /\ c.op = "audit" /\ Quiet
  /\ ui' = IF StillOpening(c) THEN [ui EXCEPT !.audit = c.of] ELSE ui
  /\ calls' = Rest(c) /\ UNCHANGED <<polling, mixed>>

-----------------------------------------------------------------------------
(* Calls that fail.                                                        *)

StatusFailed_Silent(c, u) ==  \* Slip: best effort, as for the trail.
  [u EXCEPT !.sync.refreshing = FALSE]

StatusFailed(c, u) == [u EXCEPT !.sync.error = c.of, !.sync.refreshing = FALSE]

EvidenceFailed(c, u) == [u EXCEPT !.sync.evidenceError = c.of, !.sync.evidenceLoading = FALSE]

Failing(c, u) == [u EXCEPT !.error = c.of, !.phase = "error"]

Fails(c) ==
  /\ Pending(c) /\ Fault /\ calls' = Rest(c) /\ UNCHANGED <<polling, mixed>>
  /\ ui' = CASE c.op = "status"   /\ StillShown(c)    -> StatusFailed(c, ui)
             [] c.op = "evidence" /\ StillShown(c)    -> EvidenceFailed(c, ui)
             [] c.op = "promote"  /\ StillSelected(c) -> Failing(c, ui)
             [] c.op = "openById" /\ StillOpening(c)  -> Failing(c, ui)
             [] c.op = "open"     /\ StillOpening(c)  -> [Failing(c, ui) EXCEPT !.opening = FALSE]
             [] OTHER -> ui

-----------------------------------------------------------------------------

User == \/ \E r \in OrNone(Resources) : Select(r)
        \/ \E p \in Promotions : Open(p) \/ OpenById(p)
        \/ Declare \/ RequestPromotion \/ LoadEvidence \/ RetryStatus

Interval == Tick \/ TickAudit \/ StopPolling

Answer(c) == \/ Listed(c) \/ Recovered(c) \/ Opened(c) \/ Promoted(c)
             \/ StatusRead(c) \/ EvidenceRead(c) \/ AuditRead(c) \/ Fails(c)

Next == User \/ Interval \/ \E c \in BagToSet(calls) : Answer(c)

Spec == Init /\ [][Next]_vars

\* Every call about the status of a pull request is answered or fails.
FairSpec ==
  Spec /\ \A p \in Promotions : WF_vars(\E c \in BagToSet(calls) : c.of = p /\ c.op = "status" /\ Answer(c))

-----------------------------------------------------------------------------
(* Properties.                                                             *)

\* Types: every field of the page has one of its values, every call names what it asks for.
TypeOK ==
  /\ ui \in [resource : OrNone(Resources), phase : {"idle", "reviewing", "reviewed", "error"},
             review : OrNone(Resources), error : OrNone(Resources \cup Promotions),
             pr : OrNone(Promotions), liveStatus : OrNone(Statuses),
             sync : [refreshing : BOOLEAN, fresh : BOOLEAN, error : OrNone(Promotions),
                     evidenceLoading : BOOLEAN, evidenceError : OrNone(Promotions)],
             evidenceRun : OrNone(Runs), promotionId : OrNone(Promotions),
             audit : OrNone(Promotions), opening : BOOLEAN, noChange : BOOLEAN,
             declared : BOOLEAN]
  /\ BagToSet(calls) \subseteq Calls /\ IsABag(calls)
  /\ polling \in BOOLEAN /\ acts \in 0..MaxActs /\ faults \in 0..MaxFaults /\ mixed \in BOOLEAN

\* Resource, review, pull request, status, trail and errors are all of one promotion: "selection
\* changed mid-flight - drop the stale result" (promotion.svelte.ts:281).  A request keeps the
\* trail that is shown, so that this alone may be an earlier promotion's of the resource.
OneOnThePage ==
  /\ ui.review # None => ui.review = ui.resource
  /\ ui.pr # None => ui.promotionId = ui.pr /\ ResourceOf[ui.pr] = ui.resource
  /\ ui.liveStatus # None => ui.liveStatus.of = ui.pr
  /\ ui.audit # None => \/ ui.audit = ui.promotionId
                        \/ ui.resource # None /\ ResourceOf[ui.audit] = ui.resource
  /\ ui.error # None => ui.error \in {ui.resource, ui.promotionId}
  /\ ui.sync.error # None => ui.sync.error = ui.pr
  /\ ui.sync.evidenceError # None => ui.sync.evidenceError = ui.pr

\* A stored snapshot is never presented as the current status: what is
\* marked fresh was said by GitHub (statusFresh, promotion.svelte.ts:44).
FreshIsLive == ui.sync.fresh => ui.liveStatus # None /\ ui.liveStatus.live

\* Job steps kept across later polls are of the run that is shown, and the
\* mark that they are loaded is not of another run (_applyLiveStatus).
EvidenceIsOfTheRun ==
  ui.liveStatus # None =>
    /\ ui.liveStatus.steps \in {None, ui.liveStatus.run}
    /\ ui.liveStatus.run # None => ui.evidenceRun \in {None, ui.liveStatus.run}

\* What the page shows at one moment belongs together, however the answers of what was selected,
\* requested and opened before it arrive (promotion.svelte.ts, the guards after every await).  Of
\* what the page says of one promotion, the exception is a page that has taken an answer it did
\* not wait for, until the next selection: nothing but the two guards of Takes lets one in.
ShownTogether == FreshIsLive /\ EvidenceIsOfTheRun /\ (~mixed => OneOnThePage)

\* A flag that says something is loading is never left without a call whose
\* answer ends it: a page that loads for ever, and a poll that its own
\* single-flight guard blocks for ever, are the same mistake.
LoadingEnds ==
  /\ ui.opening => InFlight("open", ui.promotionId)
  /\ ui.phase = "reviewing" => InFlight("promote", ui.resource)
  /\ ui.sync.refreshing => InFlight("status", ui.pr)
  /\ ui.sync.evidenceLoading => InFlight("evidence", ui.pr)

\* ... unless the page has taken an answer it did not wait for; the next selection mends it.
NothingLoadsForEver == ~mixed => LoadingEnds

\* A pull request put on the page is confirmed by GitHub, or the user is told
\* that it could not be, or leaves it (waitingForLiveStatus comes to an end).
StatusIsConfirmed ==
  \A p \in Promotions :
    (ui.pr = p /\ ui.phase = "reviewed") ~> (ui.sync.fresh \/ ui.sync.error = p \/ ui.pr # p \/ mixed)

=============================================================================
