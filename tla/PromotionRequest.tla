-------------------------- MODULE PromotionRequest --------------------------
(***************************************************************************)
(* POST /promote for one resource: app_logic.request_promotion, GitHubApp. *)
(* open_or_update_promotion and engine_api _persist_promotion, call by     *)
(* call.  Several requests run at the same time, any call can raise, the   *)
(* process can stop, and on GitHub people mark the pull request ready,     *)
(* merge it or close it meanwhile.                                         *)
(*                                                                         *)
(* A content is what one request declares: the exported definition with    *)
(* its title and audience, and maybe a table mapping.  The mapping is the  *)
(* one optional sidecar; the revision manifest names the whole content.    *)
(***************************************************************************)
EXTENDS Integers, Sequences, FiniteSets

CONSTANTS
  Requesters,
  Contents,
  Mapped,        \* the contents that declare a table mapping
  Slugs,         \* those the declared area and title can derive
  MaxRequests,   \* bound: requests, retries of failed ones apart
  MaxFaults      \* bound: calls that raise and processes that stop

ASSUME MappedAreContents == Mapped \subseteq Contents
ASSUME BoundsAreNat == {MaxRequests, MaxFaults} \subseteq Nat

None == "none"

VARIABLES
  base,      \* the content branch: the committed tree of each slug
  branch,    \* the promotion branch of each slug
  pulls,     \* pull requests, by number
  rows,      \* the promotions table
  pc, req,   \* each request under way: its next call, what it knows
  last,      \* the last request that finished, if it was alone (history)
  requests, faults,
  clean      \* nothing has failed and no requests have overlapped (history)

github == <<base, branch, pulls>>
vars   == <<github, rows, pc, req, last, requests, faults, clean>>

-----------------------------------------------------------------------------
Files == {"artifact", "mapping", "manifest"}

Empty == [f \in Files |-> None]

\* The tree a content stands for.
Tree(c) == [f \in Files |-> IF f = "mapping" /\ c \notin Mapped THEN None ELSE c]

\* Slip: extra_files are written, remove_files are not.
Writes_NoRemove(c) == IF c \in Mapped THEN <<"artifact", "mapping", "manifest">>
                                      ELSE <<"artifact", "manifest">>

\* The commits of one request: its files, then the removal of a sidecar it does not declare.
Writes(c) == IF c \in Mapped THEN <<"artifact", "mapping", "manifest">>
                             ELSE <<"artifact", "manifest", "mapping">>

OpenPulls(slug) == {n \in DOMAIN pulls : pulls[n].slug = slug /\ pulls[n].state = "open"}

IsOpen(n) == n \in DOMAIN pulls /\ pulls[n].state = "open"

RowsOf(n) == {i \in DOMAIN rows : rows[i].pull = n}

Idle == [content |-> None, slug |-> None, pull |-> 0, draft |-> TRUE,
         todo |-> <<>>, event |-> None, failed |-> FALSE, alone |-> TRUE, raced |-> FALSE]

NoLast == [content |-> None, pull |-> 0]

Init ==
  /\ base = [s \in Slugs |-> Empty] /\ branch = base
  /\ pulls = <<>> /\ rows = <<>>
  /\ pc = [r \in Requesters |-> "idle"]
  /\ req = [r \in Requesters |-> Idle]
  /\ last = NoLast
  /\ requests = 0 /\ faults = 0
  /\ clean = TRUE

Goto(r, label) == pc' = [pc EXCEPT ![r] = label]

-----------------------------------------------------------------------------
(* The request, as far as GitHub.                                          *)

Busy == {r \in Requesters : pc[r] # "idle"}

\* Slip: the slug is derived from the declarations every time.
PriorSlug_Derived(declared) == {declared}

\* prior_slug_for: the slug of the most recently updated promotion of the resource, which may
\* be any (every reconcile updates one); else the declared one.
PriorSlug(declared) ==
  IF rows = <<>> THEN {declared} ELSE {rows[i].slug : i \in DOMAIN rows}

\* The stored promotions are read first, then the review runs.
Start(r) ==
  /\ pc[r] = "idle"
  /\ \E c \in Contents, declared \in Slugs : \E slug \in PriorSlug(declared) :
       req' = [q \in Requesters |->
                 IF q = r THEN [Idle EXCEPT !.content = c, !.slug = slug, !.alone = (Busy = {})]
                          ELSE [req[q] EXCEPT !.alone = FALSE]]
  /\ Goto(r, "find")
  /\ clean' = (clean /\ Busy = {})
  /\ UNCHANGED <<github, rows, last, faults>>

Begin(r) ==
  /\ ~req[r].failed
  /\ requests < MaxRequests /\ requests' = requests + 1
  /\ Start(r)

\* The user tries again after an error, with the same declarations or with others.
Retry(r) == req[r].failed /\ Start(r) /\ UNCHANGED requests

FindPull(r) ==
  LET found == OpenPulls(req[r].slug) IN
  /\ pc[r] = "find"
  /\ IF found = {}
       THEN Goto(r, "match") /\ UNCHANGED req
       ELSE \E n \in found :
              /\ req' = [req EXCEPT ![r].pull = n, ![r].draft = pulls[n].draft,
                                    ![r].todo = Writes(req[r].content)]
              /\ Goto(r, "write")
  /\ UNCHANGED <<github, rows, last, requests, faults, clean>>

MatchesBase(r) == base[req[r].slug] = Tree(req[r].content)

\* Byte-identical to the base: {"no_change": True}, nothing is opened or stored.
NothingToPromote(r) ==
  /\ pc[r] = "match" /\ MatchesBase(r)
  /\ req' = [req EXCEPT ![r] = Idle]
  /\ Goto(r, "idle")
  /\ UNCHANGED <<github, rows, last, requests, faults, clean>>

\* Slip: there is no no-op guard.
SomethingToPromote_Always(r) ==
  /\ pc[r] = "match"
  /\ req' = [req EXCEPT ![r].todo = Writes(req[r].content)]
  /\ Goto(r, "reset")
  /\ UNCHANGED <<github, rows, last, requests, faults, clean>>

SomethingToPromote(r) ==
  /\ pc[r] = "match" /\ ~MatchesBase(r)
  /\ req' = [req EXCEPT ![r].todo = Writes(req[r].content)]
  /\ Goto(r, "reset")
  /\ UNCHANGED <<github, rows, last, requests, faults, clean>>

\* A read of the base fails: it counts as different.
MatchUnknown(r) ==
  /\ pc[r] = "match" /\ faults < MaxFaults
  /\ faults' = faults + 1 /\ clean' = FALSE
  /\ req' = [req EXCEPT ![r].todo = Writes(req[r].content)]
  /\ Goto(r, "reset")
  /\ UNCHANGED <<github, rows, last, requests>>

ResetBranch(r) ==
  /\ pc[r] = "reset"
  /\ branch' = [branch EXCEPT ![req[r].slug] = base[req[r].slug]]
  /\ Goto(r, "write")
  /\ UNCHANGED <<base, pulls, rows, req, last, requests, faults, clean>>

\* One file, one commit.
WriteFile(r) ==
  LET f == Head(req[r].todo) IN
  /\ pc[r] = "write" /\ req[r].todo # <<>>
  /\ branch' = [branch EXCEPT ![req[r].slug][f] = Tree(req[r].content)[f]]
  /\ req' = [req EXCEPT ![r].todo = Tail(@)]
  /\ UNCHANGED <<base, pulls, rows, pc, last, requests, faults, clean>>

\* Slip: a pull request the owner has marked ready stays ready.
Demote_Never(r) ==
  /\ pc[r] = "write" /\ req[r].todo = <<>> /\ req[r].pull # 0
  /\ Goto(r, "lookup")
  /\ UNCHANGED <<github, rows, req, last, requests, faults, clean>>

\* A pull request that was ready when it was found goes back to draft.
Demote(r) ==
  LET n == req[r].pull IN
  /\ pc[r] = "write" /\ req[r].todo = <<>> /\ n # 0
  /\ req[r].draft \/ IsOpen(n)
  /\ pulls' = IF req[r].draft THEN pulls ELSE [pulls EXCEPT ![n].draft = TRUE]
  /\ Goto(r, "lookup")
  /\ UNCHANGED <<base, branch, rows, req, last, requests, faults, clean>>

\* GitHub opens no second pull request for a branch.
CreatePull(r) ==
  /\ pc[r] = "write" /\ req[r].todo = <<>> /\ req[r].pull = 0
  /\ OpenPulls(req[r].slug) = {}
  /\ pulls' = Append(pulls, [slug |-> req[r].slug, state |-> "open", draft |-> TRUE])
  /\ req' = [req EXCEPT ![r].pull = Len(pulls) + 1]
  /\ Goto(r, "lookup")
  /\ UNCHANGED <<base, branch, rows, last, requests, faults, clean>>

-----------------------------------------------------------------------------
(* The request, in the database: one statement per call.                   *)

\* The label before it is best-effort; the review comment is not, and fails the request here.
FindRow(r) ==
  /\ pc[r] = "lookup"
  /\ IF RowsOf(req[r].pull) = {}
       THEN Goto(r, "insert") /\ UNCHANGED req
       ELSE req' = [req EXCEPT ![r].event = "re_reviewed"] /\ Goto(r, "snapshot")
  /\ UNCHANGED <<github, rows, last, requests, faults, clean>>

NewRow(r) ==
  [pull |-> req[r].pull, slug |-> req[r].slug, declares |-> req[r].content,
   revision |-> req[r].content, snapshots |-> {}, events |-> <<>>]

\* Slip: there is no unique index uq_promotions_change_request.
InsertRow_NoIndex(r) ==
  /\ pc[r] = "insert"
  /\ rows' = Append(rows, NewRow(r))
  /\ req' = [req EXCEPT ![r].event = "requested"]
  /\ Goto(r, "snapshot")
  /\ UNCHANGED <<github, last, requests, faults, clean>>

\* DuplicateChangeRequest turns the request into a re-review.
InsertRow(r) ==
  /\ pc[r] = "insert"
  /\ IF RowsOf(req[r].pull) = {}
       THEN rows' = Append(rows, NewRow(r)) /\ req' = [req EXCEPT ![r].event = "requested"]
       ELSE UNCHANGED rows /\ req' = [req EXCEPT ![r].event = "re_reviewed"]
  /\ Goto(r, "snapshot")
  /\ UNCHANGED <<github, last, requests, faults, clean>>

UpdateRow(r, row) == rows' = [i \in DOMAIN rows |-> IF rows[i].pull = req[r].pull THEN row[i] ELSE rows[i]]

AppendSnapshot(r) ==
  /\ pc[r] = "snapshot"
  /\ UpdateRow(r, [i \in DOMAIN rows |-> [rows[i] EXCEPT !.snapshots = @ \cup {req[r].content}]])
  /\ Goto(r, IF req[r].event = "requested" THEN "event" ELSE "declare")
  /\ UNCHANGED <<github, req, last, requests, faults, clean>>

UpdateDeclarations(r) ==
  /\ pc[r] = "declare"
  /\ UpdateRow(r, [i \in DOMAIN rows |-> [rows[i] EXCEPT !.declares = req[r].content]])
  /\ Goto(r, "revise")
  /\ UNCHANGED <<github, req, last, requests, faults, clean>>

\* Slip: a re-request leaves the revision pair of the first one.
UpdateChangeRequest_Forgotten(r) ==
  /\ pc[r] = "revise"
  /\ Goto(r, "event")
  /\ UNCHANGED <<github, rows, req, last, requests, faults, clean>>

UpdateChangeRequest(r) ==
  /\ pc[r] = "revise"
  /\ UpdateRow(r, [i \in DOMAIN rows |-> [rows[i] EXCEPT !.revision = req[r].content]])
  /\ Goto(r, "event")
  /\ UNCHANGED <<github, req, last, requests, faults, clean>>

AppendEvent(r) ==
  /\ pc[r] = "event"
  /\ UpdateRow(r, [i \in DOMAIN rows |-> [rows[i] EXCEPT !.events = Append(@, req[r].event)]])
  /\ last' = IF req[r].alone THEN [content |-> req[r].content, pull |-> req[r].pull] ELSE NoLast
  /\ req' = [req EXCEPT ![r] = Idle]
  /\ Goto(r, "idle")
  /\ UNCHANGED <<github, requests, faults, clean>>

-----------------------------------------------------------------------------
\* GitHub refuses to open a second pull request, or to demote one that is not open any more.
Refused(r) ==
  /\ pc[r] = "write" /\ req[r].todo = <<>>
  /\ IF req[r].pull = 0 THEN OpenPulls(req[r].slug) # {}
                        ELSE ~req[r].draft /\ ~IsOpen(req[r].pull)

\* Slip: a failed request is not repeated in full, it is taken for done.
Fail_Forgotten(r) ==
  /\ pc[r] # "idle"
  /\ Refused(r) \/ faults < MaxFaults
  /\ faults' = IF Refused(r) THEN faults ELSE faults + 1
  /\ req' = [req EXCEPT ![r] = Idle]
  /\ last' = NoLast /\ clean' = FALSE
  /\ Goto(r, "idle")
  /\ UNCHANGED <<github, rows, requests>>

\* A call raises, or the process stops: what is done stays done, the user gets an error.
Fail(r) ==
  /\ pc[r] # "idle"
  /\ Refused(r) \/ faults < MaxFaults
  /\ faults' = IF Refused(r) THEN faults ELSE faults + 1
  /\ req' = [req EXCEPT ![r] = [Idle EXCEPT !.failed = TRUE]]
  /\ last' = NoLast /\ clean' = FALSE
  /\ Goto(r, "idle")
  /\ UNCHANGED <<github, rows, requests>>

-----------------------------------------------------------------------------
(* People on GitHub.                                                       *)

MarkReady(n) ==
  /\ IsOpen(n) /\ pulls[n].draft
  /\ pulls' = [pulls EXCEPT ![n].draft = FALSE]
  /\ req' = [r \in Requesters |-> IF req[r].pull = n THEN [req[r] EXCEPT !.raced = TRUE] ELSE req[r]]
  /\ UNCHANGED <<base, branch, rows, pc, last, requests, faults, clean>>

MergePull(n) ==
  /\ IsOpen(n) /\ ~pulls[n].draft
  /\ pulls' = [pulls EXCEPT ![n].state = "merged"]
  /\ base' = [base EXCEPT ![pulls[n].slug] = branch[pulls[n].slug]]
  /\ UNCHANGED <<branch, rows, pc, req, last, requests, faults, clean>>

ClosePull(n) ==
  /\ IsOpen(n)
  /\ pulls' = [pulls EXCEPT ![n].state = "closed"]
  /\ UNCHANGED <<base, branch, rows, pc, req, last, requests, faults, clean>>

-----------------------------------------------------------------------------
Call(r) ==
  \/ FindPull(r) \/ NothingToPromote(r) \/ SomethingToPromote(r) \/ ResetBranch(r) \/ WriteFile(r)
  \/ Demote(r) \/ CreatePull(r)
  \/ FindRow(r) \/ InsertRow(r) \/ AppendSnapshot(r)
  \/ UpdateDeclarations(r) \/ UpdateChangeRequest(r) \/ AppendEvent(r)

People == \E n \in DOMAIN pulls : MarkReady(n) \/ MergePull(n) \/ ClosePull(n)

Next ==
  \/ \E r \in Requesters : Begin(r) \/ Retry(r) \/ Call(r) \/ MatchUnknown(r) \/ Fail(r)
  \/ People

Spec == Init /\ [][Next]_vars

\* A request that is under way goes on or fails, and a user who got an error tries again.
FairSpec ==
  /\ Spec
  /\ \A r \in Requesters : WF_vars(Call(r) \/ Fail(r)) /\ WF_vars(Retry(r))

-----------------------------------------------------------------------------
Labels == {"idle", "find", "match", "reset", "write", "lookup", "insert", "snapshot",
           "declare", "revise", "event"}

Trees == [Files -> Contents \cup {None}]

TypeOK ==
  /\ base \in [Slugs -> Trees] /\ branch \in [Slugs -> Trees]
  /\ \A n \in DOMAIN pulls :
       pulls[n] \in [slug : Slugs, state : {"open", "merged", "closed"}, draft : BOOLEAN]
  /\ \A i \in DOMAIN rows :
       /\ rows[i].pull \in DOMAIN pulls /\ rows[i].slug \in Slugs
       /\ {rows[i].declares, rows[i].revision} \cup rows[i].snapshots \subseteq Contents
       /\ \A j \in DOMAIN rows[i].events : rows[i].events[j] \in {"requested", "re_reviewed"}
  /\ pc \in [Requesters -> Labels]
  /\ \A r \in Requesters :
       /\ pc[r] # "idle" => req[r].content \in Contents /\ req[r].slug \in Slugs
       /\ req[r].pull \in {0} \cup DOMAIN pulls
  /\ last.content \in Contents \cup {None}
  /\ requests \in 0 .. MaxRequests /\ faults \in 0 .. MaxFaults
  /\ clean \in BOOLEAN

\* A Promotion is 1:1 with its Change Request (ADR-0008), also when two first requests of one
\* pull request race to store it; and only one of them is recorded as the request.
OnePromotionPerPull ==
  \A n \in DOMAIN pulls :
    /\ Cardinality(RowsOf(n)) <= 1
    /\ \A i \in RowsOf(n) : Cardinality({j \in DOMAIN rows[i].events : rows[i].events[j] = "requested"}) <= 1

\* After a request that ran alone, the pull request carries that content and nothing of an
\* earlier one, half-written, failed or mixed as it may have been, and the promotion says so
\* with its declarations, its revision pair and a snapshot.
ResubmissionReplaces ==
  Busy = {} /\ IsOpen(last.pull) =>
    /\ branch[pulls[last.pull].slug] = Tree(last.content)
    /\ \E i \in RowsOf(last.pull) :
         /\ rows[i].declares = last.content /\ rows[i].revision = last.content
         /\ last.content \in rows[i].snapshots

\* A pull request that a request has rewritten is a draft again, unless somebody marked it ready
\* while the request was under way.
ResubmissionIsDraft ==
  \A r \in Requesters :
    pc[r] \in {"lookup", "insert", "snapshot", "declare", "revise", "event"}
      /\ IsOpen(req[r].pull) /\ ~pulls[req[r].pull].draft => req[r].raced

\* The slug is the identity of the resource: pinned by the first promotion, whatever area and
\* title later requests declare (app_logic.prior_slug_for).
SlugIsPinned == \A m, n \in DOMAIN pulls : pulls[m].slug = pulls[n].slug

\* It is, as long as no request failed and none ran while another one did.
SlugIsPinnedInOrder == clean => SlugIsPinned

\* No pull request without a difference is opened (it would trigger no CI and no deploy).
NoEmptyPull ==
  [][\A n \in DOMAIN pulls' \ DOMAIN pulls :
       clean => branch'[pulls'[n].slug] # base'[pulls'[n].slug]]_vars

\* A request that stops between GitHub and the database leaves a pull request nobody tracks;
\* trying again stores its promotion (unless it went to another slug).
OrphanIsAdopted ==
  \A n \in 1 .. MaxRequests + MaxFaults :
    (IsOpen(n) /\ RowsOf(n) = {}) ~> (~IsOpen(n) \/ RowsOf(n) # {} \/ ~SlugIsPinned)

=============================================================================
