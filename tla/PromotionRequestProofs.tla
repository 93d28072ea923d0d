----------------------- MODULE PromotionRequestProofs ------------------------
(***************************************************************************)
(* What every promotion request keeps, for any number of requesters,       *)
(* contents, slugs, requests and faults: one promotion per pull request,   *)
(* a draft after every rewrite, the content of the last request that ran   *)
(* alone, and one slug and no empty pull request while nothing fails or    *)
(* overlaps.                                                               *)
(***************************************************************************)
EXTENDS PromotionRequest, FiniteSetTheorems, TLAPS

-----------------------------------------------------------------------------
(* The inductive invariant.                                                *)

Events == {"requested", "re_reviewed"}

PullRecords == [slug : Slugs, state : {"open", "merged", "closed"}, draft : BOOLEAN]

RowRecords == [pull : Nat, slug : Slugs, declares : Contents, revision : Contents,
               snapshots : SUBSET Contents, events : Seq(Events)]

Reqs == [content : Contents \cup {None}, slug : Slugs \cup {None}, pull : Nat, draft : BOOLEAN,
         todo : Seq(Files), event : Events \cup {None}, failed : BOOLEAN, alone : BOOLEAN, raced : BOOLEAN]

Shapes ==
  /\ pulls \in Seq(PullRecords)
  /\ rows \in Seq(RowRecords)
  /\ pc \in [Requesters -> Labels]
  /\ req \in [Requesters -> Reqs]
  /\ clean \in BOOLEAN

\* The calls that follow the pull request, and those that follow the row.
AfterPull == {"lookup", "insert", "snapshot", "declare", "revise", "event"}
AfterRow  == {"snapshot", "declare", "revise", "event"}

Stored(n) == \E i \in DOMAIN rows : rows[i].pull = n

\* A request knows its declarations, an existing pull request of its slug, and, once it has
\* a row, what to record there.
RequestIsSound(r) ==
  /\ pc[r] # "idle" => req[r].content \in Contents /\ req[r].slug \in Slugs
  /\ req[r].pull # 0 => req[r].pull \in DOMAIN pulls /\ pulls[req[r].pull].slug = req[r].slug
  /\ pc[r] \in AfterPull => req[r].pull # 0
  /\ pc[r] \notin AfterPull \cup {"write"} => req[r].pull = 0
  /\ pc[r] \in AfterRow => Stored(req[r].pull) /\ req[r].event \in Events
  /\ pc[r] \notin AfterRow => req[r].event = None

\* Draft when it was found, or made a draft since: it is one, or somebody marked it ready.
DraftOrRaced(r) ==
  (pc[r] \in AfterPull \/ req[r].draft) /\ req[r].pull # 0 /\ pulls[req[r].pull].state = "open"
    => pulls[req[r].pull].draft \/ req[r].raced

\* Whoever is about to record the request of a promotion is the only one, and it is not recorded.
FirstRequester(r) ==
  req[r].event = "requested" =>
    /\ \A i \in DOMAIN rows : rows[i].pull = req[r].pull =>
         \A j \in DOMAIN rows[i].events : rows[i].events[j] # "requested"
    /\ \A q \in Requesters \ {r} : req[q].event = "requested" => req[q].pull # req[r].pull

RowIsSound(i) ==
  /\ rows[i].pull \in DOMAIN pulls /\ pulls[rows[i].pull].slug = rows[i].slug
  /\ \A k \in DOMAIN rows : rows[k].pull = rows[i].pull => k = i
  /\ \A j, k \in DOMAIN rows[i].events :
       rows[i].events[j] = "requested" /\ rows[i].events[k] = "requested" => j = k

\* Nothing has failed or overlapped: one request at a time, and every pull request but the one
\* it is about to store has its row.
InOrder ==
  /\ \A r \in Requesters : ~req[r].failed
  /\ \A r, q \in Requesters : pc[r] # "idle" /\ pc[q] # "idle" => r = q
  /\ \A n \in DOMAIN pulls : Stored(n) \/ \E r \in Requesters : pc[r] \in {"lookup", "insert"} /\ req[r].pull = n
  /\ \A m, n \in DOMAIN pulls : pulls[m].slug = pulls[n].slug
  /\ \A r \in Requesters, n \in DOMAIN pulls : pc[r] # "idle" => pulls[n].slug = req[r].slug

RequestInv ==
  /\ Shapes
  /\ \A r \in Requesters : RequestIsSound(r) /\ DraftOrRaced(r) /\ FirstRequester(r)
  /\ \A i \in DOMAIN rows : RowIsSound(i)
  /\ clean => InOrder

LEMMA IdleIsARequest ==
  Idle \in Reqs /\ Idle.pull = 0 /\ Idle.event = None /\ Idle.failed = FALSE
BY DEF Idle, Reqs

LEMMA RequestInit == Init => RequestInv
<1> SUFFICES ASSUME Init PROVE RequestInv
  OBVIOUS
<1>1. Idle \in Reqs
  BY IdleIsARequest
<1>2. Shapes
  BY <1>1 DEF Init, Shapes, Labels
<1>3. ASSUME NEW r \in Requesters PROVE RequestIsSound(r) /\ DraftOrRaced(r) /\ FirstRequester(r)
  BY DEF Init, RequestIsSound, DraftOrRaced, FirstRequester, Idle, AfterPull, AfterRow, None
<1>4. DOMAIN rows = {} /\ DOMAIN pulls = {}
  BY DEF Init
<1>5. InOrder
  BY <1>4 DEF Init, InOrder, Idle
<1> QED BY <1>2, <1>3, <1>4, <1>5 DEF RequestInv

-----------------------------------------------------------------------------
(* The steps of a request.                                                 *)

\* A step that changes neither pull requests nor rows: the request becomes q and goes to label.
LEMMA RequestMoves ==
  ASSUME RequestInv, NEW r \in Requesters, NEW q \in Reqs, NEW label \in Labels,
         pc' = [pc EXCEPT ![r] = label], req' = [req EXCEPT ![r] = q], UNCHANGED <<pulls, rows>>,
         clean' \in BOOLEAN, clean' => clean /\ ~q.failed,
         RequestIsSound(r)', DraftOrRaced(r)',
         q.event \in {req[r].event, None, "re_reviewed"}, q.event = req[r].event => q.pull = req[r].pull \/ q.event = None,
         label # "idle" => pc[r] # "idle" /\ q.slug = req[r].slug,
         clean' /\ pc[r] \in {"lookup", "insert"} =>
           Stored(req[r].pull) \/ (label \in {"lookup", "insert"} /\ q.pull = req[r].pull)
  PROVE  RequestInv'
<1>1. /\ req'[r] = q /\ pc'[r] = label
      /\ \A s \in Requesters \ {r} : req'[s] = req[s] /\ pc'[s] = pc[s]
  BY DEF RequestInv, Shapes
<1>2. Shapes'
  BY DEF RequestInv, Shapes
<1>3. ASSUME NEW s \in Requesters PROVE RequestIsSound(s)' /\ DraftOrRaced(s)'
  <2>1. CASE s = r
    BY <2>1
  <2>2. CASE s # r
    BY <1>1, <2>2 DEF RequestInv, RequestIsSound, DraftOrRaced, Stored
  <2> QED BY <2>1, <2>2
<1>4. q.event = "requested" => req[r].event = "requested" /\ q.pull = req[r].pull
  BY DEF None
<1>5. ASSUME NEW s \in Requesters PROVE FirstRequester(s)'
  <2>1. FirstRequester(s) /\ FirstRequester(r)
    BY DEF RequestInv
  <2>2. \A t \in Requesters : req'[t].event = "requested" => req[t].event = "requested" /\ req'[t].pull = req[t].pull
    BY <1>1, <1>4
  <2> QED BY <2>1, <2>2 DEF FirstRequester
<1>6. \A i \in DOMAIN rows' : RowIsSound(i)'
  BY DEF RequestInv, RowIsSound
<1>7. ASSUME clean' PROVE InOrder'
  <2>1. InOrder /\ ~q.failed
    BY <1>7 DEF RequestInv
  <2>2. \A s \in Requesters : ~req'[s].failed
    BY <1>1, <2>1 DEF InOrder
  <2>3. \A s, t \in Requesters : pc'[s] # "idle" /\ pc'[t] # "idle" => s = t
    BY <1>1, <2>1 DEF InOrder
  <2>4. ASSUME NEW n \in DOMAIN pulls
        PROVE  Stored(n) \/ \E s \in Requesters : pc'[s] \in {"lookup", "insert"} /\ req'[s].pull = n
    BY <1>1, <1>7, <2>1 DEF InOrder
  <2>5. \A s \in Requesters, n \in DOMAIN pulls : pc'[s] # "idle" => pulls[n].slug = req'[s].slug
    BY <1>1, <2>1 DEF InOrder
  <2> QED BY <2>1, <2>2, <2>3, <2>4, <2>5 DEF InOrder, Stored
<1> QED BY <1>2, <1>3, <1>5, <1>6, <1>7 DEF RequestInv

\* A step that only goes on to the next call.
LEMMA RequestWaits ==
  ASSUME RequestInv, NEW r \in Requesters, NEW label \in Labels,
         pc' = [pc EXCEPT ![r] = label], UNCHANGED <<req, pulls, rows>>,
         clean' \in BOOLEAN, clean' => clean,
         RequestIsSound(r)', DraftOrRaced(r)', pc[r] # "idle",
         pc[r] \in {"lookup", "insert"} => label = "insert"
  PROVE  RequestInv'
<1>1. req[r] \in Reqs /\ req' = [req EXCEPT ![r] = req[r]]
  BY DEF RequestInv, Shapes
<1>2. clean' => ~req[r].failed
  BY DEF RequestInv, InOrder
<1> QED BY <1>1, <1>2, RequestMoves

LEMMA StartStep ==
  ASSUME RequestInv, NEW r \in Requesters, Start(r)
  PROVE  RequestInv'
<1>0. PICK c \in Contents, declared \in Slugs : \E slug \in PriorSlug(declared) :
        req' = [q \in Requesters |->
                  IF q = r THEN [Idle EXCEPT !.content = c, !.slug = slug, !.alone = (Busy = {})]
                           ELSE [req[q] EXCEPT !.alone = FALSE]]
  BY DEF Start
<1>1. PICK slug \in PriorSlug(declared) :
        req' = [q \in Requesters |->
                  IF q = r THEN [Idle EXCEPT !.content = c, !.slug = slug, !.alone = (Busy = {})]
                           ELSE [req[q] EXCEPT !.alone = FALSE]]
  BY <1>0
<1>2. /\ pc[r] = "idle" /\ pc' = [pc EXCEPT ![r] = "find"] /\ UNCHANGED <<pulls, rows>>
      /\ clean' = (clean /\ Busy = {})
  BY DEF Start, Goto, github
<1>3. slug \in Slugs
  <2>1. \A i \in DOMAIN rows : rows[i] \in RowRecords
    BY DEF RequestInv, Shapes
  <2>2. \A i \in DOMAIN rows : rows[i].slug \in Slugs
    BY <2>1 DEF RowRecords
  <2> QED BY <2>2 DEF PriorSlug
<1> DEFINE alone == Busy = {}
           q == [Idle EXCEPT !.content = c, !.slug = slug, !.alone = alone]
<1>4. alone \in BOOLEAN /\ req'[r] = q
  BY <1>1
<1> HIDE DEF alone
<1>5. /\ q \in Reqs /\ q.content = c /\ q.slug = slug /\ q.pull = 0 /\ q.event = None /\ q.failed = FALSE
  BY <1>3, <1>4, IdleIsARequest DEF Reqs
<1> HIDE DEF q
<1>6. ASSUME NEW s \in Requesters \ {r}
      PROVE  /\ pc'[s] = pc[s] /\ req'[s] \in Reqs /\ req'[s].content = req[s].content
             /\ req'[s].slug = req[s].slug /\ req'[s].pull = req[s].pull /\ req'[s].draft = req[s].draft
             /\ req'[s].event = req[s].event /\ req'[s].failed = req[s].failed /\ req'[s].raced = req[s].raced
  BY <1>1, <1>2 DEF RequestInv, Shapes, Reqs
<1>7. pc'[r] = "find" /\ pc' \in [Requesters -> Labels] /\ clean' \in BOOLEAN
  BY <1>2 DEF RequestInv, Shapes, Labels
<1>8. Shapes'
  <2>1. \A s \in Requesters : req'[s] \in Reqs
    BY <1>4, <1>5, <1>6
  <2>2. req' = [s \in Requesters |-> req'[s]]
    BY <1>1
  <2>3. req' \in [Requesters -> Reqs]
    BY <2>1, <2>2
  <2> QED BY <1>2, <1>7, <2>3 DEF RequestInv, Shapes
<1>9. ASSUME NEW s \in Requesters PROVE RequestIsSound(s)' /\ DraftOrRaced(s)' /\ FirstRequester(s)'
  <2>1. CASE s = r
    BY <1>3, <1>4, <1>5, <1>7, <2>1 DEF RequestIsSound, DraftOrRaced, FirstRequester, AfterPull, AfterRow, None
  <2>2. CASE s # r
    <3>1. RequestIsSound(s)' /\ DraftOrRaced(s)'
      BY <1>2, <1>6, <2>2 DEF RequestInv, RequestIsSound, DraftOrRaced, Stored
    <3>2. FirstRequester(s)'
      BY <1>2, <1>4, <1>5, <1>6, <2>2 DEF RequestInv, FirstRequester, None
    <3> QED BY <3>1, <3>2
  <2> QED BY <2>1, <2>2
<1>10. \A i \in DOMAIN rows' : RowIsSound(i)'
  BY <1>2 DEF RequestInv, RowIsSound
<1>11. ASSUME clean' PROVE InOrder'
  <2>1. InOrder /\ \A s \in Requesters : pc[s] = "idle"
    BY <1>2, <1>11 DEF RequestInv, Busy
  <2>2. \A n \in DOMAIN pulls : Stored(n)
    BY <2>1 DEF InOrder
  <2>3. ASSUME NEW n \in DOMAIN pulls PROVE pulls[n].slug = slug
    <3>1. rows # <<>>
      BY <2>2, <2>3 DEF Stored
    <3>2. PICK i \in DOMAIN rows : slug = rows[i].slug
      BY <3>1 DEF PriorSlug
    <3>3. rows[i].pull \in DOMAIN pulls /\ pulls[rows[i].pull].slug = slug
      BY <3>2 DEF RequestInv, RowIsSound
    <3> QED BY <2>1, <3>3 DEF InOrder
  <2>4. \A s \in Requesters : ~req'[s].failed
    BY <1>4, <1>5, <1>6, <2>1 DEF InOrder
  <2>5. \A s \in Requesters \ {r} : pc'[s] = "idle"
    BY <1>6, <2>1
  <2>6. \A n \in DOMAIN pulls' : Stored(n)'
    BY <1>2, <2>2 DEF Stored
  <2>7. \A m, n \in DOMAIN pulls' : pulls'[m].slug = pulls'[n].slug
    BY <1>2, <2>3
  <2>8. \A s \in Requesters, n \in DOMAIN pulls' : pc'[s] # "idle" => pulls'[n].slug = req'[s].slug
    BY <1>2, <1>4, <1>5, <2>3, <2>5
  <2> QED BY <2>4, <2>5, <2>6, <2>7, <2>8 DEF InOrder
<1> QED BY <1>8, <1>9, <1>10, <1>11 DEF RequestInv

LEMMA WritesAreFiles ==
  ASSUME NEW c
  PROVE  Writes(c) \in Seq(Files)
<1>1. /\ <<"artifact", "mapping", "manifest">> \in Seq({"artifact", "mapping", "manifest"})
      /\ <<"artifact", "manifest", "mapping">> \in Seq({"artifact", "mapping", "manifest"})
      /\ <<"artifact", "manifest">> \in Seq({"artifact", "mapping", "manifest"})
  OBVIOUS
<1> QED BY <1>1 DEF Writes, Files

LEMMA FindPullStep ==
  ASSUME RequestInv, NEW r \in Requesters, FindPull(r)
  PROVE  RequestInv'
<1>1. pc[r] = "find" /\ UNCHANGED <<pulls, rows, clean>>
  BY DEF FindPull, github
<1>2. RequestIsSound(r) /\ req[r] \in Reqs /\ clean \in BOOLEAN /\ (clean => ~req[r].failed)
  BY DEF RequestInv, Shapes, InOrder
<1>3. CASE pc' = [pc EXCEPT ![r] = "match"] /\ UNCHANGED req
  <2>1. pc'[r] = "match"
    BY <1>3 DEF RequestInv, Shapes
  <2>2. RequestIsSound(r)' /\ DraftOrRaced(r)'
    BY <1>1, <1>2, <1>3, <2>1 DEF RequestIsSound, DraftOrRaced, AfterPull, AfterRow, Stored
  <2> QED BY <1>1, <1>2, <1>3, <2>2, RequestWaits DEF Labels
<1>4. ASSUME NEW n \in OpenPulls(req[r].slug), pc' = [pc EXCEPT ![r] = "write"],
             req' = [req EXCEPT ![r].pull = n, ![r].draft = pulls[n].draft, ![r].todo = Writes(req[r].content)]
      PROVE  RequestInv'
  <2> DEFINE todo == Writes(req[r].content)
             q == [req[r] EXCEPT !.pull = n, !.draft = pulls[n].draft, !.todo = todo]
  <2>1. req' = [req EXCEPT ![r] = q]
    BY <1>4
  <2>2. todo \in Seq(Files)
    BY WritesAreFiles
  <2> HIDE DEF todo
  <2>3. n \in DOMAIN pulls /\ pulls[n] \in PullRecords /\ pulls[n].slug = req[r].slug /\ n \in Nat /\ n # 0
    BY DEF OpenPulls, RequestInv, Shapes
  <2>4. /\ q \in Reqs /\ q.pull = n /\ q.draft = pulls[n].draft /\ q.event = req[r].event
        /\ q.slug = req[r].slug /\ q.failed = req[r].failed /\ q.content = req[r].content
    BY <1>2, <2>2, <2>3 DEF Reqs, PullRecords
  <2> HIDE DEF q
  <2>5. req'[r] = q /\ pc'[r] = "write"
    BY <1>4, <2>1 DEF RequestInv, Shapes
  <2>6. RequestIsSound(r)' /\ DraftOrRaced(r)'
    BY <1>1, <1>2, <2>3, <2>4, <2>5 DEF RequestIsSound, DraftOrRaced, AfterPull, AfterRow
  <2>7. q.event = None
    BY <1>1, <1>2, <2>4 DEF RequestIsSound, AfterRow
  <2> QED BY <1>1, <1>2, <1>4, <2>1, <2>4, <2>6, <2>7, RequestMoves DEF Labels
<1> QED BY <1>3, <1>4 DEF FindPull, Goto

\* The no-op guard, the branch and its commits.
LEMMA WritingStep ==
  ASSUME RequestInv, NEW r \in Requesters,
         SomethingToPromote(r) \/ MatchUnknown(r) \/ ResetBranch(r) \/ WriteFile(r)
  PROVE  RequestInv'
<1>1. RequestIsSound(r) /\ DraftOrRaced(r) /\ req[r] \in Reqs /\ clean \in BOOLEAN /\ (clean => ~req[r].failed)
  BY DEF RequestInv, Shapes, InOrder
<1>2. ASSUME NEW label \in {"reset", "write"}, NEW todo \in Seq(Files),
             pc' = [pc EXCEPT ![r] = label], req' = [req EXCEPT ![r].todo = todo],
             pc[r] \in {"match", "reset"} \/ (pc[r] = "write" /\ label = "write"),
             UNCHANGED <<pulls, rows>>, clean' \in BOOLEAN, clean' => clean
      PROVE  RequestInv'
  <2> DEFINE q == [req[r] EXCEPT !.todo = todo]
  <2>1. req' = [req EXCEPT ![r] = q]
    BY <1>2
  <2>2. /\ q \in Reqs /\ q.pull = req[r].pull /\ q.draft = req[r].draft /\ q.event = req[r].event
        /\ q.slug = req[r].slug /\ q.failed = req[r].failed /\ q.content = req[r].content
        /\ q.raced = req[r].raced
    BY <1>1 DEF Reqs
  <2> HIDE DEF q
  <2>3. req'[r] = q /\ pc'[r] = label
    BY <1>2, <2>1 DEF RequestInv, Shapes
  <2>4. RequestIsSound(r)' /\ DraftOrRaced(r)'
    BY <1>1, <1>2, <2>2, <2>3 DEF RequestIsSound, DraftOrRaced, AfterPull, AfterRow
  <2> QED BY <1>1, <1>2, <2>1, <2>2, <2>4, RequestMoves DEF Labels
<1>3. Writes(req[r].content) \in Seq(Files)
  BY WritesAreFiles
<1>4. CASE SomethingToPromote(r)
  BY <1>1, <1>2, <1>3, <1>4 DEF SomethingToPromote, Goto, github
<1>5. CASE MatchUnknown(r)
  BY <1>1, <1>2, <1>3, <1>5 DEF MatchUnknown, Goto, github
<1>6. CASE ResetBranch(r)
  <2>1. req[r].todo \in Seq(Files) /\ req' = [req EXCEPT ![r].todo = req[r].todo]
    BY <1>1, <1>6 DEF ResetBranch, RequestInv, Shapes, Reqs
  <2> QED BY <1>1, <1>2, <1>6, <2>1 DEF ResetBranch, Goto
<1>7. CASE WriteFile(r)
  <2>1. Tail(req[r].todo) \in Seq(Files) /\ req' = [req EXCEPT ![r].todo = Tail(req[r].todo)]
    BY <1>1, <1>7 DEF WriteFile, Reqs
  <2>2. pc[r] = "write" /\ pc' = [pc EXCEPT ![r] = "write"] /\ UNCHANGED <<pulls, rows, clean>>
    BY <1>7 DEF WriteFile, RequestInv, Shapes
  <2> QED BY <1>1, <1>2, <2>1, <2>2
<1> QED BY <1>4, <1>5, <1>6, <1>7

\* A request that ends without having stored anything now.
LEMMA EndStep ==
  ASSUME RequestInv, NEW r \in Requesters, NothingToPromote(r) \/ Fail(r)
  PROVE  RequestInv'
<1>1. PICK failed \in BOOLEAN : req' = [req EXCEPT ![r] = [Idle EXCEPT !.failed = failed]]
  <2>1. Idle = [Idle EXCEPT !.failed = FALSE]
    BY IdleIsARequest DEF Reqs
  <2>2. CASE NothingToPromote(r)
    BY <2>1, <2>2 DEF NothingToPromote
  <2>3. CASE Fail(r)
    BY <2>3 DEF Fail
  <2> QED BY <2>2, <2>3
<1> DEFINE q == [Idle EXCEPT !.failed = failed]
<1>2. q \in Reqs /\ q.pull = 0 /\ q.event = None
  BY IdleIsARequest DEF Reqs
<1> HIDE DEF q
<1>3. /\ pc' = [pc EXCEPT ![r] = "idle"] /\ UNCHANGED <<pulls, rows>>
      /\ clean' \in BOOLEAN /\ (clean' => clean)
  <2>1. CASE NothingToPromote(r)
    BY <2>1 DEF NothingToPromote, Goto, github, RequestInv, Shapes
  <2>2. CASE Fail(r)
    BY <2>2 DEF Fail, Goto, github
  <2> QED BY <2>1, <2>2
<1>4. clean' => pc[r] = "match" /\ ~q.failed
  <2>1. CASE NothingToPromote(r)
    <3>1. req'[r] = Idle /\ req'[r] = q
      BY <1>1, <2>1 DEF NothingToPromote, RequestInv, Shapes, q
    <3> QED BY <2>1, <3>1 DEF NothingToPromote, Idle
  <2>2. CASE Fail(r)
    BY <2>2 DEF Fail
  <2> QED BY <2>1, <2>2
<1>5. req' = [req EXCEPT ![r] = q] /\ req'[r] = q /\ pc'[r] = "idle"
  BY <1>1, <1>3 DEF RequestInv, Shapes, q
<1>6. RequestIsSound(r)' /\ DraftOrRaced(r)'
  BY <1>2, <1>5 DEF RequestIsSound, DraftOrRaced, AfterPull, AfterRow
<1> QED BY <1>2, <1>3, <1>4, <1>5, <1>6, RequestMoves DEF Labels, None

-----------------------------------------------------------------------------
(* The pull requests.                                                      *)

\* A step that changes the state or the draft mark of pull requests; at most a request goes on
\* to its first call after them.
LEMMA PullsChange ==
  ASSUME RequestInv, pulls' \in Seq(PullRecords), DOMAIN pulls' = DOMAIN pulls,
         \A n \in DOMAIN pulls : pulls'[n].slug = pulls[n].slug,
         UNCHANGED <<rows, clean>>,
         pc' \in [Requesters -> Labels], req' \in [Requesters -> Reqs],
         \A s \in Requesters :
           /\ pc'[s] = pc[s] \/ (pc[s] = "write" /\ pc'[s] = "lookup" /\ req[s].pull # 0)
           /\ req'[s].content = req[s].content /\ req'[s].slug = req[s].slug /\ req'[s].pull = req[s].pull
           /\ req'[s].event = req[s].event /\ req'[s].failed = req[s].failed
           /\ DraftOrRaced(s)'
  PROVE  RequestInv'
<1>1. Shapes'
  BY DEF RequestInv, Shapes
<1>2. ASSUME NEW s \in Requesters PROVE RequestIsSound(s)' /\ FirstRequester(s)'
  <2>1. RequestIsSound(s)'
    BY DEF RequestInv, RequestIsSound, Stored, AfterPull, AfterRow
  <2>2. FirstRequester(s)'
    BY DEF RequestInv, FirstRequester
  <2> QED BY <2>1, <2>2
<1>3. \A i \in DOMAIN rows' : RowIsSound(i)'
  BY DEF RequestInv, RowIsSound
<1>4. ASSUME clean' PROVE InOrder'
  <2>1. InOrder
    BY <1>4 DEF RequestInv
  <2>2. \A n \in DOMAIN pulls : Stored(n) <=> Stored(n)'
    BY DEF Stored
  <2> QED BY <2>1, <2>2 DEF InOrder
<1> QED BY <1>1, <1>2, <1>3, <1>4 DEF RequestInv

\* A pull request is replaced by one of the same branch.
LEMMA PullReplaced ==
  ASSUME pulls \in Seq(PullRecords), NEW n \in DOMAIN pulls, NEW x \in PullRecords,
         x.slug = pulls[n].slug, pulls' = [pulls EXCEPT ![n] = x]
  PROVE  /\ pulls' \in Seq(PullRecords) /\ DOMAIN pulls' = DOMAIN pulls /\ pulls'[n] = x
         /\ \A m \in DOMAIN pulls : pulls'[m].slug = pulls[m].slug /\ (m # n => pulls'[m] = pulls[m])
<1>1. DOMAIN pulls' = DOMAIN pulls /\ pulls'[n] = x /\ \A m \in DOMAIN pulls : m # n => pulls'[m] = pulls[m]
  OBVIOUS
<1>2. pulls' \in Seq(PullRecords)
  OBVIOUS
<1> QED BY <1>1, <1>2

LEMMA DemoteStep ==
  ASSUME RequestInv, NEW r \in Requesters, Demote(r)
  PROVE  RequestInv'
<1> DEFINE n == req[r].pull
<1>1. /\ pc[r] = "write" /\ n # 0 /\ pc' = [pc EXCEPT ![r] = "lookup"] /\ UNCHANGED <<req, rows, clean>>
      /\ pulls' = IF req[r].draft THEN pulls ELSE [pulls EXCEPT ![n].draft = TRUE]
  BY DEF Demote, Goto
<1>2. n \in DOMAIN pulls /\ pulls \in Seq(PullRecords) /\ req[r] \in Reqs
  BY <1>1 DEF RequestInv, RequestIsSound, Shapes
<1> HIDE DEF n
<1>3. /\ pulls' \in Seq(PullRecords) /\ DOMAIN pulls' = DOMAIN pulls
      /\ \A m \in DOMAIN pulls : /\ pulls'[m].slug = pulls[m].slug /\ pulls'[m].state = pulls[m].state
                                 /\ pulls[m].draft => pulls'[m].draft
      /\ ~req[r].draft => pulls'[n].draft
  <2>1. CASE req[r].draft
    BY <1>1, <1>2, <2>1
  <2>2. CASE ~req[r].draft
    <3>1. pulls' = [pulls EXCEPT ![n] = [pulls[n] EXCEPT !.draft = TRUE]]
      BY <1>1, <2>2
    <3> DEFINE x == [pulls[n] EXCEPT !.draft = TRUE]
    <3>4. pulls[n] \in PullRecords
      BY <1>2
    <3>2. x \in PullRecords /\ x.slug = pulls[n].slug /\ x.state = pulls[n].state /\ x.draft = TRUE
      BY <3>4 DEF PullRecords
    <3> HIDE DEF x
    <3>3. pulls' = [pulls EXCEPT ![n] = x]
      BY <3>1 DEF x
    <3> QED BY <1>2, <3>2, <3>3, PullReplaced
  <2> QED BY <2>1, <2>2
<1>4. /\ pc' \in [Requesters -> Labels]
      /\ \A s \in Requesters : pc'[s] = pc[s] \/ (s = r /\ pc'[s] = "lookup")
  BY <1>1 DEF RequestInv, Shapes, Labels
<1>5. ASSUME NEW s \in Requesters PROVE DraftOrRaced(s)'
  <2>1. DraftOrRaced(s) /\ RequestIsSound(s)
    BY DEF RequestInv
  <2>2. CASE s = r
    BY <1>1, <1>2, <1>3, <2>1, <2>2 DEF DraftOrRaced, n
  <2>3. CASE s # r
    BY <1>1, <1>3, <1>4, <2>1, <2>3 DEF DraftOrRaced, RequestIsSound
  <2> QED BY <2>2, <2>3
<1>6. req' \in [Requesters -> Reqs]
  BY <1>1 DEF RequestInv, Shapes
<1> QED BY <1>1, <1>3, <1>4, <1>5, <1>6, PullsChange DEF n

LEMMA PeopleStep ==
  ASSUME RequestInv, NEW n \in DOMAIN pulls, MarkReady(n) \/ MergePull(n) \/ ClosePull(n)
  PROVE  RequestInv'
<1>1. pulls \in Seq(PullRecords) /\ pc \in [Requesters -> Labels] /\ req \in [Requesters -> Reqs]
  BY DEF RequestInv, Shapes
<1>2. UNCHANGED <<rows, clean, pc>>
  BY DEF MarkReady, MergePull, ClosePull
<1>3. CASE MarkReady(n)
  <2> DEFINE x == [pulls[n] EXCEPT !.draft = FALSE]
  <2>1. /\ pulls' = [pulls EXCEPT ![n] = x]
        /\ req' = [s \in Requesters |-> IF req[s].pull = n THEN [req[s] EXCEPT !.raced = TRUE] ELSE req[s]]
    BY <1>3 DEF MarkReady
  <2>2. x \in PullRecords /\ x.slug = pulls[n].slug
    <3>1. pulls[n] \in PullRecords
      BY <1>1
    <3> QED BY <3>1 DEF PullRecords
  <2> HIDE DEF x
  <2>3. /\ pulls' \in Seq(PullRecords) /\ DOMAIN pulls' = DOMAIN pulls
        /\ \A m \in DOMAIN pulls : /\ pulls'[m].slug = pulls[m].slug
                                   /\ m # n => pulls'[m] = pulls[m]
    BY <1>1, <2>1, <2>2, PullReplaced
  <2>4. ASSUME NEW s \in Requesters
        PROVE  /\ req'[s] \in Reqs
               /\ req'[s].content = req[s].content /\ req'[s].slug = req[s].slug /\ req'[s].pull = req[s].pull
               /\ req'[s].event = req[s].event /\ req'[s].failed = req[s].failed /\ req'[s].draft = req[s].draft
               /\ req[s].raced => req'[s].raced
               /\ req[s].pull = n => req'[s].raced
    <3>1. req[s] \in Reqs
      BY <1>1
    <3>2. CASE req[s].pull = n
      BY <2>1, <3>1, <3>2 DEF Reqs
    <3>3. CASE req[s].pull # n
      BY <2>1, <3>1, <3>3
    <3> QED BY <3>2, <3>3
  <2>5. req' \in [Requesters -> Reqs]
    BY <2>1, <2>4
  <2>6. ASSUME NEW s \in Requesters PROVE DraftOrRaced(s)'
    <3>1. DraftOrRaced(s) /\ RequestIsSound(s)
      BY DEF RequestInv
    <3>2. CASE req[s].pull = n
      BY <2>4, <3>2 DEF DraftOrRaced
    <3>3. CASE req[s].pull # n
      BY <1>2, <2>3, <2>4, <3>1, <3>3 DEF DraftOrRaced, RequestIsSound
    <3> QED BY <3>2, <3>3
  <2> QED BY <1>1, <1>2, <2>3, <2>4, <2>5, <2>6, PullsChange
<1>4. CASE MergePull(n) \/ ClosePull(n)
  <2>1. PICK state \in {"merged", "closed"} : pulls' = [pulls EXCEPT ![n] = [pulls[n] EXCEPT !.state = state]]
    BY <1>4 DEF MergePull, ClosePull
  <2> DEFINE x == [pulls[n] EXCEPT !.state = state]
  <2>2. UNCHANGED req
    BY <1>4 DEF MergePull, ClosePull
  <2>3. x \in PullRecords /\ x.slug = pulls[n].slug /\ x.state # "open"
    <3>1. pulls[n] \in PullRecords
      BY <1>1
    <3> QED BY <3>1 DEF PullRecords
  <2>6. pulls' = [pulls EXCEPT ![n] = x]
    BY <2>1
  <2> HIDE DEF x
  <2>4. /\ pulls' \in Seq(PullRecords) /\ DOMAIN pulls' = DOMAIN pulls
        /\ \A m \in DOMAIN pulls : /\ pulls'[m].slug = pulls[m].slug
                                   /\ pulls'[m].state = "open" => pulls'[m] = pulls[m]
    BY <1>1, <2>3, <2>6, PullReplaced
  <2>5. ASSUME NEW s \in Requesters PROVE DraftOrRaced(s)'
    BY <1>2, <2>2, <2>4 DEF RequestInv, RequestIsSound, DraftOrRaced
  <2> QED BY <1>1, <1>2, <2>2, <2>4, <2>5, PullsChange
<1> QED BY <1>3, <1>4

LEMMA CreatePullStep ==
  ASSUME RequestInv, NEW r \in Requesters, CreatePull(r)
  PROVE  RequestInv'
<1> DEFINE n == Len(pulls) + 1
           q == [req[r] EXCEPT !.pull = n]
           pull == [slug |-> req[r].slug, state |-> "open", draft |-> TRUE]
<1>1. /\ pc[r] = "write" /\ req[r].pull = 0 /\ pc' = [pc EXCEPT ![r] = "lookup"]
      /\ pulls' = Append(pulls, pull) /\ req' = [req EXCEPT ![r] = q] /\ UNCHANGED <<rows, clean>>
  BY DEF CreatePull, Goto
<1>2. /\ pulls \in Seq(PullRecords) /\ req[r] \in Reqs /\ req[r].slug \in Slugs
      /\ RequestIsSound(r) /\ req[r].event = None
  BY <1>1 DEF RequestInv, Shapes, RequestIsSound, AfterRow
<1>3. pull \in PullRecords /\ pull.slug = req[r].slug /\ pull.draft = TRUE
  BY <1>2 DEF PullRecords
<1> HIDE DEF pull
<1>4. /\ pulls' \in Seq(PullRecords) /\ n \in Nat /\ n # 0 /\ n \notin DOMAIN pulls
      /\ DOMAIN pulls' = DOMAIN pulls \cup {n} /\ pulls'[n] = pull
      /\ \A m \in DOMAIN pulls : pulls'[m] = pulls[m]
  BY <1>1, <1>2, <1>3
<1> HIDE DEF n
<1>5. /\ q \in Reqs /\ q.pull = n /\ q.slug = req[r].slug /\ q.content = req[r].content
      /\ q.event = req[r].event /\ q.failed = req[r].failed
  BY <1>2, <1>4 DEF Reqs
<1> HIDE DEF q
<1>6. /\ req'[r] = q /\ pc'[r] = "lookup"
      /\ \A s \in Requesters \ {r} : req'[s] = req[s] /\ pc'[s] = pc[s]
  BY <1>1 DEF RequestInv, Shapes
<1>7. Shapes'
  BY <1>1, <1>4, <1>5 DEF RequestInv, Shapes, Labels
<1>8. ASSUME NEW s \in Requesters PROVE RequestIsSound(s)' /\ DraftOrRaced(s)' /\ FirstRequester(s)'
  <2>1. CASE s = r
    <3>1. RequestIsSound(r)'
      BY <1>1, <1>2, <1>3, <1>4, <1>5, <1>6 DEF RequestIsSound, AfterPull, AfterRow
    <3>2. pulls'[req'[r].pull].draft
      BY <1>3, <1>4, <1>5, <1>6
    <3>3. DraftOrRaced(r)'
      BY <3>2 DEF DraftOrRaced
    <3>4. FirstRequester(r)'
      BY <1>2, <1>5, <1>6 DEF FirstRequester, None
    <3> QED BY <2>1, <3>1, <3>3, <3>4
  <2>2. CASE s # r
    <3>1. RequestIsSound(s) /\ DraftOrRaced(s) /\ FirstRequester(s)
      BY DEF RequestInv
    <3>2. RequestIsSound(s)' /\ DraftOrRaced(s)'
      BY <1>1, <1>4, <1>6, <2>2, <3>1 DEF RequestIsSound, DraftOrRaced, Stored
    <3>3. FirstRequester(s)'
      BY <1>1, <1>2, <1>5, <1>6, <2>2, <3>1 DEF FirstRequester, None
    <3> QED BY <3>2, <3>3
  <2> QED BY <2>1, <2>2
<1>9. \A i \in DOMAIN rows' : RowIsSound(i)'
  BY <1>1, <1>4 DEF RequestInv, RowIsSound
<1>10. ASSUME clean' PROVE InOrder'
  <2>1. InOrder
    BY <1>1, <1>10 DEF RequestInv
  <2>2. \A s \in Requesters \ {r} : pc'[s] = "idle"
    BY <1>1, <1>6, <2>1 DEF InOrder
  <2>3. \A m \in DOMAIN pulls' : pulls'[m].slug = req[r].slug
    BY <1>1, <1>3, <1>4, <2>1 DEF InOrder
  <2>4. ASSUME NEW m \in DOMAIN pulls'
        PROVE  Stored(m)' \/ \E s \in Requesters : pc'[s] \in {"lookup", "insert"} /\ req'[s].pull = m
    <3>1. CASE m = n
      BY <1>5, <1>6, <3>1
    <3>2. CASE m \in DOMAIN pulls
      <4>1. Stored(m)
        BY <1>1, <2>1, <3>2 DEF InOrder
      <4> QED BY <1>1, <4>1 DEF Stored
    <3> QED BY <1>4, <3>1, <3>2
  <2>5. \A s \in Requesters : ~req'[s].failed
    BY <1>5, <1>6, <2>1 DEF InOrder
  <2>6. \A s, t \in Requesters : pc'[s] # "idle" /\ pc'[t] # "idle" => s = t
    BY <2>2
  <2>7. \A s \in Requesters, m \in DOMAIN pulls' : pc'[s] # "idle" => pulls'[m].slug = req'[s].slug
    BY <1>5, <1>6, <2>2, <2>3
  <2>8. \A l, m \in DOMAIN pulls' : pulls'[l].slug = pulls'[m].slug
    BY <2>3
  <2> QED BY <2>4, <2>5, <2>6, <2>7, <2>8 DEF InOrder
<1> QED BY <1>7, <1>8, <1>9, <1>10 DEF RequestInv

-----------------------------------------------------------------------------
(* The rows.                                                               *)

\* The request's rows are rewritten in place: no other changes, none comes or goes.
LEMMA RowsRewritten ==
  ASSUME rows \in Seq(RowRecords), NEW r \in Requesters, NEW row, UpdateRow(r, row),
         \A i \in DOMAIN rows : row[i] \in RowRecords /\ row[i].pull = rows[i].pull /\ row[i].slug = rows[i].slug
  PROVE  /\ rows' \in Seq(RowRecords) /\ DOMAIN rows' = DOMAIN rows
         /\ \A i \in DOMAIN rows : /\ rows'[i].pull = rows[i].pull /\ rows'[i].slug = rows[i].slug
                                   /\ rows'[i] = IF rows[i].pull = req[r].pull THEN row[i] ELSE rows[i]
<1>1. DOMAIN rows' = DOMAIN rows
  BY DEF UpdateRow
<1>2. \A i \in DOMAIN rows : rows'[i] = IF rows[i].pull = req[r].pull THEN row[i] ELSE rows[i]
  BY DEF UpdateRow
<1>3. \A i \in DOMAIN rows : rows[i] \in RowRecords
  OBVIOUS
<1>4. \A i \in DOMAIN rows : rows'[i] \in RowRecords
  BY <1>2, <1>3
<1>5. DOMAIN rows = 1..Len(rows) /\ Len(rows) \in Nat
  OBVIOUS
<1>6. rows' = [i \in 1..Len(rows) |-> rows'[i]]
  BY <1>5 DEF UpdateRow
<1>7. rows' \in Seq(RowRecords)
  BY <1>4, <1>5, <1>6
<1> QED BY <1>1, <1>2, <1>7

\* A snapshot, the declarations or the revision pair is stored.
LEMMA RewriteStep ==
  ASSUME RequestInv, NEW r \in Requesters,
         AppendSnapshot(r) \/ UpdateDeclarations(r) \/ UpdateChangeRequest(r)
  PROVE  RequestInv'
<1>1. /\ pc[r] \in {"snapshot", "declare", "revise"} /\ UNCHANGED <<pulls, req, clean>>
      /\ pc' = [pc EXCEPT ![r] = "event"] \/ pc' = [pc EXCEPT ![r] = "declare"]
           \/ pc' = [pc EXCEPT ![r] = "revise"]
  BY DEF AppendSnapshot, UpdateDeclarations, UpdateChangeRequest, Goto, github
<1>2. rows \in Seq(RowRecords) /\ req[r].content \in Contents
  BY <1>1 DEF RequestInv, Shapes, RequestIsSound
<1>3. \A i \in DOMAIN rows : rows[i] \in RowRecords
  BY <1>2
<1> DEFINE c == req[r].content
<1>4. /\ rows' \in Seq(RowRecords) /\ DOMAIN rows' = DOMAIN rows
      /\ \A i \in DOMAIN rows : /\ rows'[i].pull = rows[i].pull /\ rows'[i].slug = rows[i].slug
                                /\ rows'[i].events = rows[i].events
  <2>1. CASE AppendSnapshot(r)
    <3> DEFINE row == [i \in DOMAIN rows |-> [rows[i] EXCEPT !.snapshots = @ \cup {c}]]
    <3>1. UpdateRow(r, row)
      BY <2>1 DEF AppendSnapshot
    <3>2. \A i \in DOMAIN rows : /\ row[i] \in RowRecords /\ row[i].pull = rows[i].pull
                                 /\ row[i].slug = rows[i].slug /\ row[i].events = rows[i].events
      BY <1>2, <1>3 DEF RowRecords
    <3> HIDE DEF row
    <3> QED BY <1>2, <3>1, <3>2, RowsRewritten
  <2>2. CASE UpdateDeclarations(r)
    <3> DEFINE row == [i \in DOMAIN rows |-> [rows[i] EXCEPT !.declares = c]]
    <3>1. UpdateRow(r, row)
      BY <2>2 DEF UpdateDeclarations
    <3>2. \A i \in DOMAIN rows : /\ row[i] \in RowRecords /\ row[i].pull = rows[i].pull
                                 /\ row[i].slug = rows[i].slug /\ row[i].events = rows[i].events
      BY <1>2, <1>3 DEF RowRecords
    <3> HIDE DEF row
    <3> QED BY <1>2, <3>1, <3>2, RowsRewritten
  <2>3. CASE UpdateChangeRequest(r)
    <3> DEFINE row == [i \in DOMAIN rows |-> [rows[i] EXCEPT !.revision = c]]
    <3>1. UpdateRow(r, row)
      BY <2>3 DEF UpdateChangeRequest
    <3>2. \A i \in DOMAIN rows : /\ row[i] \in RowRecords /\ row[i].pull = rows[i].pull
                                 /\ row[i].slug = rows[i].slug /\ row[i].events = rows[i].events
      BY <1>2, <1>3 DEF RowRecords
    <3> HIDE DEF row
    <3> QED BY <1>2, <3>1, <3>2, RowsRewritten
  <2> QED BY <2>1, <2>2, <2>3
<1>5. /\ pc' \in [Requesters -> Labels]
      /\ pc'[r] \in AfterRow /\ \A s \in Requesters \ {r} : pc'[s] = pc[s]
  BY <1>1 DEF RequestInv, Shapes, Labels, AfterRow
<1>6. \A n : Stored(n) => Stored(n)'
  BY <1>4 DEF Stored
<1>7. Shapes'
  BY <1>1, <1>4, <1>5 DEF RequestInv, Shapes
<1>8. ASSUME NEW s \in Requesters PROVE RequestIsSound(s)' /\ DraftOrRaced(s)' /\ FirstRequester(s)'
  <2>1. RequestIsSound(s) /\ DraftOrRaced(s) /\ FirstRequester(s)
    BY DEF RequestInv
  <2>2. RequestIsSound(s)' /\ DraftOrRaced(s)'
    <3>1. CASE s = r
      BY <1>1, <1>5, <1>6, <2>1, <3>1 DEF RequestIsSound, DraftOrRaced, AfterPull, AfterRow
    <3>2. CASE s # r
      BY <1>1, <1>5, <1>6, <2>1, <3>2 DEF RequestIsSound, DraftOrRaced
    <3> QED BY <3>1, <3>2
  <2>3. FirstRequester(s)'
    BY <1>1, <1>4, <2>1 DEF FirstRequester
  <2> QED BY <2>2, <2>3
<1>9. \A i \in DOMAIN rows' : RowIsSound(i)'
  BY <1>1, <1>4 DEF RequestInv, RowIsSound
<1>10. ASSUME clean' PROVE InOrder'
  <2>1. InOrder /\ pc[r] # "idle" /\ pc[r] \notin {"lookup", "insert"}
    BY <1>1, <1>10 DEF RequestInv
  <2>2. \A s \in Requesters : pc'[s] # "idle" => pc[s] # "idle"
    BY <1>5, <2>1
  <2>3. \A n \in DOMAIN pulls : Stored(n)' \/ \E s \in Requesters : pc'[s] \in {"lookup", "insert"} /\ req[s].pull = n
    BY <1>5, <1>6, <2>1 DEF InOrder
  <2> QED BY <1>1, <2>1, <2>2, <2>3 DEF InOrder
<1> QED BY <1>7, <1>8, <1>9, <1>10 DEF RequestInv

\* The row of the pull request exists already: the request is a re-review.
LEMMA RowFound ==
  ASSUME RequestInv, NEW r \in Requesters, pc[r] \in {"lookup", "insert"}, RowsOf(req[r].pull) # {},
         req' = [req EXCEPT ![r].event = "re_reviewed"], pc' = [pc EXCEPT ![r] = "snapshot"],
         UNCHANGED <<pulls, rows, clean>>
  PROVE  RequestInv'
<1>1. /\ RequestIsSound(r) /\ DraftOrRaced(r) /\ req[r] \in Reqs /\ clean \in BOOLEAN
      /\ clean => ~req[r].failed
  BY DEF RequestInv, Shapes, InOrder
<1> DEFINE q == [req[r] EXCEPT !.event = "re_reviewed"]
<1>2. req' = [req EXCEPT ![r] = q]
  OBVIOUS
<1>3. /\ q \in Reqs /\ q.pull = req[r].pull /\ q.slug = req[r].slug /\ q.content = req[r].content
      /\ q.event = "re_reviewed" /\ q.failed = req[r].failed /\ q.raced = req[r].raced
      /\ q.draft = req[r].draft
  BY <1>1 DEF Reqs, Events
<1> HIDE DEF q
<1>4. req'[r] = q /\ pc'[r] = "snapshot"
  BY <1>2 DEF RequestInv, Shapes
<1>5. Stored(req[r].pull)
  BY DEF Stored, RowsOf
<1>6. RequestIsSound(r)' /\ DraftOrRaced(r)'
  BY <1>1, <1>3, <1>4, <1>5 DEF RequestIsSound, DraftOrRaced, AfterPull, AfterRow, Stored, Events
<1>7. q.event # req[r].event
  BY <1>1, <1>3 DEF RequestIsSound, AfterRow, None
<1> QED BY <1>1, <1>2, <1>3, <1>5, <1>6, <1>7, RequestMoves DEF Labels

LEMMA FindRowStep ==
  ASSUME RequestInv, NEW r \in Requesters, FindRow(r)
  PROVE  RequestInv'
<1>1. CASE RowsOf(req[r].pull) # {}
  BY <1>1, RowFound DEF FindRow, Goto, github
<1>2. CASE RowsOf(req[r].pull) = {}
  <2>1. /\ pc[r] = "lookup" /\ pc' = [pc EXCEPT ![r] = "insert"] /\ UNCHANGED <<req, pulls, rows, clean>>
    BY <1>2 DEF FindRow, Goto, github
  <2>2. RequestIsSound(r) /\ DraftOrRaced(r) /\ clean \in BOOLEAN
    BY DEF RequestInv, Shapes
  <2>3. pc'[r] = "insert"
    BY <2>1 DEF RequestInv, Shapes
  <2>4. RequestIsSound(r)' /\ DraftOrRaced(r)'
    BY <2>1, <2>2, <2>3 DEF RequestIsSound, DraftOrRaced, AfterPull, AfterRow, Stored
  <2> QED BY <2>1, <2>2, <2>4, RequestWaits DEF Labels
<1> QED BY <1>1, <1>2

LEMMA Appended ==
  ASSUME NEW S, NEW s \in Seq(S), NEW x \in S
  PROVE  /\ Append(s, x) \in Seq(S) /\ Len(s) + 1 \notin DOMAIN s
         /\ DOMAIN Append(s, x) = DOMAIN s \cup {Len(s) + 1}
         /\ Append(s, x)[Len(s) + 1] = x /\ \A i \in DOMAIN s : Append(s, x)[i] = s[i]
OBVIOUS

LEMMA InsertRowStep ==
  ASSUME RequestInv, NEW r \in Requesters, InsertRow(r)
  PROVE  RequestInv'
<1>1. CASE RowsOf(req[r].pull) # {}
  BY <1>1, RowFound DEF InsertRow, Goto, github
<1>2. CASE RowsOf(req[r].pull) = {}
  <2> DEFINE row == NewRow(r)
             n == req[r].pull
             k == Len(rows) + 1
             q == [req[r] EXCEPT !.event = "requested"]
  <2>1. /\ pc[r] = "insert" /\ rows' = Append(rows, row) /\ req' = [req EXCEPT ![r] = q]
        /\ pc' = [pc EXCEPT ![r] = "snapshot"] /\ UNCHANGED <<pulls, clean>>
    BY <1>2 DEF InsertRow, Goto, github
  <2>2. /\ RequestIsSound(r) /\ DraftOrRaced(r) /\ req[r] \in Reqs /\ rows \in Seq(RowRecords)
        /\ n \in Nat /\ req[r].content \in Contents /\ req[r].slug \in Slugs
    BY <2>1 DEF RequestInv, RequestIsSound, Shapes, Reqs
  <2>3. /\ row \in RowRecords /\ row.pull = n /\ row.slug = req[r].slug /\ row.events = <<>>
    BY <2>2 DEF NewRow, RowRecords
  <2> HIDE DEF row
  <2>4. /\ q \in Reqs /\ q.pull = n /\ q.slug = req[r].slug /\ q.content = req[r].content
        /\ q.event = "requested" /\ q.failed = req[r].failed /\ q.raced = req[r].raced
        /\ q.draft = req[r].draft
    BY <2>2 DEF Reqs, Events
  <2> HIDE DEF q
  <2>5. /\ rows' \in Seq(RowRecords) /\ k \notin DOMAIN rows /\ DOMAIN rows' = DOMAIN rows \cup {k}
        /\ rows'[k] = row /\ \A i \in DOMAIN rows : rows'[i] = rows[i]
    BY <2>1, <2>2, <2>3, Appended
  <2> HIDE DEF k
  <2>6. /\ req'[r] = q /\ pc'[r] = "snapshot"
        /\ \A s \in Requesters \ {r} : req'[s] = req[s] /\ pc'[s] = pc[s]
    BY <2>1 DEF RequestInv, Shapes
  <2>7. Shapes'
    BY <2>1, <2>4, <2>5 DEF RequestInv, Shapes, Labels
  <2>8. \A i \in DOMAIN rows : rows[i].pull # n
    BY <1>2 DEF RowsOf
  <2>9. \A m : Stored(m) \/ m = n => Stored(m)'
    BY <2>3, <2>5 DEF Stored
  <2>10. ASSUME NEW s \in Requesters PROVE RequestIsSound(s)' /\ DraftOrRaced(s)' /\ FirstRequester(s)'
    <3>1. RequestIsSound(s) /\ DraftOrRaced(s) /\ FirstRequester(s)
      BY DEF RequestInv
    <3>2. \A t \in Requesters : req[t].event = "requested" => req[t].pull # n
      BY <2>8 DEF RequestInv, RequestIsSound, Stored, None
    <3>3. CASE s = r
      <4>1. RequestIsSound(s)' /\ DraftOrRaced(s)'
        BY <2>1, <2>2, <2>4, <2>6, <2>9, <3>3 DEF RequestIsSound, DraftOrRaced, AfterPull, AfterRow, Events
      <4>2. FirstRequester(s)'
        BY <2>3, <2>4, <2>5, <2>6, <2>8, <3>2, <3>3 DEF FirstRequester
      <4> QED BY <4>1, <4>2
    <3>4. CASE s # r
      <4>1. RequestIsSound(s)' /\ DraftOrRaced(s)'
        BY <2>1, <2>6, <2>9, <3>1, <3>4 DEF RequestIsSound, DraftOrRaced
      <4>2. FirstRequester(s)'
        BY <2>3, <2>4, <2>5, <2>6, <3>1, <3>2, <3>4 DEF FirstRequester
      <4> QED BY <4>1, <4>2
    <3> QED BY <3>3, <3>4
  <2>11. ASSUME NEW i \in DOMAIN rows' PROVE RowIsSound(i)'
    <3>1. CASE i = k
      <4>1. n \in DOMAIN pulls /\ pulls[n].slug = req[r].slug
        BY <2>1, <2>2 DEF RequestIsSound, AfterPull
      <4>2. rows'[i] = row /\ rows'[i].pull = n /\ DOMAIN rows'[i].events = {}
        BY <2>3, <2>5, <3>1
      <4>3. \A l \in DOMAIN rows' : rows'[l].pull = n => l = k
        BY <2>5, <2>8
      <4> QED BY <2>1, <2>3, <3>1, <4>1, <4>2, <4>3 DEF RowIsSound
    <3>2. CASE i \in DOMAIN rows
      <4>1. RowIsSound(i) /\ rows[i].pull # n
        BY <2>8, <3>2 DEF RequestInv
      <4> QED BY <2>1, <2>3, <2>5, <3>2, <4>1 DEF RowIsSound
    <3> QED BY <2>5, <3>1, <3>2
  <2>12. ASSUME clean' PROVE InOrder'
    <3>1. InOrder
      BY <2>1, <2>12 DEF RequestInv
    <3>2. \A s \in Requesters \ {r} : pc[s] = "idle"
      BY <2>1, <3>1 DEF InOrder
    <3>3. \A m \in DOMAIN pulls : Stored(m)'
      BY <2>9, <3>1, <3>2 DEF InOrder
    <3>4. \A s \in Requesters : ~req'[s].failed
      BY <2>4, <2>6, <3>1 DEF InOrder
    <3>5. \A s, t \in Requesters : pc'[s] # "idle" /\ pc'[t] # "idle" => s = t
      BY <2>6, <3>2
    <3>6. \A s \in Requesters, m \in DOMAIN pulls' : pc'[s] # "idle" => pulls'[m].slug = req'[s].slug
      BY <2>1, <2>4, <2>6, <3>1, <3>2 DEF InOrder
    <3>7. \A m, l \in DOMAIN pulls' : pulls'[m].slug = pulls'[l].slug
      BY <2>1, <3>1 DEF InOrder
    <3> QED BY <2>1, <3>3, <3>4, <3>5, <3>6, <3>7 DEF InOrder
  <2> QED BY <2>7, <2>10, <2>11, <2>12 DEF RequestInv
<1> QED BY <1>1, <1>2

\* The event is stored and the request is over.
LEMMA AppendEventStep ==
  ASSUME RequestInv, NEW r \in Requesters, AppendEvent(r)
  PROVE  RequestInv'
<1> DEFINE n == req[r].pull
           e == req[r].event
           row == [i \in DOMAIN rows |-> [rows[i] EXCEPT !.events = Append(@, e)]]
<1>1. /\ pc[r] = "event" /\ UpdateRow(r, row) /\ UNCHANGED <<pulls, clean>>
      /\ req' = [req EXCEPT ![r] = Idle] /\ pc' = [pc EXCEPT ![r] = "idle"]
  BY DEF AppendEvent, Goto, github
<1>2. /\ rows \in Seq(RowRecords) /\ e \in Events /\ e # None /\ Stored(n)
      /\ FirstRequester(r)
  BY <1>1 DEF RequestInv, Shapes, RequestIsSound, AfterRow, Events, None
<1>3. \A i \in DOMAIN rows : rows[i] \in RowRecords
  BY <1>2
<1> HIDE DEF e
<1>4. \A i \in DOMAIN rows : /\ row[i] \in RowRecords /\ row[i].pull = rows[i].pull
                            /\ row[i].slug = rows[i].slug /\ row[i].events = Append(rows[i].events, e)
  <2> SUFFICES ASSUME NEW i \in DOMAIN rows
               PROVE  /\ row[i] \in RowRecords /\ row[i].pull = rows[i].pull
                      /\ row[i].slug = rows[i].slug /\ row[i].events = Append(rows[i].events, e)
    OBVIOUS
  <2> DEFINE events == Append(rows[i].events, e)
  <2>1. row[i] = [rows[i] EXCEPT !.events = events] /\ rows[i] \in RowRecords
    BY <1>3
  <2>2. rows[i].events \in Seq(Events)
    BY <2>1 DEF RowRecords
  <2>3. events \in Seq(Events)
    BY <1>2, <2>2, Appended
  <2> HIDE DEF events, row
  <2>4. row[i] \in RowRecords /\ row[i].pull = rows[i].pull /\ row[i].slug = rows[i].slug /\ row[i].events = events
    BY <2>1, <2>3 DEF RowRecords
  <2> QED BY <2>4 DEF events
<1> HIDE DEF row
<1>5. /\ rows' \in Seq(RowRecords) /\ DOMAIN rows' = DOMAIN rows
      /\ \A i \in DOMAIN rows : /\ rows'[i].pull = rows[i].pull /\ rows'[i].slug = rows[i].slug
                                /\ rows'[i] = IF rows[i].pull = n THEN row[i] ELSE rows[i]
  BY <1>1, <1>2, <1>4, RowsRewritten
<1>6. /\ req'[r] = Idle /\ pc'[r] = "idle"
      /\ \A s \in Requesters \ {r} : req'[s] = req[s] /\ pc'[s] = pc[s]
  BY <1>1 DEF RequestInv, Shapes
<1>7. Shapes'
  BY <1>1, <1>5, IdleIsARequest DEF RequestInv, Shapes, Labels
<1>8. \A m : Stored(m) <=> Stored(m)'
  BY <1>5 DEF Stored
<1>9. ASSUME NEW i \in DOMAIN rows
      PROVE  /\ rows[i].pull # n => rows'[i].events = rows[i].events
             /\ rows[i].pull = n => rows'[i].events = Append(rows[i].events, e)
             /\ rows[i].events \in Seq(Events)
  BY <1>3, <1>4, <1>5 DEF RowRecords
<1>10. ASSUME NEW i \in DOMAIN rows, rows[i].pull = n
       PROVE  /\ DOMAIN rows'[i].events = DOMAIN rows[i].events \cup {Len(rows[i].events) + 1}
              /\ rows'[i].events[Len(rows[i].events) + 1] = e
              /\ \A j \in DOMAIN rows[i].events : rows'[i].events[j] = rows[i].events[j]
  BY <1>2, <1>9, <1>10, Appended
<1>11. ASSUME NEW s \in Requesters PROVE RequestIsSound(s)' /\ DraftOrRaced(s)' /\ FirstRequester(s)'
  <2>1. CASE s = r
    BY <1>6, <2>1, IdleIsARequest DEF RequestIsSound, DraftOrRaced, FirstRequester, AfterPull, AfterRow, None
  <2>2. CASE s # r
    <3>1. RequestIsSound(s) /\ DraftOrRaced(s) /\ FirstRequester(s)
      BY DEF RequestInv
    <3>2. RequestIsSound(s)' /\ DraftOrRaced(s)'
      BY <1>1, <1>6, <1>8, <2>2, <3>1 DEF RequestIsSound, DraftOrRaced
    <3>3. ASSUME req'[s].event = "requested" PROVE FirstRequester(s)'
      <4>1. req'[s].pull = req[s].pull /\ req[s].event = "requested"
        BY <1>6, <2>2, <3>3
      <4>2. ASSUME NEW i \in DOMAIN rows', rows'[i].pull = req[s].pull, NEW j \in DOMAIN rows'[i].events
            PROVE  rows'[i].events[j] # "requested"
        <5>1. i \in DOMAIN rows /\ rows[i].pull = req[s].pull
          BY <1>5, <4>2
        <5>2. \A l \in DOMAIN rows[i].events : rows[i].events[l] # "requested"
          BY <3>1, <4>1, <5>1 DEF FirstRequester
        <5>3. CASE rows[i].pull = n
          <6>1. e # "requested"
            BY <2>2, <3>1, <4>1, <5>1, <5>3 DEF FirstRequester, e
          <6> QED BY <1>10, <4>2, <5>1, <5>2, <5>3, <6>1
        <5>4. CASE rows[i].pull # n
          BY <1>9, <4>2, <5>1, <5>2, <5>4
        <5> QED BY <5>3, <5>4
      <4>3. ASSUME NEW q \in Requesters \ {s}, req'[q].event = "requested" PROVE req'[q].pull # req[s].pull
        <5>1. q # r
          BY <1>6, <4>3, IdleIsARequest DEF None
        <5> QED BY <1>6, <3>1, <4>1, <4>3, <5>1 DEF FirstRequester
      <4> QED BY <4>1, <4>2, <4>3 DEF FirstRequester
    <3>4. FirstRequester(s)'
      BY <3>3 DEF FirstRequester
    <3> QED BY <3>2, <3>4
  <2> QED BY <2>1, <2>2
<1>12. ASSUME NEW i \in DOMAIN rows' PROVE RowIsSound(i)'
  <2>1. i \in DOMAIN rows /\ RowIsSound(i)
    BY <1>5 DEF RequestInv
  <2>2. /\ rows'[i].pull \in DOMAIN pulls' /\ pulls'[rows'[i].pull].slug = rows'[i].slug
        /\ \A l \in DOMAIN rows' : rows'[l].pull = rows'[i].pull => l = i
    BY <1>1, <1>5, <2>1 DEF RowIsSound
  <2>3. ASSUME NEW j \in DOMAIN rows'[i].events, NEW l \in DOMAIN rows'[i].events,
               rows'[i].events[j] = "requested", rows'[i].events[l] = "requested"
        PROVE  j = l
    <3>1. CASE rows[i].pull # n
      BY <1>9, <2>1, <2>3, <3>1 DEF RowIsSound
    <3>2. CASE rows[i].pull = n /\ e = "requested"
      <4>1. \A m \in DOMAIN rows[i].events : rows[i].events[m] # "requested"
        BY <1>2, <2>1, <3>2 DEF FirstRequester, e
      <4> QED BY <1>10, <2>1, <2>3, <3>2, <4>1
    <3>3. CASE rows[i].pull = n /\ e # "requested"
      BY <1>10, <2>1, <2>3, <3>3 DEF RowIsSound
    <3> QED BY <3>1, <3>2, <3>3
  <2> QED BY <2>2, <2>3 DEF RowIsSound
<1>13. ASSUME clean' PROVE InOrder'
  <2>1. InOrder
    BY <1>1, <1>13 DEF RequestInv
  <2>2. \A s \in Requesters : pc'[s] = "idle"
    BY <1>1, <1>6, <2>1 DEF InOrder
  <2>3. \A m \in DOMAIN pulls' : Stored(m)'
    <3>1. \A s \in Requesters : pc[s] \notin {"lookup", "insert"}
      BY <1>1, <2>1 DEF InOrder
    <3> QED BY <1>1, <1>8, <2>1, <3>1 DEF InOrder
  <2>4. \A s \in Requesters : ~req'[s].failed
    BY <1>6, <2>1, IdleIsARequest DEF InOrder
  <2>5. \A m, l \in DOMAIN pulls' : pulls'[m].slug = pulls'[l].slug
    BY <1>1, <2>1 DEF InOrder
  <2> QED BY <2>2, <2>3, <2>4, <2>5 DEF InOrder
<1> QED BY <1>7, <1>11, <1>12, <1>13 DEF RequestInv

-----------------------------------------------------------------------------
(* Every step, and what follows for the promotions.                        *)

LEMMA RequestStep ==
  RequestInv /\ [Next]_vars => RequestInv'
<1> SUFFICES ASSUME RequestInv, [Next]_vars PROVE RequestInv'
  OBVIOUS
<1>1. ASSUME NEW r \in Requesters, Begin(r) \/ Retry(r) PROVE RequestInv'
  BY <1>1, StartStep DEF Begin, Retry
<1>2. ASSUME NEW r \in Requesters, Call(r) PROVE RequestInv'
  <2>1. CASE FindPull(r)
    BY <2>1, FindPullStep
  <2>2. CASE NothingToPromote(r)
    BY <2>2, EndStep
  <2>3. CASE SomethingToPromote(r) \/ ResetBranch(r) \/ WriteFile(r)
    BY <2>3, WritingStep
  <2>4. CASE Demote(r)
    BY <2>4, DemoteStep
  <2>5. CASE CreatePull(r)
    BY <2>5, CreatePullStep
  <2>6. CASE FindRow(r)
    BY <2>6, FindRowStep
  <2>7. CASE InsertRow(r)
    BY <2>7, InsertRowStep
  <2>8. CASE AppendSnapshot(r) \/ UpdateDeclarations(r) \/ UpdateChangeRequest(r)
    BY <2>8, RewriteStep
  <2>9. CASE AppendEvent(r)
    BY <2>9, AppendEventStep
  <2> QED BY <1>2, <2>1, <2>2, <2>3, <2>4, <2>5, <2>6, <2>7, <2>8, <2>9 DEF Call
<1>3. ASSUME NEW r \in Requesters, MatchUnknown(r) PROVE RequestInv'
  BY <1>3, WritingStep
<1>4. ASSUME NEW r \in Requesters, Fail(r) PROVE RequestInv'
  BY <1>4, EndStep
<1>5. ASSUME People PROVE RequestInv'
  BY <1>5, PeopleStep DEF People
<1>6. CASE UNCHANGED vars
  <2>1. UNCHANGED <<pulls, rows, pc, req, clean>>
    BY <1>6 DEF vars, github
  <2>2. Shapes' /\ (clean' => InOrder')
    BY <2>1 DEF RequestInv, Shapes, InOrder, Stored
  <2>3. ASSUME NEW r \in Requesters PROVE RequestIsSound(r)' /\ DraftOrRaced(r)' /\ FirstRequester(r)'
    BY <2>1 DEF RequestInv, RequestIsSound, DraftOrRaced, FirstRequester, Stored
  <2>4. \A i \in DOMAIN rows' : RowIsSound(i)'
    BY <2>1 DEF RequestInv, RowIsSound
  <2> QED BY <2>2, <2>3, <2>4 DEF RequestInv
<1> QED BY <1>1, <1>2, <1>3, <1>4, <1>5, <1>6 DEF Next

LEMMA RequestInvHolds == Spec => []RequestInv
BY RequestInit, RequestStep, PTL DEF Spec

LEMMA AtMostOne ==
  ASSUME NEW S, \A x, y \in S : x = y
  PROVE  Cardinality(S) <= 1
<1>1. CASE S = {}
  BY <1>1, FS_EmptySet
<1>2. CASE S # {}
  <2>1. PICK x \in S : S = {x}
    BY <1>2
  <2> QED BY <2>1, FS_Singleton
<1> QED BY <1>1, <1>2

\* Two requests that race to store the promotion of one pull request store one, and one of them
\* is recorded as the request (uq_promotions_change_request and DuplicateChangeRequest).
THEOREM OnePromotion == Spec => []OnePromotionPerPull
<1>1. RequestInv => OnePromotionPerPull
  <2> SUFFICES ASSUME RequestInv, NEW n \in DOMAIN pulls
               PROVE  /\ Cardinality(RowsOf(n)) <= 1
                      /\ \A i \in RowsOf(n) :
                           Cardinality({j \in DOMAIN rows[i].events : rows[i].events[j] = "requested"}) <= 1
    BY DEF OnePromotionPerPull
  <2>1. \A i, k \in RowsOf(n) : i = k
    BY DEF RowsOf, RequestInv, RowIsSound
  <2>2. ASSUME NEW i \in RowsOf(n)
        PROVE  Cardinality({j \in DOMAIN rows[i].events : rows[i].events[j] = "requested"}) <= 1
    <3> DEFINE S == {j \in DOMAIN rows[i].events : rows[i].events[j] = "requested"}
    <3>1. \A j, k \in S : j = k
      BY DEF RowsOf, RequestInv, RowIsSound
    <3> HIDE DEF S
    <3>2. Cardinality(S) <= 1
      BY <3>1, AtMostOne
    <3> QED BY <3>2 DEF S
  <2> QED BY <2>1, <2>2, AtMostOne
<1> QED BY <1>1, RequestInvHolds, PTL

\* Whatever people do meanwhile, a pull request the app has rewritten is a draft, unless somebody
\* marked it ready while the request ran (open_or_update_promotion's demotion).
THEOREM RewrittenIsDraft == Spec => []ResubmissionIsDraft
<1>1. RequestInv => ResubmissionIsDraft
  BY DEF RequestInv, RequestIsSound, DraftOrRaced, ResubmissionIsDraft, AfterPull, IsOpen
<1> QED BY <1>1, RequestInvHolds, PTL

\* While no request fails and none overlaps another, every promotion of the resource goes to the
\* branch of the first one (prior_slug_for).
THEOREM SlugStays == Spec => []SlugIsPinnedInOrder
<1>1. RequestInv => SlugIsPinnedInOrder
  BY DEF RequestInv, InOrder, SlugIsPinnedInOrder, SlugIsPinned
<1> QED BY <1>1, RequestInvHolds, PTL

-----------------------------------------------------------------------------
(* What a request that runs alone leaves behind.                           *)

\* The calls that change nothing, and those that follow the snapshot.
Quiet         == {"idle", "find", "match"}
AfterSnapshot == {"declare", "revise", "event"}

Branches == base \in [Slugs -> Trees] /\ branch \in [Slugs -> Trees]

Pending(r, f) == \E j \in DOMAIN req[r].todo : req[r].todo[j] = f

\* What the branch and the row already say of a request's content.
Written(r)  == \A f \in Files : Pending(r, f) \/ branch[req[r].slug][f] = Tree(req[r].content)[f]
Carried(r)  == branch[req[r].slug] = Tree(req[r].content)
Snapped(r)  == \A i \in DOMAIN rows : rows[i].pull = req[r].pull => req[r].content \in rows[i].snapshots
Declared(r) == \A i \in DOMAIN rows : rows[i].pull = req[r].pull => rows[i].declares = req[r].content
Revised(r)  == \A i \in DOMAIN rows : rows[i].pull = req[r].pull => rows[i].revision = req[r].content

First(r) == pc[r] \in AfterRow /\ req[r].event = "requested"

\* Alone so far: nobody else is under way, and what is done is done.
Lone(r) ==
  req[r].alone /\ pc[r] # "idle" =>
    /\ \A q \in Requesters \ {r} : pc[q] = "idle"
    /\ pc[r] = "write" => Written(r)
    /\ pc[r] \in AfterPull => Carried(r)
    /\ pc[r] \in AfterSnapshot => Snapped(r)
    /\ pc[r] \in {"revise", "event"} \/ First(r) => Declared(r)
    /\ pc[r] = "event" \/ First(r) => Revised(r)

\* On a fresh branch every file is still to be written.
Planned(r) == pc[r] = "reset" => \A f \in Files : Pending(r, f)

Opening(r) == pc[r] = "reset" \/ (pc[r] = "write" /\ req[r].pull = 0)

\* While nothing fails or overlaps, a request opens a pull request only where none is open and
\* the base says something else.
Different(r) ==
  clean /\ pc[r] # "idle" =>
    /\ req[r].alone
    /\ pc[r] = "match" \/ Opening(r) => OpenPulls(req[r].slug) = {}
    /\ Opening(r) => base[req[r].slug] # Tree(req[r].content)

\* What the last request that ran alone promised still holds, until another one changes it.
Promised ==
  IsOpen(last.pull) =>
    /\ branch[pulls[last.pull].slug] = Tree(last.content)
    /\ \E i \in RowsOf(last.pull) :
         /\ rows[i].declares = last.content /\ rows[i].revision = last.content
         /\ last.content \in rows[i].snapshots

LastHolds == (\A r \in Requesters : pc[r] \in Quiet) => Promised

ContentInv ==
  /\ Branches
  /\ \A r \in Requesters : Lone(r) /\ Planned(r) /\ Different(r)
  /\ LastHolds

LEMMA ContentInit == Init => ContentInv
<1> SUFFICES ASSUME Init PROVE ContentInv
  OBVIOUS
<1>1. Branches
  BY DEF Init, Branches, Trees, Empty
<1>2. \A r \in Requesters : Lone(r) /\ Planned(r) /\ Different(r)
  BY DEF Init, Lone, Planned, Different
<1>3. LastHolds
  BY DEF Init, LastHolds, Promised, IsOpen, NoLast
<1> QED BY <1>1, <1>2, <1>3 DEF ContentInv

LEMMA TreesAreTrees == ASSUME NEW c \in Contents PROVE Tree(c) \in Trees
BY DEF Tree, Trees

LEMMA WritesEverything ==
  ASSUME NEW c, NEW f \in Files
  PROVE  \E j \in DOMAIN Writes(c) : Writes(c)[j] = f
<1>1. CASE c \in Mapped
  <2>1. Writes(c) = <<"artifact", "mapping", "manifest">>
    BY <1>1 DEF Writes
  <2>2. 1 \in DOMAIN Writes(c) /\ 2 \in DOMAIN Writes(c) /\ 3 \in DOMAIN Writes(c)
    BY <2>1
  <2> QED BY <2>1, <2>2 DEF Files
<1>2. CASE c \notin Mapped
  <2>1. Writes(c) = <<"artifact", "manifest", "mapping">>
    BY <1>2 DEF Writes
  <2>2. 1 \in DOMAIN Writes(c) /\ 2 \in DOMAIN Writes(c) /\ 3 \in DOMAIN Writes(c)
    BY <2>1
  <2> QED BY <2>1, <2>2 DEF Files
<1> QED BY <1>1, <1>2

\* The other requests while r takes a step.
Same(r) == \A s \in Requesters \ {r} : req'[s] = req[s] /\ pc'[s] = pc[s]

LEMMA Replaced ==
  ASSUME Shapes, NEW r \in Requesters, NEW q, NEW label, req' = [req EXCEPT ![r] = q], pc' = [pc EXCEPT ![r] = label]
  PROVE  req'[r] = q /\ pc'[r] = label /\ Same(r)
BY DEF Shapes, Same

LEMMA ContentGoesOn ==
  ASSUME RequestInv, ContentInv, NEW r \in Requesters, pc[r] # "idle", Same(r), clean' => clean,
         Branches', Lone(r)', Planned(r)', Different(r)', LastHolds'
  PROVE  ContentInv'
<1>1. ASSUME NEW s \in Requesters, s # r PROVE Lone(s)' /\ Planned(s)' /\ Different(s)'
  <2>1. req'[s] = req[s] /\ pc'[s] = pc[s] /\ Lone(s) /\ Planned(s) /\ Different(s)
    BY <1>1 DEF Same, ContentInv
  <2>2. Lone(s)'
    BY <1>1, <2>1 DEF Lone
  <2>3. Planned(s)'
    BY <2>1 DEF Planned, Pending
  <2>4. clean' => pc[s] = "idle"
    BY <1>1 DEF RequestInv, InOrder
  <2> QED BY <2>1, <2>2, <2>3, <2>4 DEF Different
<1> QED BY <1>1 DEF ContentInv

\* A step that is over with r beyond what is quiet promises nothing yet.
LEMMA NotYet == ASSUME NEW r \in Requesters, pc'[r] \notin Quiet PROVE LastHolds'
BY DEF LastHolds

\* What is known of a request under way.
LEMMA Known ==
  ASSUME RequestInv, NEW r \in Requesters, pc[r] # "idle"
  PROVE  /\ Shapes /\ req[r] \in Reqs /\ RequestIsSound(r)
         /\ req[r].content \in Contents /\ req[r].slug \in Slugs /\ req[r].pull \in Nat
BY DEF RequestInv, Shapes, RequestIsSound, Reqs

\* The branch of r as it is, seen from a request that keeps its declarations.
LEMMA FindPullContent ==
  ASSUME RequestInv, RequestInv', ContentInv, NEW r \in Requesters, FindPull(r)
  PROVE  ContentInv'
<1>1. pc[r] = "find" /\ UNCHANGED <<base, branch, pulls, rows, last, clean>>
  BY DEF FindPull, github
<1>2. Shapes /\ req[r] \in Reqs /\ Lone(r) /\ Different(r)
  BY <1>1, Known DEF ContentInv
<1>3. CASE OpenPulls(req[r].slug) = {}
  <2>1. UNCHANGED req /\ pc' = [pc EXCEPT ![r] = "match"]
    BY <1>3 DEF FindPull, Goto
  <2>2. pc'[r] = "match" /\ Same(r)
    BY <1>2, <2>1 DEF Shapes, Same
  <2>3. Lone(r)' /\ Planned(r)'
    BY <1>1, <1>2, <2>1, <2>2 DEF Lone, Planned, Same, AfterPull, AfterSnapshot, First, AfterRow
  <2>4. OpenPulls(req[r].slug)' = {}
    BY <1>1, <1>3, <2>1 DEF OpenPulls
  <2>5. Different(r)'
    BY <1>1, <1>2, <2>1, <2>2, <2>4 DEF Different, Opening
  <2>6. LastHolds'
    BY <1>1, <2>2 DEF ContentInv, LastHolds, Quiet, Same, Promised, IsOpen, RowsOf
  <2> QED BY <1>1, <2>2, <2>3, <2>5, <2>6, ContentGoesOn DEF ContentInv, Branches
<1>4. ASSUME NEW n \in OpenPulls(req[r].slug), pc' = [pc EXCEPT ![r] = "write"],
             req' = [req EXCEPT ![r].pull = n, ![r].draft = pulls[n].draft, ![r].todo = Writes(req[r].content)]
      PROVE  ContentInv'
  <2> DEFINE todo == Writes(req[r].content)
             q == [req[r] EXCEPT !.pull = n, !.draft = pulls[n].draft, !.todo = todo]
  <2>1. req' = [req EXCEPT ![r] = q]
    BY <1>4
  <2>2. n \in Nat /\ n # 0
    BY <1>2 DEF OpenPulls, Shapes
  <2> HIDE DEF todo
  <2>3. q.pull = n /\ q.todo = todo /\ q.alone = req[r].alone /\ q.event = req[r].event
    BY <1>2 DEF Reqs
  <2> HIDE DEF q
  <2>4. req'[r] = q /\ pc'[r] = "write" /\ Same(r)
    BY <1>2, <1>4, <2>1, Replaced
  <2>5. \A f \in Files : Pending(r, f)'
    BY <2>3, <2>4, WritesEverything DEF Pending, todo
  <2>6. Lone(r)' /\ Planned(r)'
    BY <1>1, <1>2, <2>3, <2>4, <2>5 DEF Lone, Planned, Same, Written, AfterPull, AfterSnapshot, First, AfterRow
  <2>7. Different(r)'
    BY <1>1, <1>2, <2>2, <2>3, <2>4 DEF Different, Opening
  <2>8. LastHolds'
    BY <2>4, NotYet DEF Quiet
  <2> QED BY <1>1, <2>4, <2>6, <2>7, <2>8, ContentGoesOn DEF ContentInv, Branches
<1> QED BY <1>3, <1>4 DEF FindPull, Goto

\* The no-op guard lets a difference through, or does not know.
LEMMA PlanContent ==
  ASSUME RequestInv, ContentInv, NEW r \in Requesters, SomethingToPromote(r) \/ MatchUnknown(r)
  PROVE  ContentInv'
<1> DEFINE todo == Writes(req[r].content)
           q == [req[r] EXCEPT !.todo = todo]
<1>1. /\ pc[r] = "match" /\ UNCHANGED <<base, branch, pulls, rows, last>>
      /\ req' = [req EXCEPT ![r] = q] /\ pc' = [pc EXCEPT ![r] = "reset"]
      /\ (UNCHANGED clean /\ ~MatchesBase(r)) \/ clean' = FALSE
  BY DEF SomethingToPromote, MatchUnknown, Goto, github
<1>2. Shapes /\ req[r] \in Reqs /\ Lone(r) /\ Different(r)
  BY <1>1, Known DEF ContentInv
<1> HIDE DEF todo
<1>3. /\ q.pull = req[r].pull /\ q.todo = todo /\ q.alone = req[r].alone /\ q.event = req[r].event
      /\ q.slug = req[r].slug /\ q.content = req[r].content
  BY <1>2 DEF Reqs
<1> HIDE DEF q
<1>4. req'[r] = q /\ pc'[r] = "reset" /\ Same(r)
  BY <1>1, <1>2, Replaced
<1>5. \A f \in Files : Pending(r, f)'
  BY <1>3, <1>4, WritesEverything DEF Pending, todo
<1>6. Lone(r)' /\ Planned(r)'
  BY <1>1, <1>2, <1>3, <1>4, <1>5 DEF Lone, Planned, Same, AfterPull, AfterSnapshot, First, AfterRow
<1>7. Different(r)'
  BY <1>1, <1>2, <1>3, <1>4 DEF Different, Opening, OpenPulls, MatchesBase
<1>8. LastHolds'
  BY <1>4, NotYet DEF Quiet
<1> QED BY <1>1, <1>4, <1>6, <1>7, <1>8, ContentGoesOn DEF ContentInv, Branches

LEMMA ResetContent ==
  ASSUME RequestInv, ContentInv, NEW r \in Requesters, ResetBranch(r)
  PROVE  ContentInv'
<1>1. /\ pc[r] = "reset" /\ branch' = [branch EXCEPT ![req[r].slug] = base[req[r].slug]]
      /\ pc' = [pc EXCEPT ![r] = "write"] /\ UNCHANGED <<base, pulls, rows, req, last, clean>>
  BY DEF ResetBranch, Goto
<1>2. Shapes /\ RequestIsSound(r) /\ req[r].slug \in Slugs /\ Lone(r) /\ Planned(r) /\ Different(r) /\ Branches
  BY <1>1, Known DEF ContentInv
<1>3. pc'[r] = "write" /\ Same(r)
  BY <1>1, <1>2 DEF Shapes, Same
<1>4. Branches'
  BY <1>1, <1>2 DEF Branches
<1>5. \A f \in Files : Pending(r, f)'
  BY <1>1, <1>2 DEF Planned, Pending
<1>6. Lone(r)' /\ Planned(r)'
  BY <1>1, <1>2, <1>3, <1>5 DEF Lone, Planned, Written, Same, AfterPull, AfterSnapshot, First, AfterRow
<1>7. Different(r)'
  BY <1>1, <1>2, <1>3 DEF Different, Opening, OpenPulls
<1>8. LastHolds'
  BY <1>3, NotYet DEF Quiet
<1> QED BY <1>1, <1>3, <1>4, <1>6, <1>7, <1>8, ContentGoesOn

\* One file more.
LEMMA WriteContent ==
  ASSUME RequestInv, ContentInv, NEW r \in Requesters, WriteFile(r)
  PROVE  ContentInv'
<1> DEFINE c == req[r].content
           s == req[r].slug
           h == Head(req[r].todo)
           q == [req[r] EXCEPT !.todo = Tail(req[r].todo)]
<1>1. /\ pc[r] = "write" /\ req[r].todo # <<>> /\ req' = [req EXCEPT ![r] = q]
      /\ branch' = [branch EXCEPT ![s] = [branch[s] EXCEPT ![h] = Tree(c)[h]]]
      /\ UNCHANGED <<base, pulls, rows, pc, last, clean>>
  BY DEF WriteFile
<1>2. /\ Shapes /\ req[r] \in Reqs /\ c \in Contents /\ s \in Slugs
      /\ Lone(r) /\ Planned(r) /\ Different(r) /\ Branches
  BY <1>1, Known DEF ContentInv
<1>3. req[r].todo \in Seq(Files) /\ h \in Files
  BY <1>1, <1>2 DEF Reqs
<1>4. /\ q.pull = req[r].pull /\ q.alone = req[r].alone /\ q.event = req[r].event
      /\ q.slug = s /\ q.content = c /\ q.todo = Tail(req[r].todo)
  <2>1. Tail(req[r].todo) \in Seq(Files)
    BY <1>1, <1>3
  <2> QED BY <1>2, <2>1 DEF Reqs
<1> HIDE DEF q
<1>5. req'[r] = q /\ pc'[r] = "write" /\ Same(r)
  BY <1>1, <1>2 DEF Shapes, Same
<1>6. Tree(c) \in Trees /\ branch[s] \in Trees
  BY <1>2, TreesAreTrees DEF Branches
<1>7. /\ branch' \in [Slugs -> Trees] /\ branch'[s][h] = Tree(c)[h]
      /\ \A f \in Files : f # h => branch'[s][f] = branch[s][f]
  <2> HIDE DEF s, c, h
  <2>1. /\ [branch[s] EXCEPT ![h] = Tree(c)[h]] \in Trees /\ [branch[s] EXCEPT ![h] = Tree(c)[h]][h] = Tree(c)[h]
        /\ \A f \in Files : f # h => [branch[s] EXCEPT ![h] = Tree(c)[h]][f] = branch[s][f]
    BY <1>3, <1>6 DEF Trees
  <2>2. branch'[s] = [branch[s] EXCEPT ![h] = Tree(c)[h]] /\ branch' \in [Slugs -> Trees]
    BY <1>1, <1>2, <2>1 DEF Branches
  <2> QED BY <2>1, <2>2
<1>8. \A f \in Files : Pending(r, f) /\ f # h => Pending(r, f)'
  <2> SUFFICES ASSUME NEW f \in Files, Pending(r, f), f # h PROVE Pending(r, f)'
    OBVIOUS
  <2>1. PICK j \in DOMAIN req[r].todo : req[r].todo[j] = f
    BY DEF Pending
  <2>2. j \in 1..Len(req[r].todo) /\ j # 1
    BY <1>3, <2>1
  <2>3. j - 1 \in DOMAIN Tail(req[r].todo) /\ Tail(req[r].todo)[j - 1] = f
    BY <1>1, <1>3, <2>1, <2>2
  <2> QED BY <1>4, <1>5, <2>3 DEF Pending
<1>9. Written(r) => Written(r)'
  <2> SUFFICES ASSUME Written(r), NEW f \in Files, ~Pending(r, f)' PROVE branch'[s][f] = Tree(c)[f]
    BY <1>4, <1>5 DEF Written
  <2>1. CASE f = h
    BY <1>7, <2>1
  <2>2. CASE f # h
    BY <1>7, <1>8, <2>2 DEF Written
  <2> QED BY <2>1, <2>2
<1>10. Lone(r)' /\ Planned(r)'
  BY <1>1, <1>2, <1>4, <1>5, <1>9 DEF Lone, Planned, Same, AfterPull, AfterSnapshot, First, AfterRow
<1>11. Different(r)'
  BY <1>1, <1>2, <1>4, <1>5 DEF Different, Opening, OpenPulls
<1>12. LastHolds'
  BY <1>5, NotYet DEF Quiet
<1>13. Branches'
  BY <1>1, <1>2, <1>7 DEF Branches
<1> QED BY <1>1, <1>5, <1>10, <1>11, <1>12, <1>13, ContentGoesOn

LEMMA AllIsWritten ==
  ASSUME Branches, NEW r \in Requesters, req[r].slug \in Slugs, req[r].content \in Contents,
         Written(r), req[r].todo = <<>>
  PROVE  Carried(r)
<1>1. \A f \in Files : ~Pending(r, f)
  BY DEF Pending
<1>2. branch[req[r].slug] \in Trees /\ Tree(req[r].content) \in Trees
  BY TreesAreTrees DEF Branches
<1>3. \A f \in Files : branch[req[r].slug][f] = Tree(req[r].content)[f]
  BY <1>1 DEF Written
<1> QED BY <1>2, <1>3 DEF Trees, Carried

LEMMA DemoteContent ==
  ASSUME RequestInv, ContentInv, NEW r \in Requesters, Demote(r)
  PROVE  ContentInv'
<1>1. /\ pc[r] = "write" /\ req[r].todo = <<>> /\ req[r].pull # 0
      /\ pc' = [pc EXCEPT ![r] = "lookup"] /\ UNCHANGED <<base, branch, rows, req, last, clean>>
  BY DEF Demote, Goto
<1>2. /\ Shapes /\ req[r].content \in Contents /\ req[r].slug \in Slugs /\ Branches
      /\ Lone(r) /\ Planned(r) /\ Different(r)
  BY <1>1, Known DEF ContentInv
<1>3. pc'[r] = "lookup" /\ Same(r)
  BY <1>1, <1>2 DEF Shapes, Same
<1>4. Written(r) => Carried(r)'
  BY <1>1, <1>2, AllIsWritten DEF Carried
<1>5. Lone(r)' /\ Planned(r)'
  BY <1>1, <1>2, <1>3, <1>4 DEF Lone, Planned, Same, AfterPull, AfterSnapshot, First, AfterRow
<1>6. Different(r)'
  BY <1>1, <1>2, <1>3 DEF Different, Opening
<1>7. LastHolds'
  BY <1>3, NotYet DEF Quiet
<1> QED BY <1>1, <1>3, <1>5, <1>6, <1>7, ContentGoesOn DEF ContentInv, Branches

LEMMA CreateContent ==
  ASSUME RequestInv, ContentInv, NEW r \in Requesters, CreatePull(r)
  PROVE  ContentInv'
<1> DEFINE n == Len(pulls) + 1
           q == [req[r] EXCEPT !.pull = n]
<1>1. /\ pc[r] = "write" /\ req[r].todo = <<>> /\ req' = [req EXCEPT ![r] = q]
      /\ pc' = [pc EXCEPT ![r] = "lookup"] /\ UNCHANGED <<base, branch, rows, last, clean>>
  BY DEF CreatePull, Goto
<1>2. /\ Shapes /\ req[r] \in Reqs /\ req[r].content \in Contents /\ req[r].slug \in Slugs /\ Branches
      /\ Lone(r) /\ Planned(r) /\ Different(r)
  BY <1>1, Known DEF ContentInv
<1> HIDE DEF n
<1>3. q.alone = req[r].alone /\ q.event = req[r].event /\ q.slug = req[r].slug /\ q.content = req[r].content
  BY <1>2 DEF Reqs
<1> HIDE DEF q
<1>4. req'[r] = q /\ pc'[r] = "lookup" /\ Same(r)
  BY <1>1, <1>2, Replaced
<1>5. Written(r) => Carried(r)'
  BY <1>1, <1>2, <1>3, <1>4, AllIsWritten DEF Carried
<1>6. Lone(r)' /\ Planned(r)'
  BY <1>1, <1>2, <1>3, <1>4, <1>5 DEF Lone, Planned, Same, AfterPull, AfterSnapshot, First, AfterRow
<1>7. Different(r)'
  BY <1>1, <1>2, <1>3, <1>4 DEF Different, Opening
<1>8. LastHolds'
  BY <1>4, NotYet DEF Quiet
<1> QED BY <1>1, <1>4, <1>6, <1>7, <1>8, ContentGoesOn DEF ContentInv, Branches

\* The row is looked for, and made when there is none.
LEMMA RowContent ==
  ASSUME RequestInv, ContentInv, NEW r \in Requesters, FindRow(r) \/ InsertRow(r)
  PROVE  ContentInv'
<1>1. /\ pc[r] \in {"lookup", "insert"} /\ UNCHANGED <<base, branch, pulls, last, clean>>
  BY DEF FindRow, InsertRow, github
<1>2. /\ Shapes /\ req[r] \in Reqs /\ RequestIsSound(r) /\ Lone(r) /\ Different(r)
  BY <1>1, Known DEF ContentInv
<1>3. CASE pc' = [pc EXCEPT ![r] = "insert"] /\ UNCHANGED <<req, rows>>
  <2>1. pc'[r] = "insert" /\ Same(r)
    BY <1>2, <1>3 DEF Shapes, Same
  <2>2. Lone(r)' /\ Planned(r)'
    BY <1>1, <1>2, <1>3, <2>1 DEF Lone, Planned, Same, Carried, AfterPull, AfterSnapshot, First, AfterRow
  <2>3. Different(r)'
    BY <1>1, <1>2, <1>3, <2>1 DEF Different, Opening
  <2>4. LastHolds'
    BY <2>1, NotYet DEF Quiet
  <2> QED BY <1>1, <2>1, <2>2, <2>3, <2>4, ContentGoesOn DEF ContentInv, Branches
<1>4. ASSUME NEW event \in Events, pc' = [pc EXCEPT ![r] = "snapshot"], req' = [req EXCEPT ![r].event = event],
             event = "requested" =>
               \A i \in DOMAIN rows' : rows'[i].pull = req[r].pull =>
                 rows'[i].declares = req[r].content /\ rows'[i].revision = req[r].content
      PROVE  ContentInv'
  <2> DEFINE q == [req[r] EXCEPT !.event = event]
  <2>1. req' = [req EXCEPT ![r] = q]
    BY <1>4
  <2>2. /\ q.alone = req[r].alone /\ q.event = event /\ q.slug = req[r].slug /\ q.content = req[r].content
        /\ q.pull = req[r].pull
    BY <1>2 DEF Reqs
  <2> HIDE DEF q
  <2>3. req'[r] = q /\ pc'[r] = "snapshot" /\ Same(r)
    BY <1>2, <1>4, <2>1, Replaced
  <2>4. First(r)' => Declared(r)' /\ Revised(r)'
    BY <1>4, <2>2, <2>3 DEF First, Declared, Revised
  <2>5. Lone(r)' /\ Planned(r)'
    BY <1>1, <1>2, <2>2, <2>3, <2>4 DEF Lone, Planned, Same, Carried, AfterPull, AfterSnapshot
  <2>6. Different(r)'
    BY <1>1, <1>2, <2>2, <2>3 DEF Different, Opening
  <2>7. LastHolds'
    BY <2>3, NotYet DEF Quiet
  <2> QED BY <1>1, <2>3, <2>5, <2>6, <2>7, ContentGoesOn DEF ContentInv, Branches
<1>5. CASE RowsOf(req[r].pull) # {}
  <2>1. "re_reviewed" \in Events /\ "re_reviewed" # "requested"
    BY DEF Events
  <2> QED BY <1>4, <1>5, <2>1 DEF FindRow, InsertRow, Goto
<1>6. CASE RowsOf(req[r].pull) = {} /\ FindRow(r)
  BY <1>3, <1>6 DEF FindRow, Goto
<1>7. CASE RowsOf(req[r].pull) = {} /\ InsertRow(r)
  <2> DEFINE row == NewRow(r)
  <2>1. /\ rows' = Append(rows, row) /\ req' = [req EXCEPT ![r].event = "requested"]
        /\ pc' = [pc EXCEPT ![r] = "snapshot"]
    BY <1>7 DEF InsertRow, Goto
  <2>2. row \in RowRecords /\ row.declares = req[r].content /\ row.revision = req[r].content
    BY <1>1, <1>2 DEF NewRow, RowRecords, RequestIsSound, Reqs
  <2> HIDE DEF row
  <2>3. DOMAIN rows' = DOMAIN rows \cup {Len(rows) + 1} /\ rows'[Len(rows) + 1] = row
        /\ \A i \in DOMAIN rows : rows'[i] = rows[i]
    BY <1>2, <2>1, <2>2, Appended DEF Shapes
  <2>4. \A i \in DOMAIN rows : rows[i].pull # req[r].pull
    BY <1>7 DEF RowsOf
  <2>5. "requested" \in Events
    BY DEF Events
  <2> QED BY <1>4, <2>1, <2>2, <2>3, <2>4, <2>5
<1> QED BY <1>5, <1>6, <1>7

\* The snapshot, the declarations and the revision pair.
LEMMA RewriteContent ==
  ASSUME RequestInv, ContentInv, NEW r \in Requesters,
         AppendSnapshot(r) \/ UpdateDeclarations(r) \/ UpdateChangeRequest(r)
  PROVE  ContentInv'
<1> DEFINE c == req[r].content
           n == req[r].pull
<1>1. /\ pc[r] \in {"snapshot", "declare", "revise"} /\ UNCHANGED <<base, branch, pulls, req, last, clean>>
      /\ \E label \in AfterSnapshot : pc' = [pc EXCEPT ![r] = label]
  BY DEF AppendSnapshot, UpdateDeclarations, UpdateChangeRequest, github, Goto, AfterSnapshot
<1>2. /\ Shapes /\ req[r] \in Reqs /\ RequestIsSound(r) /\ Lone(r) /\ Different(r) /\ c \in Contents
      /\ req[r].event \in Events
  <2>1. pc[r] # "idle" /\ pc[r] \in AfterRow
    BY <1>1 DEF AfterRow
  <2> QED BY <2>1, Known DEF ContentInv, RequestIsSound
<1>3. rows \in Seq(RowRecords) /\ \A i \in DOMAIN rows : rows[i] \in RowRecords
  BY <1>2 DEF Shapes
<1>4. Same(r) /\ pc'[r] \in AfterSnapshot
  BY <1>1, <1>2 DEF Shapes, Same
<1>5. CASE AppendSnapshot(r)
  <2> DEFINE row == [i \in DOMAIN rows |-> [rows[i] EXCEPT !.snapshots = @ \cup {c}]]
  <2>1. UpdateRow(r, row)
    BY <1>5 DEF AppendSnapshot
  <2>2. \A i \in DOMAIN rows : /\ row[i] \in RowRecords /\ row[i].pull = rows[i].pull /\ row[i].slug = rows[i].slug
                               /\ row[i].declares = rows[i].declares /\ row[i].revision = rows[i].revision
                               /\ c \in row[i].snapshots
    BY <1>2, <1>3 DEF RowRecords
  <2> HIDE DEF row
  <2>3. DOMAIN rows' = DOMAIN rows
        /\ \A i \in DOMAIN rows : /\ rows'[i].pull = rows[i].pull
                                  /\ rows'[i] = IF rows[i].pull = n THEN row[i] ELSE rows[i]
    BY <1>3, <2>1, <2>2, RowsRewritten
  <2>4. Snapped(r)' /\ (Declared(r) => Declared(r)') /\ (Revised(r) => Revised(r)')
    BY <1>1, <2>2, <2>3 DEF Snapped, Declared, Revised
  <2>5. pc[r] = "snapshot" /\ pc'[r] \in {"event", "declare"} /\ (pc'[r] = "event" => req[r].event = "requested")
    BY <1>2, <1>5 DEF AppendSnapshot, Goto, Shapes
  <2>6. Lone(r)'
    BY <1>1, <1>2, <1>4, <2>4, <2>5 DEF Lone, Same, Carried, AfterPull, AfterSnapshot, First, AfterRow
  <2>7. Planned(r)' /\ Different(r)' /\ LastHolds'
    BY <1>1, <1>2, <2>5, NotYet DEF Planned, Different, Opening, Quiet
  <2> QED BY <1>1, <1>4, <2>6, <2>7, ContentGoesOn DEF ContentInv, Branches
<1>6. CASE UpdateDeclarations(r)
  <2> DEFINE row == [i \in DOMAIN rows |-> [rows[i] EXCEPT !.declares = c]]
  <2>1. UpdateRow(r, row)
    BY <1>6 DEF UpdateDeclarations
  <2>2. \A i \in DOMAIN rows : /\ row[i] \in RowRecords /\ row[i].pull = rows[i].pull /\ row[i].slug = rows[i].slug
                               /\ row[i].declares = c /\ row[i].revision = rows[i].revision
                               /\ row[i].snapshots = rows[i].snapshots
    BY <1>2, <1>3 DEF RowRecords
  <2> HIDE DEF row
  <2>3. DOMAIN rows' = DOMAIN rows
        /\ \A i \in DOMAIN rows : /\ rows'[i].pull = rows[i].pull
                                  /\ rows'[i] = IF rows[i].pull = n THEN row[i] ELSE rows[i]
    BY <1>3, <2>1, <2>2, RowsRewritten
  <2>4. (Snapped(r) => Snapped(r)') /\ Declared(r)' /\ (Revised(r) => Revised(r)')
    BY <1>1, <2>2, <2>3 DEF Snapped, Declared, Revised
  <2>5. pc[r] = "declare" /\ pc'[r] = "revise"
    BY <1>2, <1>6 DEF UpdateDeclarations, Goto, Shapes
  <2>6. Lone(r)'
    BY <1>1, <1>2, <1>4, <2>4, <2>5 DEF Lone, Same, Carried, AfterPull, AfterSnapshot, First, AfterRow
  <2>7. Planned(r)' /\ Different(r)' /\ LastHolds'
    BY <1>1, <1>2, <2>5, NotYet DEF Planned, Different, Opening, Quiet
  <2> QED BY <1>1, <1>4, <2>6, <2>7, ContentGoesOn DEF ContentInv, Branches
<1>7. CASE UpdateChangeRequest(r)
  <2> DEFINE row == [i \in DOMAIN rows |-> [rows[i] EXCEPT !.revision = c]]
  <2>1. UpdateRow(r, row)
    BY <1>7 DEF UpdateChangeRequest
  <2>2. \A i \in DOMAIN rows : /\ row[i] \in RowRecords /\ row[i].pull = rows[i].pull /\ row[i].slug = rows[i].slug
                               /\ row[i].declares = rows[i].declares /\ row[i].revision = c
                               /\ row[i].snapshots = rows[i].snapshots
    BY <1>2, <1>3 DEF RowRecords
  <2> HIDE DEF row
  <2>3. DOMAIN rows' = DOMAIN rows
        /\ \A i \in DOMAIN rows : /\ rows'[i].pull = rows[i].pull
                                  /\ rows'[i] = IF rows[i].pull = n THEN row[i] ELSE rows[i]
    BY <1>3, <2>1, <2>2, RowsRewritten
  <2>4. (Snapped(r) => Snapped(r)') /\ (Declared(r) => Declared(r)') /\ Revised(r)'
    BY <1>1, <2>2, <2>3 DEF Snapped, Declared, Revised
  <2>5. pc[r] = "revise" /\ pc'[r] = "event"
    BY <1>2, <1>7 DEF UpdateChangeRequest, Goto, Shapes
  <2>6. Lone(r)'
    BY <1>1, <1>2, <1>4, <2>4, <2>5 DEF Lone, Same, Carried, AfterPull, AfterSnapshot, First, AfterRow
  <2>7. Planned(r)' /\ Different(r)' /\ LastHolds'
    BY <1>1, <1>2, <2>5, NotYet DEF Planned, Different, Opening, Quiet
  <2> QED BY <1>1, <1>4, <2>6, <2>7, ContentGoesOn DEF ContentInv, Branches
<1> QED BY <1>5, <1>6, <1>7

\* The request is over: what it promised holds.
LEMMA EventContent ==
  ASSUME RequestInv, ContentInv, NEW r \in Requesters, AppendEvent(r)
  PROVE  ContentInv'
<1> DEFINE c == req[r].content
           n == req[r].pull
           row == [i \in DOMAIN rows |-> [rows[i] EXCEPT !.events = Append(@, req[r].event)]]
<1>1. /\ pc[r] = "event" /\ UNCHANGED <<base, branch, pulls, clean>> /\ UpdateRow(r, row)
      /\ req' = [req EXCEPT ![r] = Idle] /\ pc' = [pc EXCEPT ![r] = "idle"]
      /\ last' = IF req[r].alone THEN [content |-> c, pull |-> n] ELSE NoLast
  BY DEF AppendEvent, github, Goto
<1>2. /\ Shapes /\ req[r] \in Reqs /\ RequestIsSound(r) /\ Lone(r)
  BY <1>1, Known DEF ContentInv
<1>3. req'[r] = Idle /\ pc'[r] = "idle" /\ Same(r)
  BY <1>1, <1>2, Replaced
<1>4. Lone(r)' /\ Planned(r)' /\ Different(r)'
  BY <1>3 DEF Lone, Planned, Different
<1>5. Promised'
  <2>1. CASE ~req[r].alone
    BY <1>1, <1>2, <2>1 DEF Promised, IsOpen, NoLast, Shapes
  <2>2. CASE req[r].alone
    <3>1. Carried(r) /\ Snapped(r) /\ Declared(r) /\ Revised(r)
      BY <1>1, <1>2, <2>2 DEF Lone, AfterPull, AfterSnapshot
    <3>2. n # 0 /\ pulls[n].slug = req[r].slug /\ Stored(n)
      BY <1>1, <1>2 DEF RequestIsSound, AfterPull, AfterRow
    <3>3. PICK i \in DOMAIN rows : rows[i].pull = n
      BY <3>2 DEF Stored
    <3>4. rows[i] \in RowRecords
      BY <1>2 DEF Shapes
    <3>5. row[i] = [rows[i] EXCEPT !.events = Append(rows[i].events, req[r].event)]
      OBVIOUS
    <3> HIDE DEF row
    <3>6. DOMAIN rows' = DOMAIN rows /\ rows'[i] = row[i]
      BY <1>1, <3>3 DEF UpdateRow
    <3>7. /\ rows'[i].pull = n /\ rows'[i].declares = rows[i].declares /\ rows'[i].revision = rows[i].revision
          /\ rows'[i].snapshots = rows[i].snapshots
      BY <3>3, <3>4, <3>5, <3>6 DEF RowRecords
    <3>8. last'.content = c /\ last'.pull = n
      BY <1>1, <2>2
    <3>9. i \in RowsOf(last.pull)'
      BY <3>6, <3>7, <3>8 DEF RowsOf
    <3>10. /\ rows'[i].declares = last'.content /\ rows'[i].revision = last'.content
           /\ last'.content \in rows'[i].snapshots
      BY <3>1, <3>3, <3>7, <3>8 DEF Snapped, Declared, Revised
    <3>11. branch'[pulls'[last'.pull].slug] = Tree(last'.content)
      BY <1>1, <3>1, <3>2, <3>8 DEF Carried
    <3> QED BY <3>9, <3>10, <3>11 DEF Promised
  <2> QED BY <2>1, <2>2
<1> QED BY <1>1, <1>3, <1>4, <1>5, ContentGoesOn DEF ContentInv, Branches, LastHolds

\* There was nothing to promote, or a call fails: the last promise stands, or nothing is promised.
LEMMA EndContent ==
  ASSUME RequestInv, ContentInv, NEW r \in Requesters, NothingToPromote(r) \/ Fail(r)
  PROVE  ContentInv'
<1>1. /\ pc[r] # "idle" /\ UNCHANGED <<base, branch, pulls, rows>> /\ (clean' => clean)
      /\ pc' = [pc EXCEPT ![r] = "idle"] /\ \E q : req' = [req EXCEPT ![r] = q]
      /\ last' = NoLast \/ (pc[r] = "match" /\ UNCHANGED last)
  BY DEF NothingToPromote, Fail, Goto, github
<1>2. Shapes
  BY DEF RequestInv
<1>3. pc'[r] = "idle" /\ Same(r)
  BY <1>1, <1>2, Replaced
<1>4. Lone(r)' /\ Planned(r)' /\ Different(r)'
  BY <1>3 DEF Lone, Planned, Different
<1>5. LastHolds'
  <2>1. CASE last' = NoLast
    BY <1>1, <1>2, <2>1 DEF LastHolds, Promised, IsOpen, NoLast, Shapes
  <2>2. CASE pc[r] = "match" /\ UNCHANGED last
    BY <1>1, <1>3, <2>2 DEF ContentInv, LastHolds, Quiet, Same, Promised, IsOpen, RowsOf
  <2> QED BY <1>1, <2>1, <2>2
<1> QED BY <1>1, <1>3, <1>4, <1>5, ContentGoesOn DEF ContentInv, Branches

LEMMA StartContent ==
  ASSUME RequestInv, ContentInv, NEW r \in Requesters, Start(r)
  PROVE  ContentInv'
<1>0. PICK c \in Contents, declared \in Slugs : \E slug \in PriorSlug(declared) :
        req' = [q \in Requesters |->
                  IF q = r THEN [Idle EXCEPT !.content = c, !.slug = slug, !.alone = (Busy = {})]
                           ELSE [req[q] EXCEPT !.alone = FALSE]]
  BY DEF Start
<1>1. PICK slug \in PriorSlug(declared) :
        req' = [q \in Requesters |->
                  IF q = r THEN [Idle EXCEPT !.content = c, !.slug = slug, !.alone = (Busy = {})]
                           ELSE [req[q] EXCEPT !.alone = FALSE]]
  BY <1>0
<1>2. /\ pc[r] = "idle" /\ pc' = [pc EXCEPT ![r] = "find"] /\ UNCHANGED <<base, branch, pulls, rows, last>>
      /\ clean' = (clean /\ Busy = {})
  BY DEF Start, Goto, github
<1>3. pc'[r] = "find" /\ \A s \in Requesters \ {r} : pc'[s] = pc[s]
  BY <1>2 DEF RequestInv, Shapes
<1>4. req'[r].alone <=> Busy = {}
  BY <1>1 DEF Idle
<1>5. ASSUME NEW s \in Requesters \ {r} PROVE ~req'[s].alone /\ req'[s].todo = req[s].todo
  BY <1>1 DEF RequestInv, Shapes, Reqs
<1>6. ASSUME NEW s \in Requesters PROVE Lone(s)' /\ Planned(s)' /\ Different(s)'
  <2>1. CASE s = r
    BY <1>2, <1>3, <1>4, <2>1 DEF Lone, Planned, Different, Opening, Busy, AfterPull, AfterSnapshot, First, AfterRow
  <2>2. CASE s # r
    <3>1. Lone(s)'
      BY <1>5, <2>2 DEF Lone
    <3>2. Planned(s)'
      BY <1>3, <1>5, <2>2 DEF ContentInv, Planned, Pending
    <3>3. Different(s)'
      BY <1>2, <1>3, <2>2 DEF Different, Busy
    <3> QED BY <3>1, <3>2, <3>3
  <2> QED BY <2>1, <2>2
<1>7. LastHolds'
  BY <1>2, <1>3 DEF ContentInv, LastHolds, Quiet, Promised, IsOpen, RowsOf
<1> QED BY <1>2, <1>6, <1>7 DEF ContentInv, Branches

\* People on GitHub open no pull request and write on no promotion branch.
LEMMA PeopleContent ==
  ASSUME RequestInv, ContentInv, People
  PROVE  ContentInv'
<1>1. PICK n \in DOMAIN pulls : MarkReady(n) \/ MergePull(n) \/ ClosePull(n)
  BY DEF People
<1>2. Shapes /\ pulls \in Seq(PullRecords) /\ Branches
  BY DEF RequestInv, ContentInv, Shapes
<1>3. UNCHANGED <<branch, rows, pc, last, clean>> /\ IsOpen(n)
  BY <1>1 DEF MarkReady, MergePull, ClosePull
<1>4. /\ DOMAIN pulls' = DOMAIN pulls
      /\ \A m \in DOMAIN pulls : pulls'[m].slug = pulls[m].slug /\ (pulls'[m].state = "open" => pulls[m].state = "open")
  <2>1. pulls[n] \in PullRecords
    BY <1>2
  <2>2. CASE MarkReady(n)
    <3>1. pulls' = [pulls EXCEPT ![n] = [pulls[n] EXCEPT !.draft = FALSE]]
      BY <2>2 DEF MarkReady
    <3> QED BY <1>2, <2>1, <3>1 DEF PullRecords
  <2>3. CASE MergePull(n)
    <3>1. pulls' = [pulls EXCEPT ![n] = [pulls[n] EXCEPT !.state = "merged"]]
      BY <2>3 DEF MergePull
    <3> QED BY <1>2, <2>1, <3>1 DEF PullRecords
  <2>4. CASE ClosePull(n)
    <3>1. pulls' = [pulls EXCEPT ![n] = [pulls[n] EXCEPT !.state = "closed"]]
      BY <2>4 DEF ClosePull
    <3> QED BY <1>2, <2>1, <3>1 DEF PullRecords
  <2> QED BY <1>1, <2>2, <2>3, <2>4
<1>5. ASSUME NEW s \in Requesters
      PROVE  /\ req'[s].content = req[s].content /\ req'[s].slug = req[s].slug /\ req'[s].pull = req[s].pull
             /\ req'[s].todo = req[s].todo /\ req'[s].event = req[s].event /\ req'[s].alone = req[s].alone
  <2>1. CASE MarkReady(n)
    <3>1. req'[s] = IF req[s].pull = n THEN [req[s] EXCEPT !.raced = TRUE] ELSE req[s]
      BY <2>1 DEF MarkReady
    <3>2. req[s] \in Reqs
      BY <1>2 DEF Shapes
    <3> QED BY <3>1, <3>2 DEF Reqs
  <2>2. CASE MergePull(n) \/ ClosePull(n)
    BY <2>2 DEF MergePull, ClosePull
  <2> QED BY <1>1, <2>1, <2>2
<1>6. UNCHANGED base \/ base' = [base EXCEPT ![pulls[n].slug] = branch[pulls[n].slug]]
  BY <1>1 DEF MarkReady, MergePull, ClosePull
<1>7. Branches' /\ \A slug \in Slugs \ {pulls[n].slug} : base'[slug] = base[slug]
  BY <1>2, <1>3, <1>6 DEF Branches
<1>8. ASSUME NEW s \in Requesters PROVE Lone(s)' /\ Planned(s)' /\ Different(s)'
  <2>1. Lone(s) /\ Planned(s) /\ Different(s) /\ RequestIsSound(s)
    BY DEF ContentInv, RequestInv
  <2>2. Planned(s)' /\ (Written(s) => Written(s)') /\ (Carried(s) => Carried(s)')
    BY <1>3, <1>5, <2>1 DEF Planned, Pending, Written, Carried
  <2>3. (Snapped(s) => Snapped(s)') /\ (Declared(s) => Declared(s)') /\ (Revised(s) => Revised(s)') /\ (First(s)' => First(s))
    BY <1>3, <1>5 DEF Snapped, Declared, Revised, First
  <2>4. Lone(s)'
    BY <1>3, <1>5, <2>1, <2>2, <2>3 DEF Lone
  <2>5. OpenPulls(req[s].slug) = {} => OpenPulls(req[s].slug)' = {} /\ pulls[n].slug # req[s].slug
    BY <1>3, <1>4, <1>5 DEF OpenPulls, IsOpen
  <2>6. Different(s)'
    BY <1>3, <1>5, <1>7, <2>1, <2>5 DEF Different, Opening, RequestIsSound
  <2> QED BY <2>2, <2>4, <2>6
<1>9. LastHolds'
  BY <1>3, <1>4 DEF ContentInv, LastHolds, Promised, IsOpen, RowsOf
<1> QED BY <1>7, <1>8, <1>9 DEF ContentInv

LEMMA ContentStep ==
  RequestInv /\ ContentInv /\ [Next]_vars => ContentInv'
<1> SUFFICES ASSUME RequestInv, ContentInv, [Next]_vars PROVE ContentInv'
  OBVIOUS
<1>1. RequestInv'
  BY RequestStep
<1>2. ASSUME NEW r \in Requesters, Begin(r) \/ Retry(r) PROVE ContentInv'
  BY <1>2, StartContent DEF Begin, Retry
<1>3. ASSUME NEW r \in Requesters, Call(r) \/ MatchUnknown(r) \/ Fail(r) PROVE ContentInv'
  <2>1. CASE FindPull(r)
    BY <1>1, <2>1, FindPullContent
  <2>2. CASE NothingToPromote(r) \/ Fail(r)
    BY <2>2, EndContent
  <2>3. CASE SomethingToPromote(r) \/ MatchUnknown(r)
    BY <2>3, PlanContent
  <2>4. CASE ResetBranch(r) \/ WriteFile(r)
    BY <2>4, ResetContent, WriteContent
  <2>5. CASE Demote(r) \/ CreatePull(r)
    BY <2>5, DemoteContent, CreateContent
  <2>6. CASE FindRow(r) \/ InsertRow(r)
    BY <2>6, RowContent
  <2>7. CASE AppendSnapshot(r) \/ UpdateDeclarations(r) \/ UpdateChangeRequest(r)
    BY <2>7, RewriteContent
  <2>8. CASE AppendEvent(r)
    BY <2>8, EventContent
  <2> QED BY <1>3, <2>1, <2>2, <2>3, <2>4, <2>5, <2>6, <2>7, <2>8 DEF Call
<1>4. CASE People
  BY <1>4, PeopleContent
<1>5. CASE UNCHANGED vars
  BY <1>5 DEF vars, github, ContentInv, Branches, Lone, Written, Pending, Carried, Snapped, Declared, Revised,
              First, Planned, Different, Opening, OpenPulls, LastHolds, Promised, IsOpen, RowsOf
<1> QED BY <1>2, <1>3, <1>4, <1>5 DEF Next

LEMMA ContentInvHolds == Spec => []ContentInv
BY RequestInvHolds, ContentInit, ContentStep, PTL DEF Spec

\* After a request that ran alone, the pull request carries that content and nothing of an earlier
\* one, half-written, failed or mixed as it may have been, and the promotion says so with its
\* declarations, its revision pair and a snapshot (open_or_update_promotion, _persist_promotion).
THEOREM TheLastRequestCounts == Spec => []ResubmissionReplaces
<1>1. ContentInv => ResubmissionReplaces
  BY DEF ContentInv, LastHolds, Promised, ResubmissionReplaces, Busy, Quiet
<1> QED BY <1>1, ContentInvHolds, PTL

\* The pull requests are the same after any other step.
LEMMA OnlyCreationAdds ==
  ASSUME RequestInv, Next, \A r \in Requesters : ~CreatePull(r)
  PROVE  DOMAIN pulls' = DOMAIN pulls
<1>1. ASSUME NEW r \in Requesters, Begin(r) \/ Retry(r) \/ MatchUnknown(r) \/ Fail(r) PROVE UNCHANGED pulls
  BY <1>1 DEF Begin, Retry, Start, MatchUnknown, Fail, github
<1>2. ASSUME NEW r \in Requesters, Call(r) PROVE DOMAIN pulls' = DOMAIN pulls
  <2>1. CASE Demote(r)
    BY <2>1 DEF Demote
  <2>2. CASE ~Demote(r)
    BY <1>2, <2>2 DEF Call, FindPull, NothingToPromote, SomethingToPromote, ResetBranch, WriteFile, FindRow,
                      InsertRow, AppendSnapshot, UpdateDeclarations, UpdateChangeRequest, AppendEvent, github
  <2> QED BY <2>1, <2>2
<1>3. CASE People
  BY <1>3 DEF People, MarkReady, MergePull, ClosePull
<1> QED BY <1>1, <1>2, <1>3 DEF Next

\* While no request fails and none overlaps another, no pull request without a difference is opened
\* (the byte-identity guard of open_or_update_promotion).
THEOREM NothingIsOpenedForNothing == Spec => NoEmptyPull
<1> DEFINE Step == \A n \in DOMAIN pulls' \ DOMAIN pulls :
                     clean => branch'[pulls'[n].slug] # base'[pulls'[n].slug]
<1>1. RequestInv /\ ContentInv /\ [Next]_vars => [Step]_vars
  <2> SUFFICES ASSUME RequestInv, ContentInv, Next, NEW n \in DOMAIN pulls' \ DOMAIN pulls, clean
               PROVE  branch'[pulls'[n].slug] # base'[pulls'[n].slug]
    OBVIOUS
  <2>1. PICK r \in Requesters : CreatePull(r)
    BY OnlyCreationAdds
  <2>2. /\ pc[r] = "write" /\ req[r].todo = <<>> /\ req[r].pull = 0 /\ UNCHANGED <<base, branch>>
        /\ pulls' = Append(pulls, [slug |-> req[r].slug, state |-> "open", draft |-> TRUE])
    BY <2>1 DEF CreatePull
  <2>3. Shapes /\ Branches /\ req[r].content \in Contents /\ req[r].slug \in Slugs /\ Lone(r) /\ Different(r)
    BY <2>2, Known DEF ContentInv
  <2>4. Carried(r) /\ base[req[r].slug] # Tree(req[r].content)
    BY <2>2, <2>3, AllIsWritten DEF Different, Opening, Lone
  <2>5. pulls'[n].slug = req[r].slug
    <3>1. pulls \in Seq(PullRecords) /\ [slug |-> req[r].slug, state |-> "open", draft |-> TRUE] \in PullRecords
      BY <2>3 DEF Shapes, PullRecords
    <3>2. n = Len(pulls) + 1 /\ pulls'[n] = [slug |-> req[r].slug, state |-> "open", draft |-> TRUE]
      BY <2>2, <3>1, Appended
    <3> QED BY <3>2
  <2> QED BY <2>2, <2>4, <2>5 DEF Carried
<1>2. Spec => [][Step]_vars
  BY <1>1, RequestInvHolds, ContentInvHolds, PTL DEF Spec
<1> QED BY <1>2 DEF NoEmptyPull

=============================================================================
