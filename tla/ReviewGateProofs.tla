-------------------------- MODULE ReviewGateProofs --------------------------
(***************************************************************************)
(* Proofs about ReviewGate, for every set of definitions, rows, states of  *)
(* production and mappings, and every bound.                               *)
(***************************************************************************)
EXTENDS ReviewGate, TLAPS, WellFoundedInduction

-----------------------------------------------------------------------------
(* The checks of a definition.                                             *)

DocType ==
  [kind : {"genie", "dashboard"},
   places : SUBSET [ref : [catalog : Catalogs, table : STRING, more : Nat], prose : BOOLEAN,
                    dataset : STRING, parametrised : BOOLEAN],
   widgets : SUBSET (SUBSET STRING), benchmarks : Nat, pii : BOOLEAN]

LEMMA DocsAreTyped == Docs \subseteq DocType
BY DefinitionsAreSane DEF DocType

\* A place that the checks of a kind look at.
Scanned(doc, place) == doc.kind = "dashboard" => ~place.prose

Foreign(catalog) == catalog \notin {"dev", "prod", "PROD"}

\* The leaks of a definition.
LEMMA LeaksUnfolded ==
  ASSUME NEW doc
  PROVE  Leaks(doc) # {} <=> \E place \in doc.places : Scanned(doc, place) /\ Fold(place.ref.catalog) # "prod"
<1> DEFINE scan == {place \in doc.places : Scanned(doc, place)}
<1>1. ScanText(doc.places, IsDashboard(doc)) = scan
  BY DEF ScanText, IsDashboard, Scanned
<1>2. Leaks(doc) = {ref.catalog : ref \in {r \in Refs(scan) : Fold(r.catalog) # "prod"}}
  <2>1. {"prod"} \cup {Fold(c) : c \in {}} = {"prod"}
    OBVIOUS
  <2> QED BY <1>1, <2>1 DEF Leaks, Violations
<1>3. Leaks(doc) # {} <=> \E r \in Refs(scan) : Fold(r.catalog) # "prod"
  BY <1>2
<1>4. Refs(scan) = {place.ref : place \in scan}
  BY DEF Refs
<1> QED BY <1>3, <1>4

\* The plain rebind of a definition, by its fields.
ReboundPlace(place) == [place EXCEPT !.ref = RebindRef(place.ref, "dev", "prod")]

LEMMA ReboundFields ==
  ASSUME NEW doc \in DocType
  PROVE  /\ Rebound(doc).kind = doc.kind /\ Rebound(doc).widgets = doc.widgets
         /\ Rebound(doc).places = {ReboundPlace(place) : place \in doc.places}
BY DEF DocType, Rebound, Rebind, EachRef, ReboundPlace

LEMMA ReboundPlaceFields ==
  ASSUME NEW doc \in DocType, NEW place \in doc.places
  PROVE  /\ ReboundPlace(place).prose = place.prose /\ ReboundPlace(place).dataset = place.dataset
         /\ ReboundPlace(place).ref.catalog = IF place.ref.catalog = "dev" THEN "prod" ELSE place.ref.catalog
BY DEF DocType, RebindRef, ReboundPlace

LEMMA LeaksAreForeign ==
  ASSUME NEW doc \in DocType
  PROVE  Leaks(Rebound(doc)) # {} <=> \E place \in doc.places : Scanned(doc, place) /\ Foreign(place.ref.catalog)
<1>1. Leaks(Rebound(doc)) # {} <=>
        \E new \in Rebound(doc).places : Scanned(Rebound(doc), new) /\ Fold(new.ref.catalog) # "prod"
  BY LeaksUnfolded
<1>2. \A place \in doc.places :
        Scanned(Rebound(doc), ReboundPlace(place)) /\ Fold(ReboundPlace(place).ref.catalog) # "prod"
          <=> Scanned(doc, place) /\ Foreign(place.ref.catalog)
  BY ReboundFields, ReboundPlaceFields DEF Scanned, Foreign, Fold
<1>3. Rebound(doc).places = {ReboundPlace(place) : place \in doc.places}
  BY ReboundFields
<1> QED BY <1>1, <1>2, <1>3

\* The rebind moves no wiring.
LEMMA ReboundWiring ==
  ASSUME NEW doc \in DocType
  PROVE  Defined(Rebound(doc)) = Defined(doc) /\ Referenced(Rebound(doc)) = Referenced(doc)
<1>1. Rebound(doc).places = {ReboundPlace(place) : place \in doc.places}
  BY ReboundFields
<1>2. \A place \in doc.places : /\ ReboundPlace(place).prose = place.prose
                                /\ ReboundPlace(place).dataset = place.dataset
  BY ReboundPlaceFields
<1>3. Defined(Rebound(doc)) = Defined(doc)
  <2>1. \A name : name \in Defined(doc) <=> \E place \in doc.places : ~place.prose /\ name = place.dataset
    BY DEF Defined, Queries
  <2>2. \A name : name \in Defined(Rebound(doc)) <=>
          \E new \in Rebound(doc).places : ~new.prose /\ name = new.dataset
    BY DEF Defined, Queries
  <2>3. \A name : name \in Defined(Rebound(doc)) <=> name \in Defined(doc)
    BY <1>1, <1>2, <2>1, <2>2
  <2> QED BY <2>3
<1> QED BY <1>3, ReboundFields DEF Referenced

-----------------------------------------------------------------------------
(* Findings.                                                               *)

LEMMA HasUnion == ASSUME NEW S, NEW T, NEW severity
                  PROVE  Has(S \cup T, severity) <=> Has(S, severity) \/ Has(T, severity)
BY DEF Has

LEMMA HasRaised ==
  ASSUME NEW condition \in BOOLEAN, NEW rule, NEW severity, NEW s
  PROVE  Has(Raise(condition, rule, severity), s) <=> condition /\ severity = s
<1>1. CASE condition
  <2>1. Raise(condition, rule, severity) = {Finding(rule, severity)}
    BY <1>1 DEF Raise
  <2>2. Finding(rule, severity).severity = severity
    BY DEF Finding
  <2> QED BY <1>1, <2>1, <2>2 DEF Has
<1>2. CASE ~condition
  BY <1>2 DEF Has, Raise
<1> QED BY <1>1, <1>2

\* Of the checks of a dashboard only the wiring and an empty page block.
LEMMA DashboardBlocks ==
  ASSUME NEW doc \in DocType
  PROVE  /\ Has(CheckDashboard(Rebound(doc)), "BLOCKER") <=>
              doc.widgets = {} \/ \E widget \in doc.widgets : ~(widget \subseteq Defined(doc))
         /\ ~Has(CheckDashboard(Rebound(doc)), "OPERATIONAL")
<1> DEFINE d == Rebound(doc)
           wide == Referenced(d) \ Defined(d) # {}
           prose == Violations(ProseText(d.places), "prod", {}) # {}
           bare == d.widgets = {}
           spare == Defined(d) \ Referenced(d) # {}
<1>1. wide <=> \E widget \in doc.widgets : ~(widget \subseteq Defined(doc))
  BY ReboundWiring DEF Referenced
<1>2. d.widgets = doc.widgets
  BY ReboundFields
<1>3. CheckDashboard(d) = Raise(bare, "DASH-03", "BLOCKER") \cup Raise(wide, "DASH-01", "BLOCKER")
                            \cup Raise(spare, "DASH-02", "SUGGESTION") \cup Raise(prose, "DASH-04", "SUGGESTION")
  BY DEF CheckDashboard
<1>4. {wide, prose, bare, spare} \subseteq BOOLEAN
  OBVIOUS
<1>5. bare <=> doc.widgets = {}
  BY <1>2
<1> HIDE DEF d, wide, prose, bare, spare
<1>6. \A s : Has(CheckDashboard(d), s) <=> ((bare \/ wide) /\ "BLOCKER" = s) \/ ((spare \/ prose) /\ "SUGGESTION" = s)
  <2> TAKE s
  <2>1. /\ Has(Raise(bare, "DASH-03", "BLOCKER"), s) <=> bare /\ "BLOCKER" = s
        /\ Has(Raise(wide, "DASH-01", "BLOCKER"), s) <=> wide /\ "BLOCKER" = s
        /\ Has(Raise(spare, "DASH-02", "SUGGESTION"), s) <=> spare /\ "SUGGESTION" = s
        /\ Has(Raise(prose, "DASH-04", "SUGGESTION"), s) <=> prose /\ "SUGGESTION" = s
    BY <1>4, HasRaised
  <2>2. Has(CheckDashboard(d), s) <=>
          \/ Has(Raise(bare, "DASH-03", "BLOCKER"), s) \/ Has(Raise(wide, "DASH-01", "BLOCKER"), s)
          \/ Has(Raise(spare, "DASH-02", "SUGGESTION"), s) \/ Has(Raise(prose, "DASH-04", "SUGGESTION"), s)
    BY <1>3 DEF Has
  <2> QED BY <2>1, <2>2, Zenon
<1>7. Has(CheckDashboard(d), "BLOCKER") <=> bare \/ wide
  BY <1>6
<1>8. ~Has(CheckDashboard(d), "OPERATIONAL")
  BY <1>6
<1> QED BY <1>1, <1>5, <1>7, <1>8, Zenon DEF d

LEMMA DeterministicBlocks ==
  ASSUME NEW doc \in DocType, NEW audience
  PROVE  /\ Has(Deterministic(doc, audience), "BLOCKER") <=> Broken(doc) \/ Has(audience, "BLOCKER")
         /\ Has(Deterministic(doc, audience), "OPERATIONAL") <=> Has(audience, "OPERATIONAL")
<1> DEFINE leaks == Leaks(Rebound(doc)) # {}
           wiring == IF IsDashboard(doc) THEN CheckDashboard(Rebound(doc)) ELSE {}
<1>1. \A s : Has(Deterministic(doc, audience), s) <=>
               (leaks /\ s = "BLOCKER") \/ Has(audience, s) \/ Has(PiiFindings(doc), s) \/ Has(wiring, s)
  <2> TAKE s
  <2> DEFINE env == Raise(leaks, "ENV-01", "BLOCKER")
  <2>1. Deterministic(doc, audience) = env \cup audience \cup PiiFindings(doc) \cup wiring
    BY DEF Deterministic
  <2>2. Has(env, s) <=> leaks /\ "BLOCKER" = s
    BY HasRaised, Zenon
  <2> HIDE DEF env, wiring
  <2>3. Has(env \cup audience \cup PiiFindings(doc) \cup wiring, s) <=>
          Has(env, s) \/ Has(audience, s) \/ Has(PiiFindings(doc), s) \/ Has(wiring, s)
    BY DEF Has
  <2> QED BY <2>1, <2>2, <2>3
<1>2. \A s : Has(PiiFindings(doc), s) => s = "SUGGESTION"
  BY DEF Has, PiiFindings, Raise, Finding
<1>3. ~Has(wiring, "OPERATIONAL") /\ (Has(wiring, "BLOCKER") <=>
          doc.kind = "dashboard" /\ (doc.widgets = {} \/ \E widget \in doc.widgets : ~(widget \subseteq Defined(doc))))
  BY DashboardBlocks DEF Has, IsDashboard
<1>4. leaks <=> \E place \in doc.places : Scanned(doc, place) /\ Foreign(place.ref.catalog)
  BY LeaksAreForeign
<1>5. Broken(doc) <=> leaks \/ Has(wiring, "BLOCKER")
  BY <1>3, <1>4 DEF Broken, Scanned, Foreign
<1> HIDE DEF leaks, wiring
<1> QED BY <1>1, <1>2, <1>3, <1>5

\* The rule on the number of benchmarks, of some rows.
TooFew(doc, row) ==
  /\ doc.kind = "genie" /\ row.enabled
  /\ doc.benchmarks < (IF row.benchmarks = Unusable THEN DefaultBenchmarks ELSE row.benchmarks)

LEMMA TooFewUnfolded ==
  ASSUME NEW doc \in DocType, NEW rows \in RowSets
  PROVE  doc.benchmarks < Minimum(doc, rows) <=> TooFew(doc, rows["EVAL-01"])
<1>1. doc.benchmarks \in Nat /\ doc.kind \in {"genie", "dashboard"}
  BY DEF DocType
<1>2. rows["EVAL-01"].benchmarks \in Nat \cup {Unusable} /\ rows["EVAL-01"].enabled \in BOOLEAN
  BY RowsAreSane
<1> DEFINE row == rows["EVAL-01"]
           least == IF row.benchmarks = Unusable THEN DefaultBenchmarks ELSE row.benchmarks
<1>3. MinBenchmarks(row) = IF row.enabled THEN least ELSE 0
  <2>1. row.benchmarks \in Nat \/ row.benchmarks = -1
    BY <1>2 DEF Unusable
  <2>2. CASE row.enabled
    <3>1. MinBenchmarks(row) = IF row.benchmarks < 0 THEN DefaultBenchmarks ELSE row.benchmarks
      BY <2>2 DEF MinBenchmarks
    <3> QED BY <2>1, <2>2, <3>1 DEF Unusable
  <2>3. CASE ~row.enabled
    BY <2>3 DEF MinBenchmarks
  <2> QED BY <2>2, <2>3
<1>4. Minimum(doc, rows) = IF doc.kind = "genie" /\ row.enabled THEN least ELSE 0
  BY <1>1, <1>3 DEF Minimum, IsDashboard
<1>5. TooFew(doc, row) <=> doc.kind = "genie" /\ row.enabled /\ doc.benchmarks < least
  BY DEF TooFew
<1> HIDE DEF row, least
<1>6. CASE doc.kind = "genie" /\ row.enabled
  BY <1>4, <1>5, <1>6 DEF row
<1>7. CASE ~(doc.kind = "genie" /\ row.enabled)
  BY <1>1, <1>4, <1>5, <1>7 DEF row
<1> QED BY <1>6, <1>7

LEMMA SeverityOfRow ==
  ASSUME NEW rows \in RowSets
  PROVE  /\ EvalSeverity(rows["EVAL-01"]) = "BLOCKER" <=> rows["EVAL-01"].severity \in {None, "BLOCKER"}
         /\ EvalSeverity(rows["EVAL-01"]) \in Severities
<1>1. rows["EVAL-01"].severity \in Severities \cup {None}
  BY RowsAreSane
<1> QED BY <1>1 DEF EvalSeverity, Set, Severities, None

\* What the review has found once the model has answered.
Found(rv) ==
  FinalizeFindings(rv.llm, Deterministic(rv.doc, rv.audience), rv.doc.benchmarks,
                   Minimum(rv.doc, rv.rows), EvalSeverity(rv.rows["EVAL-01"]))

\* Whatever the model answers, the findings that block are those the definition deserves and,
\* of the model's own, the ones about other rules.
LEMMA FoundBlocks ==
  ASSUME NEW rv, rv.doc \in DocType, rv.rows \in RowSets, \A f \in rv.llm : f.severity \in Severities
  PROVE  LET row == rv.rows["EVAL-01"]
             due == \/ Broken(rv.doc) \/ Has(rv.audience, "BLOCKER")
                    \/ TooFew(rv.doc, row) /\ row.severity \in {None, "BLOCKER"}
         IN /\ due => Has(Found(rv), "BLOCKER")
            /\ Has(Found(rv), "BLOCKER") => due \/ Has(rv.llm, "BLOCKER")
            /\ Has(Found(rv), "OPERATIONAL") <=> Has(rv.audience, "OPERATIONAL")
            /\ Leaks(Rebound(rv.doc)) # {} => Has(Found(rv), "BLOCKER")
<1> DEFINE owners == Deterministic(rv.doc, rv.audience)
                       \cup Raise(TooFew(rv.doc, rv.rows["EVAL-01"]), "EVAL-01", EvalSeverity(rv.rows["EVAL-01"]))
           own == {f \in rv.llm : \A g \in owners : g.rule # f.rule}
<1>1. Found(rv) = owners \cup own
  <2>1. rv.doc.benchmarks < Minimum(rv.doc, rv.rows) <=> TooFew(rv.doc, rv.rows["EVAL-01"])
    BY TooFewUnfolded
  <2>2. Raise(rv.doc.benchmarks < Minimum(rv.doc, rv.rows), "EVAL-01", EvalSeverity(rv.rows["EVAL-01"]))
          = Raise(TooFew(rv.doc, rv.rows["EVAL-01"]), "EVAL-01", EvalSeverity(rv.rows["EVAL-01"]))
    BY <2>1 DEF Raise
  <2> QED BY <2>2 DEF Found, FinalizeFindings
<1>2. \A s : Has(own, s) => Has(rv.llm, s) /\ s \in Severities
  BY DEF Has
<1>3. \A s : Has(owners, s) <=> \/ Has(Deterministic(rv.doc, rv.audience), s)
                                \/ TooFew(rv.doc, rv.rows["EVAL-01"]) /\ EvalSeverity(rv.rows["EVAL-01"]) = s
  <2>1. TooFew(rv.doc, rv.rows["EVAL-01"]) \in BOOLEAN
    BY DEF TooFew
  <2> QED BY <2>1, HasUnion, HasRaised
<1>4. "OPERATIONAL" \notin Severities
  BY DEF Severities
<1>5. Leaks(Rebound(rv.doc)) # {} => Broken(rv.doc)
  BY LeaksAreForeign DEF Broken, Scanned, Foreign
<1> HIDE DEF owners, own
<1>6. \A s : Has(Found(rv), s) <=> Has(owners, s) \/ Has(own, s)
  BY <1>1, HasUnion
<1> QED BY <1>2, <1>3, <1>4, <1>5, <1>6, DeterministicBlocks, SeverityOfRow

-----------------------------------------------------------------------------
(* The review, step by step.                                               *)

Counts == [correct : Nat, incorrect : Nat, review : Nat]

\* A review is a record of these fields, and its run and the pull request of theirs.
Shape ==
  /\ review = [at |-> review.at, rows |-> review.rows, doc |-> review.doc, audience |-> review.audience,
               llm |-> review.llm, findings |-> review.findings, eval |-> review.eval,
               gate |-> review.gate, polls |-> review.polls, read |-> review.read]
  /\ run = [at |-> run.at, questions |-> run.questions, result |-> run.result]
  /\ pr = [content |-> pr.content, mapping |-> pr.mapping, label |-> pr.label]

\* What it has read is there.
Inputs ==
  /\ space \in Docs
  /\ review.rows \in RowSets
  /\ review.at \in {"audience", "model", "create", "poll", "details", "assistant", "decided"} => review.doc \in Docs
  /\ review.at \in {"idle", "export", "audience"} => review.audience = {}

\* From the model's answer to the assistant's, the findings are those of the definition and of
\* the answer ...
Grounded ==
  review.at \in {"create", "poll", "details", "assistant"} =>
    /\ \A f \in review.llm : f.severity \in Severities
    /\ review.findings = Found(review)

\* ... and the gate is decided over these, the verdict and the assistant's.
Decided ==
  review.at = "decided" =>
    /\ \A f \in review.llm : f.severity \in Severities
    /\ \E answers \in {"no assistant", "yes", "fails"} :
         review.findings = Found(review) \cup Raise(review.eval = "block", "EVAL-RUN", "BLOCKER")
                             \cup Assistant(answers)
    /\ review.gate = DecideGate(review.findings)

\* A verdict is of the run that has ended, and of what was read of it.
Judgement ==
  /\ run.result \in Counts /\ run.questions \in Nat
  /\ review.at = "details" => run.at = "DONE"
  /\ review.eval # "advisory" =>
       /\ review.at \in {"assistant", "decided"} /\ run.at = "DONE"
       /\ review.read \in Parts(run.result)
       /\ review.eval = Verdict(run.result, review.read, Threshold(review.rows["EVAL-01"]))

\* A gate that lets the definition pass stands over one that deserves it.
Passable(doc, row) == ~Broken(doc) /\ (TooFew(doc, row) => row.severity \notin {None, "BLOCKER"})

Committed ==
  review.at \in {"label", "comment"} /\ review.gate \in {"success", "neutral"} =>
    Passable(pr.content, review.rows["EVAL-01"])

GateInv == Shape /\ Inputs /\ Grounded /\ Decided /\ Judgement /\ Committed

\* Everything of a new review is as Init has it.
LEMMA NewReviewFields ==
  /\ NewReview.at = "idle" /\ NewReview.audience = {} /\ NewReview.eval = "advisory"
  /\ NewReview.rows \in RowSets
  /\ NewReview = [at |-> NewReview.at, rows |-> NewReview.rows, doc |-> NewReview.doc,
                  audience |-> NewReview.audience, llm |-> NewReview.llm, findings |-> NewReview.findings,
                  eval |-> NewReview.eval, gate |-> NewReview.gate, polls |-> NewReview.polls,
                  read |-> NewReview.read]
BY RowsAreSane DEF NewReview

LEMMA NoRunFields == NoRun.result \in Counts /\ NoRun.questions \in Nat /\ NoRun.at = "none"
                     /\ NoRun = [at |-> NoRun.at, questions |-> NoRun.questions, result |-> NoRun.result]
BY DEF NoRun, Unread, Counts

LEMMA GateInit == Init => GateInv
<1> SUFFICES ASSUME Init PROVE GateInv
  OBVIOUS
<1>1. review = NewReview /\ run = NoRun /\ pr = NoPull /\ space \in Docs
  BY DEF Init
<1>2. Shape
  BY <1>1, NewReviewFields, NoRunFields DEF Shape, NoPull
<1> QED BY <1>1, <1>2, NewReviewFields, NoRunFields DEF GateInv, Inputs, Grounded, Decided, Judgement, Committed

\* A step that starts over, or leaves the review with nothing decided.
LEMMA GateReset ==
  ASSUME GateInv, UNCHANGED <<space, pr>>, run' = NoRun \/ run' = run,
         \E rows \in RowSets, at \in {"idle", "export"} :
           review' \in {NewReview, [NewReview EXCEPT !.at = at, !.rows = rows]}
  PROVE  GateInv'
<1>1. /\ review'.at \in {"idle", "export"} /\ review'.audience = {} /\ review'.eval = "advisory"
      /\ review'.rows \in RowSets
      /\ review' = [at |-> review'.at, rows |-> review'.rows, doc |-> review'.doc,
                  audience |-> review'.audience, llm |-> review'.llm, findings |-> review'.findings,
                  eval |-> review'.eval, gate |-> review'.gate, polls |-> review'.polls,
                  read |-> review'.read]
  BY NewReviewFields
<1>2. Shape' /\ run'.result \in Counts /\ run'.questions \in Nat
  BY <1>1, NoRunFields DEF GateInv, Shape, Judgement
<1> QED BY <1>1, <1>2 DEF GateInv, Inputs, Grounded, Decided, Judgement, Committed

\* A step that does not touch the review, its run and what was committed.
LEMMA GateFrame ==
  ASSUME GateInv, UNCHANGED <<review, run, pr>>, space' \in Docs
  PROVE  GateInv'
BY DEF GateInv, Shape, Inputs, Grounded, Decided, Judgement, Committed, Found

LEMMA GateExport == ASSUME GateInv, Export PROVE GateInv'
<1>1. PICK next \in {"audience", "model"} : review' = [review EXCEPT !.at = next, !.doc = space]
  BY DEF Export
<1>2. /\ review'.at = next /\ review'.doc = space /\ review.at = "export"
      /\ UNCHANGED <<review.rows, review.audience, review.eval, space, run, pr>>
  BY <1>1 DEF GateInv, Shape, Export, At, World
<1>3. Shape'
  BY <1>1, <1>2 DEF GateInv, Shape
<1> QED BY <1>2, <1>3 DEF GateInv, Inputs, Grounded, Decided, Judgement, Committed

LEMMA GateCheckAudience == ASSUME GateInv, CheckAudienceInApp PROVE GateInv'
<1>1. PICK down :
        review' = [review EXCEPT !.at = "model",
                     !.audience = CheckAudience(Rebound(review.doc), Audience, prod, down)]
  BY DEF CheckAudienceInApp
<1>2. /\ review'.at = "model" /\ review.at = "audience"
      /\ UNCHANGED <<review.rows, review.doc, review.eval, space, run, pr>>
  BY <1>1 DEF GateInv, Shape, CheckAudienceInApp, At, World
<1>3. Shape'
  BY <1>1, <1>2 DEF GateInv, Shape
<1> QED BY <1>2, <1>3 DEF GateInv, Inputs, Grounded, Decided, Judgement, Committed

LEMMA GateAskModel == ASSUME GateInv, AskModel PROVE GateInv'
<1>1. PICK answer : 
        review' = [review EXCEPT
            !.at       = IF IsDashboard(review.doc) THEN "assistant" ELSE "create",
            !.llm      = ParseFindings(answer),
            !.findings = FinalizeFindings(ParseFindings(answer), Deterministic(review.doc, review.audience),
                           review.doc.benchmarks, Minimum(review.doc, review.rows),
                           EvalSeverity(review.rows["EVAL-01"]))]
  BY DEF AskModel
<1>2. /\ review'.at \in {"assistant", "create"} /\ review.at = "model" /\ review'.llm = ParseFindings(answer)
      /\ review'.findings = FinalizeFindings(ParseFindings(answer), Deterministic(review.doc, review.audience),
                           review.doc.benchmarks, Minimum(review.doc, review.rows),
                           EvalSeverity(review.rows["EVAL-01"]))
      /\ UNCHANGED <<review.rows, review.doc, review.audience, review.eval, space, run, pr>>
  BY <1>1 DEF GateInv, Shape, AskModel, At, World
<1>3. Shape'
  BY <1>1, <1>2 DEF GateInv, Shape
<1>4. Grounded'
  BY <1>2 DEF Grounded, Found, ParseFindings
<1> QED BY <1>2, <1>3, <1>4 DEF GateInv, Inputs, Decided, Judgement, Committed

\* Going on, without a verdict or with a run to wait for.
LEMMA GateGoesOn ==
  ASSUME GateInv, review.at \in {"create", "poll"}, Shape', UNCHANGED space,
         UNCHANGED <<review.rows, review.doc, review.audience, review.eval, review.llm, review.findings>>,
         review'.at \in {"poll", "details", "assistant"},
         run'.result \in Counts, run'.questions \in Nat, review'.at = "details" => run'.at = "DONE"
  PROVE  GateInv'
<1>1. review.eval = "advisory"
  BY DEF GateInv, Judgement
<1>2. Found(review)' = Found(review)
  BY DEF Found
<1> QED BY <1>1, <1>2 DEF GateInv, Inputs, Grounded, Decided, Judgement, Committed

LEMMA GateEvalRun == ASSUME GateInv, CreateRun \/ Poll \/ EvalFails PROVE GateInv'
<1>1. UNCHANGED <<space, pr>> /\ review.at \in {"create", "poll"}
  BY DEF CreateRun, Poll, EvalFails, World, At
<1>2. run.result \in Counts /\ run.questions \in Nat /\ space.benchmarks \in Nat /\ Shape
  BY DocsAreTyped DEF GateInv, Inputs, DocType, Judgement
<1>3. CASE Advisory
  <2>1. review' = [review EXCEPT !.at = "assistant", !.polls = 0] /\ run' = NoRun
    BY <1>3 DEF Advisory
  <2>2. /\ review'.at = "assistant" /\ run'.result \in Counts /\ run'.questions \in Nat /\ Shape'
        /\ UNCHANGED <<review.rows, review.doc, review.audience, review.eval, review.llm, review.findings>>
    BY <1>1, <1>2, <2>1, NoRunFields DEF Shape
  <2> QED BY <1>1, <2>2, GateGoesOn
<1>4. CASE CreateRun /\ ~Advisory
  <2>1. /\ review' = [review EXCEPT !.at = "poll"]
        /\ run' = [at |-> "running", questions |-> space.benchmarks, result |-> Unread]
    BY <1>4 DEF CreateRun
  <2>2. /\ review'.at = "poll" /\ run'.result \in Counts /\ run'.questions \in Nat /\ Shape'
        /\ UNCHANGED <<review.rows, review.doc, review.audience, review.eval, review.llm, review.findings>>
    BY <1>1, <1>2, <2>1 DEF Shape, Unread, Counts
  <2> QED BY <1>1, <2>2, GateGoesOn
<1>5. CASE Poll /\ run.at = "DONE"
  <2>1. review' = [review EXCEPT !.at = "details", !.polls = 0] /\ run' = run
    BY <1>5 DEF Poll
  <2>2. /\ review'.at = "details" /\ run'.at = "DONE" /\ run'.result \in Counts /\ run'.questions \in Nat /\ Shape'
        /\ UNCHANGED <<review.rows, review.doc, review.audience, review.eval, review.llm, review.findings>>
    BY <1>1, <1>2, <1>5, <2>1 DEF Shape
  <2> QED BY <1>1, <2>2, GateGoesOn
<1>6. CASE Poll /\ run.at = "running" /\ ~TimeIsOver
  <2> DEFINE polls == IF review.polls < MaxPolls THEN review.polls + 1 ELSE review.polls
  <2>1. review' = [review EXCEPT !.polls = polls] /\ run' = run /\ review.at = "poll"
    BY <1>6 DEF Poll, At
  <2> HIDE DEF polls
  <2>2. /\ review'.at = "poll" /\ run'.result \in Counts /\ run'.questions \in Nat /\ Shape'
        /\ UNCHANGED <<review.rows, review.doc, review.audience, review.eval, review.llm, review.findings>>
    BY <1>1, <1>2, <2>1 DEF Shape
  <2> QED BY <1>1, <2>2, GateGoesOn
<1>7. CASE Poll /\ run.at # "DONE" /\ ~(run.at = "running" /\ ~TimeIsOver)
  BY <1>3, <1>7 DEF Poll
<1>8. CASE EvalFails
  BY <1>3, <1>8 DEF EvalFails, OnEvalOutage
<1> QED BY <1>3, <1>4, <1>5, <1>6, <1>7, <1>8

LEMMA GateRunEnds == ASSUME GateInv, RunEnds PROVE GateInv'
<1>1. review.eval = "advisory" /\ review.at # "details" /\ UNCHANGED <<space, review, pr>>
  BY DEF GateInv, Judgement, RunEnds, World
<1>2. run'.result \in Counts /\ run'.questions \in Nat
      /\ run' = [at |-> run'.at, questions |-> run'.questions, result |-> run'.result]
  <2>1. CASE run' = [run EXCEPT !.at = "EVALUATION_FAILED"]
    BY <2>1 DEF GateInv, Shape, Judgement
  <2>2. ASSUME NEW result \in Results(run.questions), run' = [run EXCEPT !.at = "DONE", !.result = result]
        PROVE  /\ run'.result \in Counts /\ run'.questions \in Nat
               /\ run' = [at |-> run'.at, questions |-> run'.questions, result |-> run'.result]
    <3>1. run.questions \in Nat
      BY DEF GateInv, Judgement
    <3>2. result \in Counts
      BY <3>1 DEF Results, Counts
    <3> QED BY <2>2, <3>1, <3>2 DEF GateInv, Shape
  <2> QED BY <2>1, <2>2 DEF RunEnds
<1>3. Shape' /\ Inputs' /\ Judgement'
  BY <1>1, <1>2 DEF GateInv, Shape, Inputs, Judgement
<1>4. Found(review)' = Found(review)
  BY <1>1 DEF Found
<1> QED BY <1>1, <1>3, <1>4 DEF GateInv, Grounded, Decided, Committed

LEMMA GateJudged == ASSUME GateInv, ReadDetails \/ DetailsFail PROVE GateInv'
<1>1. PICK read \in Parts(run.result) :
        review' = [review EXCEPT !.at = "assistant", !.read = read,
                     !.eval = Verdict(run.result, read, Threshold(review.rows["EVAL-01"]))]
  <2>1. run.result \in Parts(run.result)
    BY DEF GateInv, Judgement, Counts, Parts
  <2> QED BY <2>1 DEF ReadDetails, DetailsFail, Judged
<1>2. UNCHANGED <<space, run, pr>> /\ review.at = "details"
  BY DEF ReadDetails, DetailsFail, World, At
<1>3. /\ review'.at = "assistant" /\ review'.read = read
      /\ review'.eval = Verdict(run.result, read, Threshold(review.rows["EVAL-01"]))
      /\ UNCHANGED <<review.rows, review.doc, review.audience, review.llm, review.findings>>
  BY <1>1 DEF GateInv, Shape
<1>4. Shape'
  BY <1>1, <1>2, <1>3 DEF GateInv, Shape
<1>5. Found(review)' = Found(review)
  BY <1>3 DEF Found
<1> QED BY <1>2, <1>3, <1>4, <1>5 DEF GateInv, Inputs, Grounded, Decided, Judgement, Committed

LEMMA GateAskAssistant == ASSUME GateInv, AskAssistant PROVE GateInv'
<1>1. PICK answers \in {"no assistant", "yes", "fails"} :
        LET findings == review.findings \cup Raise(review.eval = "block", "EVAL-RUN", "BLOCKER")
                            \cup Assistant(answers)
        IN review' = [review EXCEPT !.at = "decided", !.findings = findings, !.gate = DecideGate(findings)]
  BY DEF AskAssistant
<1>2. UNCHANGED <<space, run, pr>> /\ review.at = "assistant"
  BY DEF AskAssistant, World, At
<1>3. /\ review'.at = "decided"
      /\ review'.findings = review.findings \cup Raise(review.eval = "block", "EVAL-RUN", "BLOCKER")
                              \cup Assistant(answers)
      /\ review'.gate = DecideGate(review'.findings)
      /\ UNCHANGED <<review.rows, review.doc, review.audience, review.llm, review.eval, review.read>>
  BY <1>1 DEF GateInv, Shape
<1>4. Shape'
  BY <1>1, <1>2 DEF GateInv, Shape
<1>5. review.findings = Found(review) /\ Found(review)' = Found(review)
  BY <1>2, <1>3 DEF Found, GateInv, Grounded
<1>6. Decided'
  BY <1>2, <1>3, <1>5 DEF GateInv, Grounded, Decided
<1> QED BY <1>2, <1>3, <1>4, <1>6 DEF GateInv, Inputs, Grounded, Judgement, Committed

\* What a decided gate says of the findings.
LEMMA GateOfFindings ==
  ASSUME NEW findings
  PROVE  /\ DecideGate(findings) = "operational_failure" <=> Has(findings, "OPERATIONAL")
         /\ DecideGate(findings) = "failure" <=> Has(findings, "BLOCKER") /\ ~Has(findings, "OPERATIONAL")
         /\ DecideGate(findings) \in Conclusions
<1>1. Has(findings, "BLOCKER") => findings # {}
  BY DEF Has
<1>2. Has(findings, "OPERATIONAL") => findings # {}
  BY DEF Has
<1> QED BY <1>1, <1>2 DEF DecideGate, Conclusions

LEMMA OfTheAssistant ==
  ASSUME NEW answers \in {"no assistant", "yes", "fails"}
  PROVE  ~Has(Assistant(answers), "BLOCKER") /\ ~Has(Assistant(answers), "OPERATIONAL")
<1>1. CASE answers = "no assistant"
  BY <1>1 DEF Assistant, Has, Finding
<1>2. CASE answers = "yes"
  BY <1>2 DEF Assistant, Has, Finding
<1>3. CASE answers = "fails"
  BY <1>3 DEF Assistant, Has, Finding
<1> QED BY <1>1, <1>2, <1>3

\* What the gate of a review that has decided stands for.
LEMMA GateMeans ==
  ASSUME GateInv, review.at = "decided"
  PROVE  LET row == review.rows["EVAL-01"]
             due == \/ Broken(review.doc) \/ Has(review.audience, "BLOCKER")
                    \/ TooFew(review.doc, row) /\ row.severity \in {None, "BLOCKER"}
         IN /\ due \/ review.eval = "block" => review.gate \in {"failure", "operational_failure"}
            /\ review.gate = "failure" => due \/ Has(review.llm, "BLOCKER") \/ review.eval = "block"
            /\ review.gate = "operational_failure" <=> Has(review.audience, "OPERATIONAL")
<1>1. review.doc \in DocType /\ review.rows \in RowSets /\ \A f \in review.llm : f.severity \in Severities
  BY DocsAreTyped DEF GateInv, Inputs, Decided
<1>2. PICK answers \in {"no assistant", "yes", "fails"} :
        review.findings = Found(review) \cup Raise(review.eval = "block", "EVAL-RUN", "BLOCKER")
                             \cup Assistant(answers)
  BY DEF GateInv, Decided
<1> DEFINE missed == Raise(review.eval = "block", "EVAL-RUN", "BLOCKER")
<1>3. /\ Has(missed, "BLOCKER") <=> review.eval = "block"
      /\ ~Has(missed, "OPERATIONAL")
  BY HasRaised
<1>7. review.findings = Found(review) \cup missed \cup Assistant(answers)
  BY <1>2
<1> HIDE DEF missed
<1>4. \A s : Has(review.findings, s) <=> Has(Found(review), s) \/ Has(missed, s) \/ Has(Assistant(answers), s)
  BY <1>7 DEF Has
<1>5. /\ Has(review.findings, "BLOCKER") <=> Has(Found(review), "BLOCKER") \/ review.eval = "block"
      /\ Has(review.findings, "OPERATIONAL") <=> Has(Found(review), "OPERATIONAL")
  BY <1>3, <1>4, OfTheAssistant
<1>6. /\ review.gate = "operational_failure" <=> Has(review.findings, "OPERATIONAL")
      /\ review.gate = "failure" <=> Has(review.findings, "BLOCKER") /\ ~Has(review.findings, "OPERATIONAL")
  BY GateOfFindings DEF GateInv, Decided
<1> QED BY <1>1, <1>5, <1>6, FoundBlocks

LEMMA GateCommit == ASSUME GateInv, Commit PROVE GateInv'
<1>1. PICK mapping \in Mappings : pr' = [pr EXCEPT !.content = review.doc, !.mapping = mapping]
  BY DEF Commit
<1>2. /\ review' = [NewReview EXCEPT !.at = "label", !.rows = review.rows, !.gate = review.gate]
      /\ run' = NoRun /\ space' = space /\ review.at = "decided"
  BY DEF Commit, World, At
<1>3. /\ review'.at = "label" /\ review'.rows = review.rows /\ review'.gate = review.gate
      /\ review'.eval = "advisory" /\ pr'.content = review.doc
  BY <1>1, <1>2, NewReviewFields DEF GateInv, Shape
<1>4. Shape'
  BY <1>1, <1>2, NewReviewFields, NoRunFields DEF GateInv, Shape
<1>5. Committed'
  BY <1>2, <1>3, GateMeans DEF Committed, Passable
<1> QED BY <1>2, <1>3, <1>4, <1>5, NoRunFields DEF GateInv, Inputs, Grounded, Decided, Judgement

LEMMA GateLabel == ASSUME GateInv, Label \/ LabelFails PROVE GateInv'
<1>1. /\ review' = [review EXCEPT !.at = "comment"] /\ UNCHANGED <<space, run>> /\ review.at = "label"
      /\ pr' = pr \/ \E label : pr' = [pr EXCEPT !.label = label]
  BY Zenon DEF Label, LabelFails, World, At
<1>2. review'.at = "comment" /\ UNCHANGED <<review.rows, review.gate, review.eval>>
  BY <1>1 DEF GateInv, Shape
<1>3. pr' = [content |-> pr'.content, mapping |-> pr'.mapping, label |-> pr'.label] /\ pr'.content = pr.content
  BY <1>1 DEF GateInv, Shape
<1>4. Shape'
  BY <1>1, <1>3 DEF GateInv, Shape
<1> QED BY <1>1, <1>2, <1>3, <1>4 DEF GateInv, Inputs, Grounded, Decided, Judgement, Committed

LEMMA GateStep == GateInv /\ [Next]_vars => GateInv'
<1> SUFFICES ASSUME GateInv, [Next]_vars PROVE GateInv'
  OBVIOUS
<1>1. CASE Start
  BY <1>1, GateReset DEF Start, World
<1>2. CASE CallFails \/ Answer \/ Comment
  <2>1. UNCHANGED <<space, pr>> /\ review' = NewReview /\ (run' = NoRun \/ run' = run)
    BY <1>2 DEF CallFails, Answer, Comment, World
  <2> QED BY <2>1, GateReset, RowsAreSane
<1>3. CASE Export
  BY <1>3, GateExport
<1>4. CASE CheckAudienceInApp
  BY <1>4, GateCheckAudience
<1>5. CASE AskModel
  BY <1>5, GateAskModel
<1>6. CASE CreateRun \/ Poll \/ EvalFails
  BY <1>6, GateEvalRun
<1>7. CASE RunEnds
  BY <1>7, GateRunEnds
<1>8. CASE ReadDetails \/ DetailsFail
  BY <1>8, GateJudged
<1>9. CASE AskAssistant
  BY <1>9, GateAskAssistant
<1>10. CASE Commit
  BY <1>10, GateCommit
<1>11. CASE Label \/ LabelFails
  BY <1>11, GateLabel
<1>12. CASE Jobs \/ Change \/ UNCHANGED vars
  <2>1. UNCHANGED <<review, run, pr>> /\ space' \in Docs
    BY <1>12 DEF Jobs, RenderJob, AudienceJob, EvalRunJob, SqlJob, JobsAgain, Change, World, vars, GateInv, Inputs
  <2> QED BY <2>1, GateFrame
<1> QED BY <1>1, <1>2, <1>3, <1>4, <1>5, <1>6, <1>7, <1>8, <1>9, <1>10, <1>11, <1>12 DEF Next, ReviewStep

-----------------------------------------------------------------------------
(* The properties.                                                         *)

LEMMA GateAlways == Spec => []GateInv
BY GateInit, GateStep, PTL DEF Spec

\* A gate that lets a definition pass stands over one that deserves it: finalize_findings gives
\* every rule that the code checks itself to its own finding, and the model's answer cannot
\* soften it; the commit takes what was reviewed, not what the resource has become meanwhile
\* (review_core.py:347).
THEOREM PassedMeansSound == Spec => []BrokenIsBlocked
<1>1. GateInv => BrokenIsBlocked
  <2> SUFFICES ASSUME GateInv, Gated, review.gate \in {"success", "neutral"}
               PROVE  /\ ~Broken(Shown)
                      /\ TooFewBenchmarks(Shown) => review.rows["EVAL-01"].severity \notin {None, "BLOCKER"}
                      /\ review.eval # "block"
    BY DEF BrokenIsBlocked
  <2>1. \A doc : TooFewBenchmarks(doc) <=> TooFew(doc, review.rows["EVAL-01"])
    BY DEF TooFewBenchmarks, TooFew
  <2>2. CASE review.at = "decided"
    BY <2>1, <2>2, GateMeans DEF Shown, At
  <2>3. CASE review.at \in {"label", "comment"}
    BY <2>1, <2>3 DEF GateInv, Committed, Passable, Judgement, Shown, At
  <2> QED BY <2>2, <2>3 DEF Gated
<1> QED BY <1>1, GateAlways, PTL

\* The verdict of a run, where it was read completely or not at all.
LEMMA VerdictOfAll ==
  ASSUME GateInv, review.eval # "advisory", AllRead
  PROVE  /\ review.eval \in {"pass", "block"}
         /\ review.eval = "pass" <=> ~Missed
<1> DEFINE row == review.rows["EVAL-01"]
           wanted == IF row.threshold = Unusable THEN DefaultThreshold ELSE row.threshold
<1>1. Threshold(row) = wanted /\ wanted \in Nat
  <2>1. row.threshold \in 0..100 \cup {Unusable}
    BY RowsAreSane DEF GateInv, Inputs
  <2> QED BY <2>1 DEF Threshold, Unusable, DefaultThreshold
<1>2. /\ run.result.correct \in Nat /\ run.result.incorrect \in Nat /\ run.result.review \in Nat
      /\ review.read.correct \in 0..run.result.correct /\ review.read.incorrect \in 0..run.result.incorrect
      /\ review.read.review \in 0..run.result.review
  BY DEF GateInv, Judgement, Counts, Parts
<1> DEFINE counted == IF Questions(review.read) = 0 THEN run.result ELSE review.read
<1>3. Questions(counted) = Questions(run.result) /\ counted.correct = run.result.correct
  <2>1. CASE Questions(review.read) = 0
    BY <2>1
  <2>2. CASE Questions(review.read) # 0 /\ Questions(review.read) = Questions(run.result)
    BY <1>2, <2>2 DEF Questions
  <2> QED BY <2>1, <2>2 DEF AllRead
<1>4. review.eval = DecideEval(counted.correct, Questions(counted), wanted)
  BY <1>1 DEF GateInv, Judgement, Verdict, Passed
<1>5. Missed <=> 100 * run.result.correct < wanted * Questions(run.result)
  BY DEF Missed
<1> HIDE DEF wanted, counted
<1>6. review.eval = DecideEval(run.result.correct, Questions(run.result), wanted)
  BY <1>3, <1>4
<1> QED BY <1>5, <1>6 DEF DecideEval

\* The verdict of an eval-run is that of the run's own counters whenever every detail or none was
\* read, for every number of questions and every configured threshold (eval_gate.py:213).
THEOREM VerdictsAreHonest == Spec => []VerdictIsOfTheRun
<1>1. GateInv => VerdictIsOfTheRun
  BY VerdictOfAll DEF VerdictIsOfTheRun
<1> QED BY <1>1, GateAlways, PTL

\* The steps of the timeline that are red.
LEMMA RedUnfolded ==
  ASSUME NEW violations, NEW conclusion, NEW evalStatus, NEW kind, NEW findings
  PROVE  RedSteps(violations, conclusion, evalStatus, kind, findings) # {} <=>
           \/ violations # {} \/ conclusion = "failure"
           \/ kind = "genie" /\ evalStatus = "block"
           \/ kind # "genie" /\ \E f \in findings : /\ f.rule \in {"DASH-01", "DASH-02", "DASH-03", "DASH-04"}
                                                    /\ f.severity = "BLOCKER"
BY DEF RedSteps

LEMMA TimelineMeans == ASSUME GateInv, review.at = "decided" PROVE TimelineAgrees
<1> DEFINE wired == \E f \in review.findings : /\ f.rule \in {"DASH-01", "DASH-02", "DASH-03", "DASH-04"}
                                               /\ f.severity = "BLOCKER"
           red == RedSteps(Leaks(Rebound(review.doc)), review.gate, review.eval, review.doc.kind, review.findings)
<1>1. red # {} <=> \/ Leaks(Rebound(review.doc)) # {} \/ review.gate = "failure"
                   \/ review.doc.kind = "genie" /\ review.eval = "block"
                   \/ review.doc.kind # "genie" /\ wired
  BY RedUnfolded
<1>2. Leaks(Rebound(review.doc)) # {} => Broken(review.doc)
  BY LeaksAreForeign, DocsAreTyped DEF Broken, Scanned, Foreign, GateInv, Inputs
<1>3. wired => review.gate \in {"failure", "operational_failure"}
  BY GateOfFindings DEF Has, GateInv, Decided
<1> HIDE DEF wired, red
<1>4. /\ red # {} => review.gate \in {"failure", "operational_failure"}
      /\ review.gate = "failure" => red # {}
  BY <1>1, <1>2, <1>3, GateMeans
<1> QED BY <1>4 DEF TimelineAgrees, red

\* Nobody is blocked by an outage: a failure names a defect, and an operational failure a lookup that
\* failed; the timeline, which is derived from other facts, agrees (eval_gate.py:3, app_logic.py:688).
THEOREM OutagesBlameNobody == Spec => []OutageNeverBlocks
<1>1. GateInv => OutageNeverBlocks
  <2> SUFFICES ASSUME GateInv, review.at = "decided"
               PROVE  /\ review.gate = "failure" =>
                           \/ Broken(review.doc) \/ TooFewBenchmarks(review.doc)
                           \/ Has(review.audience, "BLOCKER") \/ Has(review.llm, "BLOCKER")
                           \/ review.eval = "block" /\ (AllRead => Missed)
                      /\ review.gate = "operational_failure" <=> Has(review.audience, "OPERATIONAL")
                      /\ TimelineAgrees
    BY DEF OutageNeverBlocks, At
  <2>1. review.eval = "block" => (AllRead => Missed)
    BY VerdictOfAll
  <2>2. TooFewBenchmarks(review.doc) <=> TooFew(review.doc, review.rows["EVAL-01"])
    BY DEF TooFewBenchmarks, TooFew
  <2> QED BY <2>1, <2>2, GateMeans, TimelineMeans
<1> QED BY <1>1, GateAlways, PTL

\* A missing principal or table is named only when production lacks one at that moment, whatever
\* lookups fail: no outage is taken for an answer (audience_check.py:4).
THEOREM BlameNamesTheMissing == Spec => BlameIsDeserved
<1> DEFINE Fair == review.at = "audience" /\ Has(review'.audience, "BLOCKER") =>
                     ~(Audience \subseteq prod.people) \/ ~(TablesOf(Rebound(review.doc)) \subseteq prod.tables)
<1>1. GateInv /\ [Next]_vars => [Fair]_vars
  <2> SUFFICES ASSUME GateInv, [Next]_vars, review.at = "audience", Has(review'.audience, "BLOCKER")
               PROVE  ~(Audience \subseteq prod.people) \/ ~(TablesOf(Rebound(review.doc)) \subseteq prod.tables)
    OBVIOUS
  <2>1. review' # review
    BY DEF GateInv, Inputs, Has
  <2>2. CheckAudienceInApp
    BY <2>1 DEF Next, ReviewStep, Jobs, Start, Export, AskModel, CreateRun, Poll, ReadDetails, AskAssistant,
         Answer, Commit, Label, Comment, CallFails, EvalFails, DetailsFail, LabelFails, RunEnds, RenderJob,
         AudienceJob, EvalRunJob, SqlJob, JobsAgain, Change, vars, At
  <2>3. PICK down : review' = [review EXCEPT !.at = "model",
                                 !.audience = CheckAudience(Rebound(review.doc), Audience, prod, down)]
    BY <2>2 DEF CheckAudienceInApp
  <2>4. Has(CheckAudience(Rebound(review.doc), Audience, prod, down), "BLOCKER")
    BY <2>3 DEF GateInv, Shape
  <2> DEFINE real  == Real(Audience, prod, down)
             there == There(Rebound(review.doc), prod, down)
  <2>5. ("directory" \notin down /\ Audience # real)
          \/ ("catalog" \notin down /\ TablesOf(Rebound(review.doc)) # there)
    BY <2>4 DEF CheckAudience, Has, Raise, Finding
  <2>6. "directory" \notin down => real = {p \in Audience : p \in prod.people}
    BY DEF Real
  <2>7. "catalog" \notin down => there = {t \in TablesOf(Rebound(review.doc)) : t \in prod.tables}
    BY DEF There
  <2> QED BY <2>5, <2>6, <2>7
<1>2. [Fair]_vars => [At("audience") /\ Has(review'.audience, "BLOCKER") =>
       ~(Audience \subseteq prod.people) \/ ~(TablesOf(Rebound(review.doc)) \subseteq prod.tables)]_vars
  BY DEF At
<1> HIDE DEF Fair
<1> QED BY <1>1, <1>2, GateAlways, PTL DEF Spec, BlameIsDeserved

-----------------------------------------------------------------------------
(* The table mapping.  It is a recursive function: that there is one, and  *)
(* what it yields, is shown by induction, for which the library's theorems *)
(* would need an operator as their parameter; here the parameter is a set. *)

LEMMA SmallestNat == ASSUME NEW T \in SUBSET Nat, T # {} PROVE \E x \in T : \A y \in T : ~(y < x)
<1> DEFINE R == {ss \in Nat \X Nat : ss[1] < ss[2]}
<1>1. IsWellFoundedOn(R, Nat)
  BY NatLessThanWellFounded DEF OpToRel
<1>2. \A x, y \in Nat : y < x => <<y, x>> \in R
  OBVIOUS
<1> HIDE DEF R
<1>3. PICK x \in T : \A y \in T : ~(<<y, x>> \in R)
  BY <1>1, WFMin
<1> QED BY <1>2, <1>3

LEMMA Induct == ASSUME NEW T, 0 \in T, \A n \in Nat : n \in T => n + 1 \in T PROVE Nat \subseteq T
<1> SUFFICES ASSUME Nat \ T # {} PROVE FALSE
  OBVIOUS
<1>1. PICK x \in Nat \ T : \A y \in Nat \ T : ~(y < x)
  BY SmallestNat
<1>2. x # 0 /\ x - 1 \in Nat /\ x - 1 < x /\ (x - 1) + 1 = x
  BY <1>1
<1> QED BY <1>1, <1>2

\* A function that starts with a and goes on by the steps of F; there is one.
StepsOf(N, S) == [1..N -> [S -> S]]
Follows(g, a, F, N, S) == g \in [0..N -> S] /\ g[0] = a /\ \A n \in 1..N : g[n] = F[n][g[n - 1]]

LEMMA Recursion ==
  ASSUME NEW S, NEW a \in S, NEW N \in Nat, NEW F \in StepsOf(N, S)
  PROVE  \E g : Follows(g, a, F, N, S)
<1> USE DEF StepsOf
<1> DEFINE Solves(g, m) == g \in [0..m -> S] /\ g[0] = a /\ \A n \in 1..m : g[n] = F[n][g[n - 1]]
           T == {m \in Nat : m <= N => \E g : Solves(g, m)}
<1>1. 0 \in T
  <2>1. Solves([n \in 0..0 |-> a], 0)
    OBVIOUS
  <2> QED BY <2>1
<1>2. ASSUME NEW m \in Nat, m \in T PROVE m + 1 \in T
  <2> SUFFICES ASSUME m + 1 <= N PROVE \E g : Solves(g, m + 1)
    OBVIOUS
  <2>1. PICK g : Solves(g, m)
    BY <1>2
  <2> DEFINE more == [n \in 0..(m + 1) |-> IF n <= m THEN g[n] ELSE F[m + 1][g[m]]]
  <2>2. g[m] \in S /\ m + 1 \in 1..N
    BY <2>1
  <2>3. F[m + 1][g[m]] \in S
    BY <2>2
  <2>4. more \in [0..(m + 1) -> S] /\ more[0] = a
    BY <2>1, <2>3
  <2>5. ASSUME NEW n \in 1..(m + 1) PROVE more[n] = F[n][more[n - 1]]
    <3>1. more[n - 1] = g[n - 1]
      OBVIOUS
    <3>2. CASE n <= m
      BY <2>1, <3>1, <3>2
    <3>3. CASE n = m + 1
      BY <3>1, <3>3
    <3> QED BY <3>2, <3>3
  <2> QED BY <2>4, <2>5
<1> HIDE DEF T
<1>3. N \in T
  BY <1>1, <1>2, Induct
<1> QED BY <1>3 DEF T, Follows

TableRefs == [catalog : Catalogs, table : STRING, more : Nat]
PlaceType == [ref : TableRefs, prose : BOOLEAN, dataset : STRING, parametrised : BOOLEAN]
PairType == [source : TableRefs, target : TableRefs]
MappingType == Seq(PairType)

\* One substitution, of a reference and of every place.
SubstituteRef(mapping, n, ref) ==
  Substitute(ref, RebindRef(mapping[n].source, "dev", "prod"), mapping[n].target)

SubstitutePlace(mapping, n, place) == [place EXCEPT !.ref = SubstituteRef(mapping, n, place.ref)]

LEMMA SubstituteKeeps ==
  ASSUME NEW mapping \in MappingType, NEW n \in 1..Len(mapping), NEW place \in PlaceType
  PROVE  /\ SubstitutePlace(mapping, n, place) \in PlaceType
         /\ SubstitutePlace(mapping, n, place).prose = place.prose
         /\ SubstitutePlace(mapping, n, place).dataset = place.dataset
<1>1. mapping[n] \in PairType
  BY DEF MappingType
<1> DEFINE source == mapping[n].source
           target == mapping[n].target
           ref == place.ref
           pattern == RebindRef(source, "dev", "prod")
<1>2. source \in TableRefs /\ target \in TableRefs /\ ref \in TableRefs
  BY <1>1 DEF PairType, PlaceType
<1> HIDE DEF source, target, ref
<1>3. pattern \in TableRefs
  BY <1>2 DEF RebindRef, TableRefs, Catalogs
<1> HIDE DEF pattern
<1>4. Substitute(ref, pattern, target) \in TableRefs
  BY <1>2, <1>3 DEF Substitute, Matches, TableRefs
<1>5. SubstituteRef(mapping, n, place.ref) \in TableRefs
  BY <1>4 DEF SubstituteRef, source, target, ref, pattern
<1> QED BY <1>5 DEF SubstitutePlace, PlaceType

\* The datasets that are queried.
Queried(places) == {place.dataset : place \in {p \in places : ~p.prose}}

LEMMA MappingKeepsDatasets ==
  ASSUME NEW places \in SUBSET PlaceType, NEW mapping \in MappingType
  PROVE  Queried(ApplyTableMapping(places, mapping, "dev", "prod")) = Queried(places)
<1> DEFINE all(n, before) == {SubstitutePlace(mapping, n, place) : place \in before}
           IsApplied(g) == g = [n \in 0..Len(mapping) |-> IF n = 0 THEN places ELSE all(n, g[n - 1])]
           applied == CHOOSE g : IsApplied(g)
<1>1. ApplyTableMapping(places, mapping, "dev", "prod") = applied[Len(mapping)]
  BY DEF ApplyTableMapping, EachRef, SubstitutePlace, SubstituteRef
<1>2. Len(mapping) \in Nat
  BY DEF MappingType
<1>3. ASSUME NEW n \in 1..Len(mapping), NEW before \in SUBSET PlaceType
      PROVE  all(n, before) \in SUBSET PlaceType /\ Queried(all(n, before)) = Queried(before)
  <2>1. \A place \in before : /\ SubstitutePlace(mapping, n, place) \in PlaceType
                              /\ SubstitutePlace(mapping, n, place).prose = place.prose
                              /\ SubstitutePlace(mapping, n, place).dataset = place.dataset
    BY SubstituteKeeps
  <2>2. \A name : name \in Queried(before) <=> \E place \in before : ~place.prose /\ name = place.dataset
    BY DEF Queried
  <2>3. \A name : name \in Queried(all(n, before)) <=> \E place \in all(n, before) : ~place.prose /\ name = place.dataset
    BY DEF Queried
  <2>4. \A name : name \in Queried(all(n, before)) <=> name \in Queried(before)
    BY <2>1, <2>2, <2>3
  <2> QED BY <2>1, <2>4
<1>4. \E g : IsApplied(g)
  <2> DEFINE S == SUBSET PlaceType
             F == [n \in 1..Len(mapping) |-> [before \in S |-> all(n, before)]]
  <2>1. F \in StepsOf(Len(mapping), S) /\ places \in S
    BY <1>3 DEF StepsOf
  <2> HIDE DEF S, F
  <2>2. PICK g : Follows(g, places, F, Len(mapping), S)
    BY <1>2, <2>1, Recursion
  <2> HIDE DEF all
  <2>3. ASSUME NEW n \in 1..Len(mapping) PROVE g[n] = all(n, g[n - 1])
    <3>1. g[n - 1] \in S /\ g[n] = F[n][g[n - 1]]
      BY <1>2, <2>2 DEF Follows
    <3>2. F[n][g[n - 1]] = all(n, g[n - 1])
      BY <3>1 DEF F
    <3> QED BY <3>1, <3>2
  <2>4. IsApplied(g)
    BY <1>2, <2>2, <2>3 DEF Follows
  <2> QED BY <2>4
<1>5. IsApplied(applied)
  BY <1>4
<1> HIDE DEF applied, all
<1>6. applied[0] = places /\ \A n \in 1..Len(mapping) : applied[n] = all(n, applied[n - 1])
  BY <1>2, <1>5
<1> DEFINE T == {n \in Nat : n <= Len(mapping) =>
                               applied[n] \in SUBSET PlaceType /\ Queried(applied[n]) = Queried(places)}
<1>7. 0 \in T
  BY <1>6
<1>8. ASSUME NEW n \in Nat, n \in T PROVE n + 1 \in T
  <2> SUFFICES ASSUME n + 1 <= Len(mapping)
               PROVE  applied[n + 1] \in SUBSET PlaceType /\ Queried(applied[n + 1]) = Queried(places)
    OBVIOUS
  <2>1. applied[n + 1] = all(n + 1, applied[n])
    BY <1>2, <1>6
  <2>2. applied[n] \in SUBSET PlaceType /\ Queried(applied[n]) = Queried(places)
    BY <1>2, <1>8
  <2> QED BY <1>2, <1>3, <2>1, <2>2
<1> HIDE DEF T
<1>9. Len(mapping) \in T
  BY <1>2, <1>7, <1>8, Induct
<1> QED BY <1>1, <1>2, <1>9 DEF T

-----------------------------------------------------------------------------
(* The jobs.                                                               *)

\* The checks of RenderJob that need nothing but the rendered definition.
OfflineExit(built) == IF IsDashboard(built) THEN DashboardExit(built) ELSE EvalExit(built, CiFloor)

\* The jobs work on what was committed, and past the first one it was rendered and found sound.
JobsInv ==
  /\ ci = [at |-> ci.at, built |-> ci.built]
  /\ ci.at # "none" => pr.content \in Docs /\ pr.mapping \in Mappings
  /\ ci.at \in {"audience", "quality"} =>
       /\ ci.built = Rendered(pr.content, pr.mapping)
       /\ RenderExit(pr.content, pr.mapping) = 0
       /\ OfflineExit(ci.built) = 0

LEMMA JobsInit == Init => JobsInv
BY DEF Init, JobsInv, NoJobs

LEMMA JobsKeep ==
  ASSUME JobsInv, UNCHANGED <<pr.content, pr.mapping>>, ci' = ci \/ \E at \in {"quality", "green", "red"} :
                    ci.at \in {"audience", "quality"} /\ ci' = [ci EXCEPT !.at = at]
  PROVE  JobsInv'
BY DEF JobsInv

LEMMA JobsStep == GateInv /\ JobsInv /\ [Next]_vars => JobsInv'
<1> SUFFICES ASSUME GateInv, JobsInv, [Next]_vars PROVE JobsInv'
  OBVIOUS
<1>1. CASE Commit
  <2>1. PICK mapping \in Mappings : pr' = [pr EXCEPT !.content = review.doc, !.mapping = mapping]
    BY <1>1 DEF Commit
  <2>2. pr'.content \in Docs /\ pr'.mapping \in Mappings
    BY <1>1, <2>1 DEF Commit, At, GateInv, Shape, Inputs
  <2>3. ci' = [at |-> "render", built |-> NoDoc]
    BY <1>1 DEF Commit, NoJobs
  <2> QED BY <2>2, <2>3 DEF JobsInv
<1>2. CASE RenderJob
  <2>1. UNCHANGED pr /\ ci.at = "render"
    BY <1>2 DEF RenderJob, Job
  <2> DEFINE built == Rendered(pr.content, pr.mapping)
             green == RenderExit(pr.content, pr.mapping) = 0 /\ OfflineExit(built) = 0
  <2>2. ci' = IF green THEN [at |-> "audience", built |-> built] ELSE [NoJobs EXCEPT !.at = "red"]
    BY <1>2 DEF RenderJob, OfflineExit
  <2>3. CASE green
    <3>1. ci'.at = "audience" /\ ci'.built = built /\ ci' = [at |-> ci'.at, built |-> ci'.built]
      BY <2>2, <2>3
    <3> QED BY <2>1, <2>3, <3>1 DEF JobsInv
  <2>4. CASE ~green
    <3>1. ci' = [at |-> "red", built |-> NoDoc]
      BY <2>2, <2>4 DEF NoJobs
    <3> QED BY <2>1, <3>1 DEF JobsInv
  <2> QED BY <2>3, <2>4
<1>3. CASE AudienceJob \/ EvalRunJob \/ SqlJob
  <2>1. UNCHANGED pr /\ ci.at \in {"audience", "quality"}
    BY <1>3 DEF AudienceJob, EvalRunJob, SqlJob, Job
  <2>2. \E at \in {"quality", "green", "red"} : ci' = [ci EXCEPT !.at = at]
    BY <1>3 DEF AudienceJob, EvalRunJob, SqlJob, Ends
  <2> QED BY <2>1, <2>2, JobsKeep
<1>4. CASE JobsAgain
  <2>1. ci' = [at |-> "render", built |-> NoDoc] /\ UNCHANGED pr /\ ci.at = "red"
    BY <1>4 DEF JobsAgain, NoJobs, Job
  <2> QED BY <2>1 DEF JobsInv
<1>5. CASE Label
  <2>1. ci' = ci /\ pr' = [pr EXCEPT !.label = Blocked(review.gate)]
    BY <1>5 DEF Label
  <2>2. UNCHANGED <<pr.content, pr.mapping>>
    BY <2>1 DEF GateInv, Shape
  <2> QED BY <2>1, <2>2, JobsKeep
<1>6. CASE UNCHANGED <<pr, ci>>
  BY <1>6, JobsKeep
<1>7. CASE ~Commit /\ ~RenderJob /\ ~AudienceJob /\ ~EvalRunJob /\ ~SqlJob /\ ~JobsAgain /\ ~Label
  <2>1. UNCHANGED <<pr, ci>>
    BY <1>7 DEF Next, ReviewStep, Jobs, Start, Export, CheckAudienceInApp, AskModel, CreateRun, Poll, ReadDetails,
         AskAssistant, Answer, Comment, CallFails, EvalFails, DetailsFail, LabelFails, RunEnds, Change, vars
  <2> QED BY <1>6, <2>1
<1> QED BY <1>1, <1>2, <1>3, <1>4, <1>5, <1>7

\* What was rendered and found sound deserves it.
LEMMA RenderedIsSound ==
  ASSUME NEW doc \in Docs, NEW mapping \in Mappings, RenderExit(doc, mapping) = 0,
         OfflineExit(Rendered(doc, mapping)) = 0
  PROVE  /\ ~Broken(doc)
         /\ \A place \in Rendered(doc, mapping).places :
              place.ref.catalog \in {"prod", "PROD"} \/ (IsDashboard(Rendered(doc, mapping)) /\ place.prose)
<1> DEFINE built == Rendered(doc, mapping)
<1>1. doc \in DocType /\ mapping \in MappingType
  BY DefinitionsAreSane, DocsAreTyped DEF MappingType, PairType, TableRefs
<1>2. Leaks(Rebound(doc)) = {} /\ Leaks(built) = {}
  BY DEF RenderExit
<1>3. /\ built.kind = doc.kind /\ built.widgets = doc.widgets
      /\ built.places = ApplyTableMapping(Rebind(doc.places, "dev", "prod"), mapping, "dev", "prod")
  BY <1>1 DEF Rendered, DocType
<1>4. Rebind(doc.places, "dev", "prod") = {ReboundPlace(place) : place \in doc.places}
  BY DEF Rebind, EachRef, ReboundPlace
<1>5. \A place \in doc.places : ReboundPlace(place) \in PlaceType
  <2> TAKE place \in doc.places
  <2> DEFINE ref == place.ref
  <2>1. place \in PlaceType
    BY <1>1 DEF DocType, PlaceType, TableRefs
  <2>2. ref \in TableRefs
    BY <2>1 DEF PlaceType
  <2> HIDE DEF ref
  <2>3. RebindRef(ref, "dev", "prod") \in TableRefs
    BY <2>2 DEF RebindRef, TableRefs, Catalogs
  <2> QED BY <2>1, <2>3 DEF ReboundPlace, PlaceType, ref
<1>6. Defined(built) = Defined(doc)
  <2>1. \A d : Defined(d) = Queried(d.places)
    BY DEF Defined, Queried, Queries
  <2>2. Rebind(doc.places, "dev", "prod") \in SUBSET PlaceType
    BY <1>4, <1>5
  <2>3. Queried(built.places) = Queried(Rebind(doc.places, "dev", "prod"))
    BY <1>1, <1>3, <2>2, MappingKeepsDatasets
  <2>4. Rebound(doc).places = Rebind(doc.places, "dev", "prod")
    BY <1>1, <1>4, ReboundFields
  <2>5. Defined(built) = Defined(Rebound(doc))
    BY <2>1, <2>3, <2>4
  <2> QED BY <1>1, <2>5, ReboundWiring
<1>7. ~\E place \in doc.places : Scanned(doc, place) /\ Foreign(place.ref.catalog)
  BY <1>1, <1>2, LeaksAreForeign
<1> HIDE DEF built
<1>8. ASSUME doc.kind = "dashboard"
      PROVE  doc.widgets # {} /\ \A widget \in doc.widgets : widget \subseteq Defined(doc)
  <2>1. ~Has(CheckDashboard(built), "BLOCKER")
    BY <1>3, <1>8 DEF OfflineExit, IsDashboard, DashboardExit, built
  <2>2. built.widgets # {}
    <3>1. Raise(built.widgets = {}, "DASH-03", "BLOCKER") \subseteq CheckDashboard(built)
      BY DEF CheckDashboard
    <3>2. ~Has(Raise(built.widgets = {}, "DASH-03", "BLOCKER"), "BLOCKER")
      BY <2>1, <3>1 DEF Has
    <3> QED BY <3>2, HasRaised
  <2>3. Referenced(built) \ Defined(built) = {}
    <3>1. Raise(Referenced(built) \ Defined(built) # {}, "DASH-01", "BLOCKER") \subseteq CheckDashboard(built)
      BY DEF CheckDashboard
    <3>2. ~Has(Raise(Referenced(built) \ Defined(built) # {}, "DASH-01", "BLOCKER"), "BLOCKER")
      BY <2>1, <3>1 DEF Has
    <3> QED BY <3>2, HasRaised
  <2>4. Referenced(built) = UNION doc.widgets
    BY <1>3 DEF Referenced
  <2> QED BY <1>3, <1>6, <2>2, <2>3, <2>4
<1>9. ~Broken(doc)
  BY <1>7, <1>8 DEF Broken, Scanned, Foreign
<1>10. ASSUME NEW place \in built.places
       PROVE  place.ref.catalog \in {"prod", "PROD"} \/ (IsDashboard(built) /\ place.prose)
  <2>1. Scanned(built, place) => Fold(place.ref.catalog) = "prod"
    BY <1>2, LeaksUnfolded
  <2>2. Fold(place.ref.catalog) = "prod" => place.ref.catalog \in {"prod", "PROD"}
    BY DEF Fold
  <2> QED BY <2>1, <2>2 DEF Scanned, IsDashboard
<1> QED BY <1>9, <1>10 DEF built

\* What a definition deserves to turn green for.
Deserved ==
  ci.at # "green" /\ ci'.at = "green" =>
       /\ ~Broken(pr.content)
       /\ \A place \in ci.built.places :
            place.ref.catalog \in {"prod", "PROD"} \/ (IsDashboard(ci.built) /\ place.prose)
       /\ IsDashboard(ci.built) =>
            /\ Queries(ci.built) # {} => Plannable(ci.built) # {}
            /\ \A place \in Plannable(ci.built) : place.ref \in prod.tables

\* The head of a pull request turns green only if it deserves it, whatever was reviewed, edited or
\* mapped, and however often the jobs were started (app_logic.py:1011, check_dashboard_sql.py:22).
THEOREM GreenHeadsAreSound == Spec => GreenIsDeserved
<1>1. GateInv /\ JobsInv /\ [Next]_vars => [Deserved]_vars
  <2> SUFFICES ASSUME JobsInv, [Next]_vars, ci.at # "green", ci'.at = "green" PROVE Deserved
    BY DEF Deserved
  <2>1. EvalRunJob \/ SqlJob
    <3>1. ci' # ci /\ ci'.at # "red" /\ ci'.at # "render" /\ ci'.at # "audience" /\ ci'.at # "quality"
      OBVIOUS
    <3>2. ~RenderJob
      BY <3>1 DEF RenderJob, NoJobs
    <3>3. ~AudienceJob
      BY <3>1 DEF AudienceJob, Ends, JobsInv
    <3>4. ~JobsAgain /\ ~Commit
      BY <3>1 DEF JobsAgain, Commit, NoJobs
    <3> QED BY <3>1, <3>2, <3>3, <3>4 DEF Next, ReviewStep, Jobs, Start, Export, CheckAudienceInApp, AskModel,
              CreateRun, Poll, ReadDetails, AskAssistant, Answer, Label, Comment, CallFails, EvalFails, DetailsFail,
              LabelFails, RunEnds, Change, vars
  <2>2. ci.at = "quality"
    BY <2>1 DEF EvalRunJob, SqlJob, Job
  <2>3. /\ ~Broken(pr.content)
        /\ \A place \in ci.built.places :
             place.ref.catalog \in {"prod", "PROD"} \/ (IsDashboard(ci.built) /\ place.prose)
    BY <2>2, RenderedIsSound DEF JobsInv
  <2>4. CASE EvalRunJob
    BY <2>3, <2>4 DEF Deserved, EvalRunJob
  <2>5. CASE SqlJob
    <3>1. PICK down : ci' = [ci EXCEPT !.at = IF SqlExit(ci.built, prod, down) = 0 THEN "green" ELSE "red"]
      BY <2>5 DEF SqlJob, Ends
    <3>2. SqlExit(ci.built, prod, down) = 0
      BY <3>1 DEF JobsInv
    <3> QED BY <2>3, <3>2 DEF Deserved, SqlExit
  <2> QED BY <2>1, <2>4, <2>5
<1>2. [Deserved]_vars => [ci.at # "green" /\ ci'.at = "green" =>
       /\ ~Broken(pr.content)
       /\ \A place \in ci.built.places :
            place.ref.catalog \in {"prod", "PROD"} \/ (IsDashboard(ci.built) /\ place.prose)
       /\ IsDashboard(ci.built) =>
            /\ Queries(ci.built) # {} => Plannable(ci.built) # {}
            /\ \A place \in Plannable(ci.built) : place.ref \in prod.tables]_vars
  BY DEF Deserved
<1> QED BY <1>1, <1>2, JobsInit, JobsStep, GateAlways, PTL DEF Spec, GreenIsDeserved

=============================================================================
