--------------------------- MODULE RehydrateProofs ---------------------------
(***************************************************************************)
(* The guards of a rehydrate and what it brings into development, for any  *)
(* number of requests, any documents, lists and mappings, and every bound. *)
(***************************************************************************)
EXTENDS Rehydrate, TLAPS, WellFoundedInduction

-----------------------------------------------------------------------------
(* The inductive invariant.                                                *)

\* A request may write only after its write step.
Written == {"audit", "done", "failed"}

Reqs == [at : Steps, mode : Modes, who : Identities \cup {NewRequest.who},
         promotion : Promotions \cup {NoPromotion}, mapping : Mappings \cup {<<>>},
         exported : Docs \cup {{}}, wrote : BOOLEAN]

\* What may be written at all.
BodiesOf(doc) == {Mapped(doc, mapping) : mapping \in Mappings \cup {<<>>}}

Bodies == UNION {BodiesOf(doc) : doc \in Docs \cup {{}}}

Spaces == [doc : Bodies \cup {{}}, by : Requests \cup {Nobody}]

Shapes ==
  /\ source \in Docs
  /\ spaces \in Seq(Spaces) /\ spaces # <<>>
  /\ promotions \in [listed : SUBSET Promotions, latest : Promotions \cup {NoPromotion}]
  /\ trail \in [Promotions -> Requests \cup {Nobody}]
  /\ req \in [Requests -> Reqs]

\* A step that follows a guard has passed it: access there is in the history.
GuardsPassed(r) ==
  /\ req[r].at \in {"export", "guard target", "write"} => "source" \in held[r]
  /\ req[r].at = "write" /\ req[r].mode = "overwrite" => "target" \in held[r]

\* What was exported has passed the checks as long as it is not written.
ChecksPassed(r) ==
  req[r].at \in {"guard target", "write"} => ~Refused(req[r].exported, req[r].mapping)

\* Nothing has been written before the write, and what was is recorded.
Accounted(r) ==
  req[r].wrote => /\ req[r].at \in Written
                  /\ \/ req[r].at \in {"audit", "failed"}
                     \/ r \in standalone
                     \/ req[r].promotion # NoPromotion /\ trail[req[r].promotion] # Nobody

\* A document of development and of the catalogs that a mapping names; a copy is one, and it is
\* what its request has computed.
Clean(doc, mapping) ==
  \A ref \in Refs(doc) : /\ ref.catalog \notin {"prod", "PROD"}
                         /\ ref.catalog \in {"dev", "DEV"} \cup Chosen(mapping)

CopyIsClean(space) ==
  space.by # Nobody => /\ space.by \in Requests /\ req[space.by].at \in Written
                       /\ Clean(space.doc, req[space.by].mapping)
                       /\ space.doc = Mapped(req[space.by].exported, req[space.by].mapping)

CopiesAreClean == \A n \in DOMAIN spaces : CopyIsClean(spaces[n])

RehydrateInv ==
  /\ Shapes
  /\ \A r \in Requests : GuardsPassed(r) /\ ChecksPassed(r) /\ Accounted(r)
  /\ CopiesAreClean

-----------------------------------------------------------------------------
(* The two checks.                                                         *)

\* What is not refused is clean, whatever its spelling of the catalogs.
LEMMA NotRefusedIsClean ==
  ASSUME NEW doc, NEW mapping, ~Refused(doc, mapping)
  PROVE  Clean(Mapped(doc, mapping), mapping)
<1> DEFINE written == Mapped(doc, mapping)
<1>1. CASE mapping = <<>>
  <2>1. written = Rebind(doc, "prod", "dev")
    BY <1>1 DEF Mapped
  <2>2. Violations(written, "dev", {}) = {}
    BY <2>1 DEF Refused
  <2> HIDE DEF written
  <2>3. \A ref \in Refs(written) : Fold(ref.catalog) = "dev"
    BY <2>2 DEF Violations
  <2>4. Clean(written, mapping)
    BY <2>3 DEF Clean, Fold
  <2> QED BY <2>4 DEF written
<1>2. CASE mapping # <<>>
  <2>1. Violations(written, "dev", Chosen(mapping)) = {} /\ ~BadTarget(mapping)
    BY <1>2 DEF Refused
  <2>2. \A c \in Chosen(mapping) : Fold(c) # "prod"
    BY <2>1 DEF BadTarget, Chosen
  <2> HIDE DEF written
  <2>3. \A ref \in Refs(written) : Fold(ref.catalog) \in {"dev"} \cup {Fold(c) : c \in Chosen(mapping)}
    BY <2>1 DEF Violations
  <2>4. ASSUME NEW ref \in Refs(written)
        PROVE  /\ ref.catalog \notin {"prod", "PROD"}
               /\ ref.catalog \in {"dev", "DEV"} \cup Chosen(mapping)
    <3>1. CASE Fold(ref.catalog) = "dev"
      BY <3>1 DEF Fold
    <3>2. ASSUME NEW c \in Chosen(mapping), Fold(ref.catalog) = Fold(c)
          PROVE  /\ ref.catalog \notin {"prod", "PROD"}
                 /\ ref.catalog \in {"dev", "DEV"} \cup Chosen(mapping)
      BY <2>2, <3>2 DEF Fold
    <3> QED BY <2>3, <3>1, <3>2
  <2>5. Clean(written, mapping)
    BY <2>4 DEF Clean
  <2> QED BY <2>5 DEF written
<1> QED BY <1>1, <1>2

\* An entry that the guard accepts is one that lets its user run the Space.
LEMMA AccessIsHeld ==
  ASSUME NEW r \in Requests, NEW list, CanAccess(req[r].who, list, "genie")
  PROVE  MayUse(r, list)
BY DEF CanAccess, MayUse, AccessLevels, GenieLevels

LEMMA BodyIsOne ==
  ASSUME NEW doc \in Docs \cup {{}}, NEW mapping \in Mappings \cup {<<>>}
  PROVE  Mapped(doc, mapping) \in Bodies
<1>1. Mapped(doc, mapping) \in BodiesOf(doc)
  BY DEF BodiesOf
<1> QED BY <1>1 DEF Bodies

\* As long as a request is under way, the history forgets nothing and adds what there is access to.
LEMMA HistoryGrows ==
  ASSUME NEW r \in Requests, Watch, req[r].at \notin Ends \cup {"new"}
  PROVE  /\ held[r] \subseteq held'[r]
         /\ \A site \in Sites : MayUse(r, acl[site]) => site \in held'[r]
<1>1. held'[r] = held[r] \cup Usable(r)
  BY DEF Watch
<1> QED BY <1>1 DEF Usable

-----------------------------------------------------------------------------
(* The table mapping.  It is a recursive function: that there is one, and  *)
(* what it yields, is shown by induction, for which the library's theorems *)
(* would need an operator as their parameter; here the parameter is a set. *)

LEMMA SmallestNat == ASSUME NEW T \in SUBSET Nat, T # {} PROVE \E x \in T : \A y \in T : ~(y < x)
<1> DEFINE R == {ss \in Nat \X Nat : ss[1] < ss[2]}
<1>1. IsWellFoundedOn(R, Nat)
  BY NatLessThanWellFounded DEF OpToRel
<1>2. \A x, y \in Nat : y < x => <<y, x>> \in R
  OBVIOUS
<1> HIDE DEF R
<1>3. PICK x \in T : \A y \in T : ~(<<y, x>> \in R)
  BY <1>1, WFMin
<1> QED BY <1>2, <1>3

LEMMA Induct == ASSUME NEW T, 0 \in T, \A n \in Nat : n \in T => n + 1 \in T PROVE Nat \subseteq T
<1> SUFFICES ASSUME Nat \ T # {} PROVE FALSE
  OBVIOUS
<1>1. PICK x \in Nat \ T : \A y \in Nat \ T : ~(y < x)
  BY SmallestNat
<1>2. x # 0 /\ x - 1 \in Nat /\ x - 1 < x /\ (x - 1) + 1 = x
  BY <1>1
<1> QED BY <1>1, <1>2

Names == [catalog : STRING, table : STRING, more : Nat]
Pairs == [source : Names, target : Names]

LEMMA MappingsAreTyped ==
  /\ \A doc \in Docs \cup {{}} : doc \subseteq [ref : Names, prose : BOOLEAN]
  /\ \A mapping \in Mappings \cup {<<>>} :
       /\ mapping \in Seq(Pairs)
       /\ \A m, n \in 1..Len(mapping) : mapping[m].source = mapping[n].source => m = n
<1>1. \A doc \in Docs : doc \subseteq [ref : Names, prose : BOOLEAN]
  BY DocumentsAreSane DEF Names
<1>2. \A mapping \in Mappings :
       /\ mapping \in Seq(Pairs)
       /\ \A m, n \in 1..Len(mapping) : mapping[m].source = mapping[n].source => m = n
  BY DocumentsAreSane DEF Names, Pairs
<1>3. <<>> \in Seq(Pairs) /\ \A m \in 1..Len(<<>>) : FALSE
  OBVIOUS
<1> QED BY <1>1, <1>2, <1>3

\* What the first n substitutions make of a reference: the target of the pair that names it, if
\* one of them does, and else the default.
After(mapping, n, ref) ==
  IF \E m \in 1..n : mapping[m].source = ref
    THEN mapping[CHOOSE m \in 1..n : mapping[m].source = ref].target
    ELSE RebindRef(ref, "prod", "dev")

Substituted(mapping, n, ref) ==
  Substitute(ref, RebindRef(mapping[n].source, "prod", "dev"), mapping[n].target)

\* Of the first n pairs, only the m-th names the reference.
OnlyPair(mapping, n, ref, m) ==
  m \in 1..n /\ mapping[m].source = ref /\ \A k \in 1..n : mapping[k].source = ref => k = m

LEMMA AfterNamed ==
  ASSUME NEW mapping, NEW n, NEW ref, NEW m, OnlyPair(mapping, n, ref, m)
  PROVE  After(mapping, n, ref) = mapping[m].target
<1>1. (CHOOSE k \in 1..n : mapping[k].source = ref) = m
  BY DEF OnlyPair
<1> QED BY <1>1 DEF After, OnlyPair

\* One more substitution.
LEMMA OneMore ==
  ASSUME NEW doc \in Docs \cup {{}}, NEW mapping \in Mappings \cup {<<>>}, Separate(doc, mapping, "prod", "dev"),
         NEW n \in 1..Len(mapping), NEW ref \in Refs(doc)
  PROVE  Substituted(mapping, n, After(mapping, n - 1, ref)) = After(mapping, n, ref)
<1>1. Len(mapping) \in Nat /\ \A m \in 1..Len(mapping) : mapping[m] \in Pairs
  BY MappingsAreTyped
<1>2. ref \in Names
  BY MappingsAreTyped DEF Refs
<1> DEFINE plain == RebindRef(ref, "prod", "dev")
           pattern == RebindRef(mapping[n].source, "prod", "dev")
           target == mapping[n].target
<1>3. target \in Names /\ Matches(plain, pattern) => ref = mapping[n].source
  BY DEF Separate
<1>4. CASE \E m \in 1..(n - 1) : mapping[m].source = ref
  <2>1. PICK m \in 1..(n - 1) : mapping[m].source = ref
    BY <1>4
  <2>2. m \in 1..Len(mapping) /\ m < n
    BY <1>1
  <2>3. \A k \in 1..Len(mapping) : mapping[k].source = ref => k = m
    BY <2>1, <2>2, MappingsAreTyped
  <2>4. After(mapping, n - 1, ref) = mapping[m].target
    <3>1. OnlyPair(mapping, n - 1, ref, m)
      BY <1>1, <2>1, <2>3 DEF OnlyPair
    <3> QED BY <3>1, AfterNamed
  <2>5. After(mapping, n, ref) = mapping[m].target
    <3>1. OnlyPair(mapping, n, ref, m)
      BY <1>1, <2>1, <2>3 DEF OnlyPair
    <3> QED BY <3>1, AfterNamed
  <2>6. ~Matches(mapping[m].target, pattern)
    BY <2>2 DEF Separate
  <2> QED BY <2>4, <2>5, <2>6 DEF Substituted, Substitute
<1>5. CASE ~(\E m \in 1..(n - 1) : mapping[m].source = ref) /\ mapping[n].source = ref
  <2>1. After(mapping, n - 1, ref) = plain /\ pattern = plain
    BY <1>5 DEF After
  <2>2. After(mapping, n, ref) = target
    <3>1. OnlyPair(mapping, n, ref, n)
      BY <1>1, <1>5 DEF OnlyPair
    <3> QED BY <3>1, AfterNamed
  <2>3. plain.more \in Nat
    BY <1>2 DEF RebindRef, Names
  <2>4. target \in Names
    BY <1>1 DEF Pairs
  <2> HIDE DEF plain, target
  <2>5. Substitute(plain, plain, target) = target
    <3>1. Substitute(plain, plain, target) = [target EXCEPT !.more = target.more + (plain.more - plain.more)]
      BY <2>3 DEF Substitute, Matches
    <3>2. target.more \in Nat /\ target.more + (plain.more - plain.more) = target.more
      BY <2>3, <2>4 DEF Names
    <3> QED BY <2>4, <3>1, <3>2 DEF Names
  <2> QED BY <2>1, <2>2, <2>5 DEF Substituted, target
<1>6. CASE ~(\E m \in 1..(n - 1) : mapping[m].source = ref) /\ mapping[n].source # ref
  <2>1. After(mapping, n - 1, ref) = plain
    BY <1>6 DEF After
  <2>2. After(mapping, n, ref) = plain
    <3>1. ~\E m \in 1..n : mapping[m].source = ref
      BY <1>1, <1>6
    <3> QED BY <3>1 DEF After
  <2>3. ~Matches(plain, pattern)
    BY <1>6 DEF Separate
  <2> QED BY <2>1, <2>2, <2>3 DEF Substituted, Substitute
<1> QED BY <1>4, <1>5, <1>6

\* apply_table_mapping, where it means what the user means.
LEMMA MappedIsIntended ==
  ASSUME NEW doc \in Docs \cup {{}}, NEW mapping \in Mappings \cup {<<>>}, Separate(doc, mapping, "prod", "dev")
  PROVE  Mapped(doc, mapping) = Intended(doc, mapping, "prod", "dev")
<1> DEFINE at(n) == {[place EXCEPT !.ref = After(mapping, n, place.ref)] : place \in doc}
           all(n, before) == {[place EXCEPT !.ref = Substituted(mapping, n, place.ref)] : place \in before}
           plain == Rebind(doc, "prod", "dev")
           IsApplied(g) == g = [n \in 0..Len(mapping) |-> IF n = 0 THEN plain ELSE all(n, g[n - 1])]
           applied == CHOOSE g : IsApplied(g)
<1>1. doc \subseteq [ref : Names, prose : BOOLEAN] /\ Len(mapping) \in Nat
  BY MappingsAreTyped
<1>2. Intended(doc, mapping, "prod", "dev") = at(Len(mapping))
  <2>1. \A ref : ref \in Sources(mapping) <=> \E n \in 1..Len(mapping) : mapping[n].source = ref
    BY DEF Sources
  <2>2. \A ref : (IF ref \in Sources(mapping)
                    THEN mapping[CHOOSE n \in 1..Len(mapping) : mapping[n].source = ref].target
                    ELSE RebindRef(ref, "prod", "dev")) = After(mapping, Len(mapping), ref)
    BY <2>1 DEF After
  <2> QED BY <2>2 DEF Intended, EachRef
<1>3. plain = at(0)
  <2>1. \A ref : After(mapping, 0, ref) = RebindRef(ref, "prod", "dev")
    BY DEF After
  <2> QED BY <2>1 DEF Rebind, EachRef
<1>4. ApplyTableMapping(plain, mapping, "prod", "dev") = applied[Len(mapping)]
  BY DEF ApplyTableMapping, EachRef, Substituted
<1>5. ASSUME NEW n \in 1..Len(mapping) PROVE all(n, at(n - 1)) = at(n)
  <2> DEFINE before(place) == [place EXCEPT !.ref = After(mapping, n - 1, place.ref)]
  <2>1. ASSUME NEW place \in doc
        PROVE  [before(place) EXCEPT !.ref = Substituted(mapping, n, before(place).ref)]
                 = [place EXCEPT !.ref = After(mapping, n, place.ref)]
    <3>1. place.ref \in Refs(doc)
      BY DEF Refs
    <3>2. before(place).ref = After(mapping, n - 1, place.ref)
      BY <1>1
    <3>3. Substituted(mapping, n, before(place).ref) = After(mapping, n, place.ref)
      BY <3>1, <3>2, OneMore
    <3> QED BY <1>1, <3>3
  <2>2. at(n - 1) = {before(place) : place \in doc}
    OBVIOUS
  <2>3. all(n, at(n - 1)) = {[before(place) EXCEPT !.ref = Substituted(mapping, n, before(place).ref)] : place \in doc}
    BY <2>2
  <2> QED BY <2>1, <2>3
<1>6. \E g : IsApplied(g)
  <2> DEFINE g == [n \in 0..Len(mapping) |-> at(n)]
  <2>1. \A n \in 0..Len(mapping) : g[n] = IF n = 0 THEN plain ELSE all(n, g[n - 1])
    <3> TAKE n \in 0..Len(mapping)
    <3>1. CASE n = 0
      BY <1>3, <3>1
    <3>2. CASE n # 0
      <4>1. n \in 1..Len(mapping) /\ n - 1 \in 0..Len(mapping)
        BY <1>1, <3>2
      <4> HIDE DEF at, all
      <4>2. g[n] = at(n) /\ g[n - 1] = at(n - 1)
        BY <4>1
      <4> QED BY <1>5, <3>2, <4>1, <4>2
    <3> QED BY <3>1, <3>2
  <2> HIDE DEF at, all, plain
  <2>2. IsApplied(g)
    BY <2>1
  <2> QED BY <2>2
<1>7. IsApplied(applied)
  BY <1>6
<1> HIDE DEF applied, all, at, plain
<1>8. applied[0] = plain /\ \A n \in 1..Len(mapping) : applied[n] = all(n, applied[n - 1])
  BY <1>1, <1>7
<1> DEFINE T == {n \in Nat : n <= Len(mapping) => applied[n] = at(n)}
<1>9. 0 \in T
  BY <1>3, <1>8
<1>10. ASSUME NEW n \in Nat, n \in T PROVE n + 1 \in T
  <2> SUFFICES ASSUME n + 1 <= Len(mapping) PROVE applied[n + 1] = at(n + 1)
    OBVIOUS
  <2>1. n + 1 \in 1..Len(mapping) /\ (n + 1) - 1 = n
    BY <1>1
  <2>2. applied[n + 1] = all(n + 1, applied[n])
    BY <1>8, <2>1
  <2>3. applied[n] = at(n)
    BY <1>1, <1>10
  <2>4. all(n + 1, at(n)) = at(n + 1)
    BY <1>5, <2>1
  <2> QED BY <2>2, <2>3, <2>4
<1> HIDE DEF T
<1>11. applied[Len(mapping)] = at(Len(mapping))
  <2>1. Len(mapping) \in T
    BY <1>1, <1>9, <1>10, Induct
  <2> QED BY <1>1, <2>1 DEF T
<1>12. CASE mapping = <<>>
  BY <1>2, <1>3, <1>12 DEF Mapped, plain
<1>13. CASE mapping # <<>>
  BY <1>2, <1>4, <1>11, <1>13 DEF Mapped, plain
<1> QED BY <1>12, <1>13

-----------------------------------------------------------------------------
(* The steps.                                                              *)

\* A step that writes nothing, and a step whose writer has passed the guards.
NoNewCopy == \A r \in Requests : req'[r].wrote => req[r].wrote

Guarded ==
  \A r \in Requests : ~req[r].wrote /\ req'[r].wrote =>
    /\ "source" \in held'[r]
    /\ spaces'[1] # spaces[1] => "target" \in held'[r]

LEMMA RehydrateInit == Init => RehydrateInv
<1> SUFFICES ASSUME Init PROVE RehydrateInv
  OBVIOUS
<1>1. NewRequest \in Reqs /\ NewRequest.at = "new" /\ NewRequest.wrote = FALSE
  BY DEF NewRequest, Reqs, Steps, Ends, Modes
<1>2. Shapes
  <2>1. [doc |-> {}, by |-> Nobody] \in Spaces
    BY DEF Spaces
  <2>2. <<[doc |-> {}, by |-> Nobody]>> \in Seq(Spaces) /\ <<[doc |-> {}, by |-> Nobody]>> # <<>>
    BY <2>1
  <2> QED BY <1>1, <2>2 DEF Init, Shapes, Promotions
<1>3. \A r \in Requests : req[r] = NewRequest
  BY DEF Init
<1>4. \A r \in Requests : GuardsPassed(r) /\ ChecksPassed(r) /\ Accounted(r)
  BY <1>1, <1>3 DEF GuardsPassed, ChecksPassed, Accounted
<1>5. CopiesAreClean
  BY DEF Init, CopiesAreClean, CopyIsClean
<1> QED BY <1>2, <1>4, <1>5 DEF RehydrateInv

\* A step of one request that writes nothing: the request becomes q.
LEMMA RequestGoesOn ==
  ASSUME RehydrateInv, NEW r \in Requests, NEW q \in Reqs, req' = [req EXCEPT ![r] = q],
         UNCHANGED <<source, spaces, promotions, trail, standalone>>, Watch,
         req[r].at \notin Written, q.wrote = FALSE,
         GuardsPassed(r)', ChecksPassed(r)'
  PROVE  RehydrateInv' /\ NoNewCopy
<1>1. req'[r] = q /\ \A s \in Requests \ {r} : req'[s] = req[s]
  BY DEF RehydrateInv, Shapes
<1>2. Shapes'
  BY DEF RehydrateInv, Shapes
<1>3. \A s \in Requests \ {r} : GuardsPassed(s)' /\ ChecksPassed(s)' /\ Accounted(s)'
  BY <1>1 DEF RehydrateInv, GuardsPassed, ChecksPassed, Accounted, Watch, Ends
<1>4. Accounted(r)'
  BY <1>1 DEF Accounted
<1>5. CopiesAreClean'
  BY <1>1 DEF RehydrateInv, CopiesAreClean, CopyIsClean
<1>6. NoNewCopy
  BY <1>1 DEF NoNewCopy
<1> QED BY <1>2, <1>3, <1>4, <1>5, <1>6 DEF RehydrateInv

\* A request ends with an answer and nothing else.
LEMMA EndGoesOn ==
  ASSUME RehydrateInv, NEW r \in Requests, NEW answer \in Ends, End(r, answer),
         UNCHANGED <<source, spaces, promotions, trail, standalone>>, Watch,
         req[r].at \notin Written
  PROVE  RehydrateInv' /\ NoNewCopy
<1> DEFINE q == [NewRequest EXCEPT !.at = answer]
<1>1. q \in Reqs /\ q.wrote = FALSE /\ q.at = answer
  BY DEF NewRequest, Reqs, Steps, Modes
<1>2. req' = [req EXCEPT ![r] = q]
  BY DEF End
<1>3. req'[r] = q
  BY <1>2 DEF RehydrateInv, Shapes
<1> HIDE DEF q
<1>4. GuardsPassed(r)' /\ ChecksPassed(r)'
  BY <1>1, <1>3 DEF GuardsPassed, ChecksPassed, Ends
<1> QED BY <1>1, <1>2, <1>4, RequestGoesOn

\* What a request has not written yet, and what its record is.
LEMMA NotWritten ==
  ASSUME RehydrateInv, NEW r \in Requests, req[r].at \notin Written
  PROVE  req[r] \in Reqs /\ req[r].wrote = FALSE
BY DEF RehydrateInv, Shapes, Accounted, Reqs

LEMMA ReceiveStep ==
  ASSUME RehydrateInv, NEW r \in Requests, Receive(r), Watch
  PROVE  RehydrateInv' /\ NoNewCopy
<1>1. PICK mode \in Modes, who \in Identities :
        req' = [req EXCEPT ![r].at = IF mode = "preview" THEN "guard source" ELSE "resolve",
                           ![r].mode = mode, ![r].who = who]
  BY DEF Receive
<1>2. req[r].at \notin Written
  BY DEF Receive, At, Written
<1> DEFINE step == IF mode = "preview" THEN "guard source" ELSE "resolve"
           q == [req[r] EXCEPT !.at = step, !.mode = mode, !.who = who]
<1>3. req' = [req EXCEPT ![r] = q]
  BY <1>1
<1>4. step \in Steps /\ step \in {"guard source", "resolve"}
  BY DEF Steps
<1> HIDE DEF step
<1>5. q \in Reqs /\ q.wrote = FALSE /\ q.at = step
  BY <1>2, <1>4, NotWritten DEF Reqs
<1> HIDE DEF q
<1>6. req'[r] = q
  BY <1>3 DEF RehydrateInv, Shapes
<1>7. GuardsPassed(r)' /\ ChecksPassed(r)'
  BY <1>4, <1>5, <1>6 DEF GuardsPassed, ChecksPassed
<1>8. UNCHANGED <<source, spaces, promotions, trail, standalone>>
  BY DEF Receive
<1> QED BY <1>2, <1>3, <1>5, <1>7, <1>8, RequestGoesOn

LEMMA ResolveStep ==
  ASSUME RehydrateInv, NEW r \in Requests, Resolve(r), Watch
  PROVE  RehydrateInv' /\ NoNewCopy
<1>1. req[r].at \notin Written /\ UNCHANGED <<source, spaces, promotions, trail, standalone>>
  BY DEF Resolve, At, Written
<1>2. CASE End(r, "refused")
  BY <1>1, <1>2, EndGoesOn DEF Ends
<1>3. ASSUME NEW promotion \in Promotions \cup {NoPromotion},
             req' = [req EXCEPT ![r].at = "guard source", ![r].promotion = promotion]
      PROVE  RehydrateInv' /\ NoNewCopy
  <2> DEFINE q == [req[r] EXCEPT !.at = "guard source", !.promotion = promotion]
  <2>1. req' = [req EXCEPT ![r] = q]
    BY <1>3
  <2>2. q \in Reqs /\ q.wrote = FALSE /\ q.at = "guard source"
    BY <1>1, NotWritten DEF Reqs, Steps
  <2> HIDE DEF q
  <2>3. req'[r] = q
    BY <2>1 DEF RehydrateInv, Shapes
  <2>4. GuardsPassed(r)' /\ ChecksPassed(r)'
    BY <2>2, <2>3 DEF GuardsPassed, ChecksPassed
  <2> QED BY <1>1, <2>1, <2>2, <2>4, RequestGoesOn
<1>4. promotions.listed \subseteq Promotions /\ promotions.latest \in Promotions \cup {NoPromotion}
  BY DEF RehydrateInv, Shapes
<1> QED BY <1>2, <1>3, <1>4 DEF Resolve, Known, Latest

LEMMA SourceGuardStep ==
  ASSUME RehydrateInv, NEW r \in Requests, Guard(r, "guard source", "source", "export"), Watch
  PROVE  RehydrateInv' /\ NoNewCopy
<1>1. /\ req[r].at = "guard source" /\ req[r].at \notin Written
      /\ UNCHANGED <<source, spaces, promotions, trail, standalone>>
  BY DEF Guard, At, Written
<1>2. CASE End(r, "denied")
  BY <1>1, <1>2, EndGoesOn DEF Ends
<1>3. CASE CanAccess(req[r].who, acl["source"], "genie") /\ req' = [req EXCEPT ![r].at = "export"]
  <2> DEFINE q == [req[r] EXCEPT !.at = "export"]
  <2>1. req' = [req EXCEPT ![r] = q]
    BY <1>3
  <2>2. /\ q \in Reqs /\ q.wrote = FALSE /\ q.at = "export" /\ q.mode = req[r].mode
        /\ q.exported = req[r].exported /\ q.mapping = req[r].mapping
    BY <1>1, NotWritten DEF Reqs, Steps
  <2> HIDE DEF q
  <2>3. req'[r] = q
    BY <2>1 DEF RehydrateInv, Shapes
  <2>4. req[r].at \notin Ends \cup {"new"}
    BY <1>1 DEF Ends
  <2>5. held[r] \subseteq held'[r] /\ "source" \in held'[r]
    BY <1>3, <2>4, HistoryGrows, AccessIsHeld DEF Sites
  <2>6. GuardsPassed(r)' /\ ChecksPassed(r)'
    BY <1>1, <2>2, <2>3, <2>5 DEF GuardsPassed, ChecksPassed, RehydrateInv
  <2> QED BY <1>1, <2>1, <2>2, <2>6, RequestGoesOn
<1> QED BY <1>2, <1>3 DEF Guard

LEMMA TargetGuardStep ==
  ASSUME RehydrateInv, NEW r \in Requests, Guard(r, "guard target", "target", "write"), Watch
  PROVE  RehydrateInv' /\ NoNewCopy
<1>1. /\ req[r].at = "guard target" /\ req[r].at \notin Written
      /\ UNCHANGED <<source, spaces, promotions, trail, standalone>>
  BY DEF Guard, At, Written
<1>2. CASE End(r, "denied")
  BY <1>1, <1>2, EndGoesOn DEF Ends
<1>3. CASE CanAccess(req[r].who, acl["target"], "genie") /\ req' = [req EXCEPT ![r].at = "write"]
  <2> DEFINE q == [req[r] EXCEPT !.at = "write"]
  <2>1. req' = [req EXCEPT ![r] = q]
    BY <1>3
  <2>2. /\ q \in Reqs /\ q.wrote = FALSE /\ q.at = "write" /\ q.mode = req[r].mode
        /\ q.exported = req[r].exported /\ q.mapping = req[r].mapping
    BY <1>1, NotWritten DEF Reqs, Steps
  <2> HIDE DEF q
  <2>3. req'[r] = q
    BY <2>1 DEF RehydrateInv, Shapes
  <2>4. req[r].at \notin Ends \cup {"new"}
    BY <1>1 DEF Ends
  <2>5. held[r] \subseteq held'[r] /\ "target" \in held'[r]
    BY <1>3, <2>4, HistoryGrows, AccessIsHeld DEF Sites
  <2>6. GuardsPassed(r)' /\ ChecksPassed(r)'
    BY <1>1, <2>2, <2>3, <2>5 DEF GuardsPassed, ChecksPassed, RehydrateInv
  <2> QED BY <1>1, <2>1, <2>2, <2>6, RequestGoesOn
<1> QED BY <1>2, <1>3 DEF Guard

LEMMA ExportStep ==
  ASSUME RehydrateInv, NEW r \in Requests, Preview(r) \/ Export(r), Watch
  PROVE  RehydrateInv' /\ NoNewCopy
<1>1. /\ req[r].at = "export" /\ req[r].at \notin Written
      /\ UNCHANGED <<source, spaces, promotions, trail, standalone>>
  BY DEF Preview, Export, At, Written
<1>2. CASE End(r, "done") \/ End(r, "refused")
  BY <1>1, <1>2, EndGoesOn DEF Ends
<1>3. ASSUME NEW mapping \in Mappings, ~Refused(source, mapping),
             req' = [req EXCEPT ![r].at = AfterExport(req[r].mode), ![r].exported = source,
                                ![r].mapping = mapping]
      PROVE  RehydrateInv' /\ NoNewCopy
  <2> DEFINE step == AfterExport(req[r].mode)
             q == [req[r] EXCEPT !.at = step, !.exported = source, !.mapping = mapping]
  <2>1. req' = [req EXCEPT ![r] = q]
    BY <1>3
  <2>2. step \in {"guard target", "write"} /\ (step = "write" => req[r].mode # "overwrite")
    BY DEF AfterExport
  <2> HIDE DEF step
  <2>3. /\ q \in Reqs /\ q.wrote = FALSE /\ q.at = step /\ q.mode = req[r].mode
        /\ q.exported = source /\ q.mapping = mapping
    BY <1>1, <2>2, NotWritten DEF Reqs, Steps, RehydrateInv, Shapes
  <2> HIDE DEF q
  <2>4. req'[r] = q
    BY <2>1 DEF RehydrateInv, Shapes
  <2>5. held[r] \subseteq held'[r]
    BY <1>1, HistoryGrows DEF Ends
  <2>6. GuardsPassed(r)'
    BY <1>1, <2>2, <2>3, <2>4, <2>5 DEF GuardsPassed, RehydrateInv
  <2>7. ChecksPassed(r)'
    BY <1>3, <2>3, <2>4 DEF ChecksPassed, Refused, BadTarget, Violations
  <2> QED BY <1>1, <2>1, <2>3, <2>6, <2>7, RequestGoesOn
<1> QED BY <1>2, <1>3 DEF Preview, Export

\* The write: the new copy is clean, and it is not accounted for yet.
LEMMA PutStep ==
  ASSUME RehydrateInv, NEW r \in Requests, At(r, "write"), Put(r), Watch,
         NEW step \in {"audit", "failed"},
         req' = [req EXCEPT ![r].at = step, ![r].wrote = TRUE],
         UNCHANGED <<source, promotions, trail, standalone>>
  PROVE  RehydrateInv' /\ Guarded
<1> DEFINE q == [req[r] EXCEPT !.at = step, !.wrote = TRUE]
           space == [doc |-> Mapped(req[r].exported, req[r].mapping), by |-> r]
<1>1. req[r] \in Reqs /\ req[r].at = "write" /\ req' = [req EXCEPT ![r] = q]
  BY DEF At, RehydrateInv, Shapes
<1>2. q \in Reqs /\ q.at = step /\ q.wrote = TRUE /\ q.mapping = req[r].mapping /\ q.exported = req[r].exported
  BY <1>1 DEF Reqs, Steps, Ends
<1> HIDE DEF q
<1>3. req'[r] = q /\ \A s \in Requests \ {r} : req'[s] = req[s]
  BY <1>1 DEF RehydrateInv, Shapes
<1>4. space \in Spaces /\ space.by = r
  <2>1. req[r].exported \in Docs \cup {{}} /\ req[r].mapping \in Mappings \cup {<<>>}
    BY <1>1 DEF Reqs
  <2>2. Mapped(req[r].exported, req[r].mapping) \in Bodies
    BY <2>1, BodyIsOne
  <2> QED BY <2>2 DEF Spaces
<1>5. /\ spaces \in Seq(Spaces) /\ Len(spaces) \in Nat /\ Len(spaces) # 0
  BY DEF RehydrateInv, Shapes
<1>6. spaces' = IF req[r].mode = "overwrite" THEN [spaces EXCEPT ![1] = space] ELSE Append(spaces, space)
  BY DEF Put
<1>7. Clean(space.doc, req[r].mapping) /\ space.doc = Mapped(req[r].exported, req[r].mapping)
  BY <1>1, NotRefusedIsClean DEF RehydrateInv, ChecksPassed
<1> HIDE DEF space
<1>8. /\ spaces' \in Seq(Spaces) /\ spaces' # <<>>
      /\ \A n \in DOMAIN spaces' : spaces'[n] = space \/ (n \in DOMAIN spaces /\ spaces'[n] = spaces[n])
      /\ req[r].mode # "overwrite" => spaces'[1] = spaces[1]
  <2>1. CASE req[r].mode = "overwrite"
    BY <1>4, <1>5, <1>6, <2>1
  <2>2. CASE req[r].mode # "overwrite"
    BY <1>4, <1>5, <1>6, <2>2
  <2> QED BY <2>1, <2>2
<1>9. Shapes'
  <2>1. req' \in [Requests -> Reqs]
    BY <1>1, <1>2 DEF RehydrateInv, Shapes
  <2> QED BY <1>8, <2>1 DEF RehydrateInv, Shapes
<1>10. ASSUME NEW s \in Requests
       PROVE  GuardsPassed(s)' /\ ChecksPassed(s)' /\ Accounted(s)'
  <2>1. CASE s = r
    BY <1>2, <1>3, <2>1 DEF GuardsPassed, ChecksPassed, Accounted, Written
  <2>2. CASE s # r
    BY <1>3, <2>2 DEF RehydrateInv, GuardsPassed, ChecksPassed, Accounted, Watch, Ends
  <2> QED BY <2>1, <2>2
<1>11. ASSUME NEW n \in DOMAIN spaces' PROVE CopyIsClean(spaces[n])'
  <2>1. CASE spaces'[n] = space
    <3>1. req'[r].at \in Written /\ req'[r].mapping = req[r].mapping /\ req'[r].exported = req[r].exported
      BY <1>2, <1>3 DEF Written
    <3>2. Clean(spaces'[n].doc, req'[r].mapping) /\ spaces'[n].doc = Mapped(req'[r].exported, req'[r].mapping)
      BY <1>7, <2>1, <3>1
    <3>3. spaces'[n].by = r
      BY <1>4, <2>1
    <3> QED BY <3>1, <3>2, <3>3 DEF CopyIsClean, Clean
  <2>2. CASE n \in DOMAIN spaces /\ spaces'[n] = spaces[n]
    <3>1. CopyIsClean(spaces[n])
      BY <2>2 DEF RehydrateInv, CopiesAreClean
    <3>2. r # spaces[n].by \/ spaces[n].by = Nobody
      BY <1>1, <3>1 DEF CopyIsClean, Written
    <3> QED BY <1>3, <2>2, <3>1, <3>2 DEF CopyIsClean
  <2> QED BY <1>8, <2>1, <2>2
<1>12. Guarded
  <2>1. held[r] \subseteq held'[r]
    BY <1>1, HistoryGrows DEF Ends
  <2>2. "source" \in held[r] /\ (req[r].mode = "overwrite" => "target" \in held[r])
    BY <1>1 DEF RehydrateInv, GuardsPassed
  <2> QED BY <1>3, <1>8, <2>1, <2>2 DEF Guarded
<1> QED BY <1>9, <1>10, <1>11, <1>12 DEF RehydrateInv, CopiesAreClean

\* After the write the request only ends; its copy stays accounted for.
LEMMA AuditStep ==
  ASSUME RehydrateInv, NEW r \in Requests, At(r, "audit"), Watch, NEW step \in {"done", "failed"},
         req' = [req EXCEPT ![r].at = step],
         UNCHANGED <<source, spaces, promotions>>,
         \/ step = "failed" /\ UNCHANGED <<trail, standalone>>
         \/ Audit(r)
  PROVE  RehydrateInv' /\ NoNewCopy
<1> DEFINE q == [req[r] EXCEPT !.at = step]
<1>1. req[r] \in Reqs /\ req[r].at = "audit" /\ req' = [req EXCEPT ![r] = q]
  BY DEF At, RehydrateInv, Shapes
<1>2. /\ q \in Reqs /\ q.at = step
      /\ q.mapping = req[r].mapping /\ q.exported = req[r].exported
      /\ q.promotion = req[r].promotion /\ q.wrote = req[r].wrote
  BY <1>1 DEF Reqs, Steps, Ends
<1> HIDE DEF q
<1>3. req'[r] = q /\ \A s \in Requests \ {r} : req'[s] = req[s]
  BY <1>1 DEF RehydrateInv, Shapes
<1>4. /\ trail' \in [Promotions -> Requests \cup {Nobody}] /\ standalone \subseteq standalone'
      /\ \A p \in Promotions : trail[p] # Nobody => trail'[p] # Nobody
      /\ \/ step = "failed" \/ r \in standalone'
         \/ req[r].promotion # NoPromotion /\ trail'[req[r].promotion] # Nobody
  <2>1. trail \in [Promotions -> Requests \cup {Nobody}] /\ req[r].promotion \in Promotions \cup {NoPromotion}
    BY <1>1 DEF RehydrateInv, Shapes, Reqs
  <2>2. CASE step = "failed" /\ UNCHANGED <<trail, standalone>>
    BY <2>1, <2>2
  <2>3. CASE req[r].promotion # NoPromotion /\ UNCHANGED standalone
             /\ trail' = [trail EXCEPT ![req[r].promotion] = IF @ = Nobody THEN r ELSE @]
    BY <2>1, <2>3, NobodyAsks DEF Nobody
  <2>4. CASE StandaloneRow(r) /\ UNCHANGED trail
    BY <2>1, <2>4 DEF StandaloneRow
  <2> QED BY <2>2, <2>3, <2>4 DEF Audit
<1>5. Shapes'
  BY <1>1, <1>2, <1>4 DEF RehydrateInv, Shapes
<1>6. ASSUME NEW s \in Requests
      PROVE  GuardsPassed(s)' /\ ChecksPassed(s)' /\ Accounted(s)'
  <2>1. CASE s = r
    BY <1>2, <1>3, <1>4, <2>1 DEF GuardsPassed, ChecksPassed, Accounted, Written
  <2>2. CASE s # r
    <3>1. GuardsPassed(s)' /\ ChecksPassed(s)'
      BY <1>3, <2>2 DEF RehydrateInv, GuardsPassed, ChecksPassed, Watch, Ends
    <3>2. req[s].promotion \in Promotions \cup {NoPromotion}
      BY DEF RehydrateInv, Shapes, Reqs
    <3>3. Accounted(s)'
      BY <1>3, <1>4, <2>2, <3>2 DEF RehydrateInv, Accounted
    <3> QED BY <3>1, <3>3
  <2> QED BY <2>1, <2>2
<1>7. CopiesAreClean'
  BY <1>2, <1>3 DEF RehydrateInv, CopiesAreClean, CopyIsClean, Written
<1>8. NoNewCopy
  BY <1>2, <1>3 DEF NoNewCopy
<1> QED BY <1>5, <1>6, <1>7, <1>8 DEF RehydrateInv

\* What others do changes no request.
LEMMA OthersStep ==
  ASSUME RehydrateInv, Watch, UNCHANGED <<spaces, trail, standalone, req>>,
         source' \in Docs, promotions' \in [listed : SUBSET Promotions, latest : Promotions \cup {NoPromotion}]
  PROVE  RehydrateInv' /\ NoNewCopy
<1>1. Shapes'
  BY DEF RehydrateInv, Shapes
<1>2. \A r \in Requests : GuardsPassed(r)' /\ ChecksPassed(r)' /\ Accounted(r)'
  BY DEF RehydrateInv, GuardsPassed, ChecksPassed, Accounted, Watch, Ends
<1>3. CopiesAreClean'
  BY DEF RehydrateInv, CopiesAreClean, CopyIsClean
<1>4. NoNewCopy
  BY DEF NoNewCopy
<1> QED BY <1>1, <1>2, <1>3, <1>4 DEF RehydrateInv

LEMMA RehydrateStep == RehydrateInv /\ [Next]_vars => RehydrateInv' /\ [Guarded]_vars
<1> SUFFICES ASSUME RehydrateInv, [Next]_vars PROVE RehydrateInv' /\ [Guarded]_vars
  OBVIOUS
<1>1. ASSUME NEW r \in Requests, Watch, Receive(r) PROVE RehydrateInv' /\ NoNewCopy
  BY <1>1, ReceiveStep
<1>2. ASSUME NEW r \in Requests, Watch, Resolve(r) PROVE RehydrateInv' /\ NoNewCopy
  BY <1>2, ResolveStep
<1>3. ASSUME NEW r \in Requests, Watch, Guard(r, "guard source", "source", "export") PROVE RehydrateInv' /\ NoNewCopy
  BY <1>3, SourceGuardStep
<1>4. ASSUME NEW r \in Requests, Watch, Preview(r) \/ Export(r) PROVE RehydrateInv' /\ NoNewCopy
  BY <1>4, ExportStep
<1>5. ASSUME NEW r \in Requests, Watch, Guard(r, "guard target", "target", "write") PROVE RehydrateInv' /\ NoNewCopy
  BY <1>5, TargetGuardStep
<1>6. ASSUME NEW r \in Requests, Watch, Write(r) \/ AnswerLost(r) PROVE RehydrateInv' /\ Guarded
  BY <1>6, PutStep DEF Write, AnswerLost
<1>7. ASSUME NEW r \in Requests, Watch, Audit(r) PROVE RehydrateInv' /\ NoNewCopy
  BY <1>7, AuditStep DEF Audit
<1>8. ASSUME NEW r \in Requests, Watch, CallFails(r) PROVE RehydrateInv' /\ NoNewCopy
  <2>1. UNCHANGED <<source, spaces, promotions, trail, standalone>>
    BY <1>8 DEF CallFails
  <2>2. CASE At(r, "audit")
    <3>1. req' = [req EXCEPT ![r].at = "failed"]
      BY <1>8, <2>2 DEF CallFails, At
    <3> QED BY <1>8, <2>1, <2>2, <3>1, AuditStep
  <2>3. CASE ~At(r, "audit")
    <3>1. req[r].at \notin Written /\ (End(r, "denied") \/ End(r, "failed"))
      BY <1>8, <2>3 DEF CallFails, At, Written
    <3> QED BY <1>8, <2>1, <3>1, EndGoesOn DEF Ends
  <2> QED BY <2>2, <2>3
<1>9. ASSUME Watch, ListChanges \/ SourceIsEdited \/ PromotionIsUpdated PROVE RehydrateInv' /\ NoNewCopy
  <2>1. source \in Docs /\ promotions \in [listed : SUBSET Promotions, latest : Promotions \cup {NoPromotion}]
    BY DEF RehydrateInv, Shapes
  <2>2. CASE ListChanges
    BY <1>9, <2>1, <2>2, OthersStep DEF ListChanges
  <2>3. CASE SourceIsEdited
    BY <1>9, <2>1, <2>3, OthersStep DEF SourceIsEdited
  <2>4. CASE PromotionIsUpdated
    BY <1>9, <2>1, <2>4, OthersStep DEF PromotionIsUpdated
  <2> QED BY <1>9, <2>2, <2>3, <2>4
<1>10. NoNewCopy => Guarded
  BY DEF NoNewCopy, Guarded
<1>11. ASSUME UNCHANGED vars PROVE RehydrateInv'
  BY <1>11 DEF vars, RehydrateInv, Shapes, GuardsPassed, ChecksPassed, Accounted, CopiesAreClean, CopyIsClean
<1> QED BY <1>1, <1>2, <1>3, <1>4, <1>5, <1>6, <1>7, <1>8, <1>9, <1>10, <1>11 DEF Next, Step

LEMMA RehydrateInvHolds == Spec => []RehydrateInv
  BY RehydrateInit, RehydrateStep, PTL DEF Spec

-----------------------------------------------------------------------------
(* The theorems.                                                           *)

\* rehydrate.py, _rebind_prod_to_dev and _apply_table_mapping: whatever the spelling of a
\* catalog, the mapping and the edits of the source, nothing that is written to development
\* names production, or a catalog that its user did not choose.
THEOREM ProductionStaysOut == Spec => []NothingOfProduction
<1>1. RehydrateInv => NothingOfProduction
  BY DEF RehydrateInv, CopiesAreClean, CopyIsClean, Clean, NothingOfProduction
<1> QED BY <1>1, RehydrateInvHolds, PTL

\* rehydrate.py, _audit: a copy without a row is one whose request was told of an error, or one
\* whose promotion already has the row of an earlier copy.
THEOREM EveryCopyIsRecorded == Spec => []CopiesAreRecorded
<1>1. RehydrateInv => CopiesAreRecorded
  BY DEF RehydrateInv, Accounted, CopiesAreRecorded
<1> QED BY <1>1, RehydrateInvHolds, PTL

\* rehydrate.py:4: whoever writes a copy had access to its source during the request, and whoever
\* writes over a Space of development had access to that one, however the lists change meanwhile.
THEOREM GuardsHold == Spec => BothSitesGuarded
<1>1. Spec => [][Guarded]_vars
  BY RehydrateInit, RehydrateStep, PTL DEF Spec
<1> QED BY <1>1 DEF BothSitesGuarded, Guarded

\* apply_table_mapping: a copy is the document as it was exported, with the user's target for each
\* table that the mapping names and the default for each other one, for mappings of any length whose
\* tables can be told apart.
THEOREM MappingIsHonoured == Spec => []MappingHonoured
<1>1. RehydrateInv => MappingHonoured
  <2> SUFFICES ASSUME RehydrateInv, NEW n \in DOMAIN spaces, spaces[n].by # Nobody,
                      Separate(req[spaces[n].by].exported, req[spaces[n].by].mapping, "prod", "dev")
               PROVE  spaces[n].doc = Intended(req[spaces[n].by].exported, req[spaces[n].by].mapping, "prod", "dev")
    BY DEF MappingHonoured
  <2>1. /\ spaces[n].by \in Requests
        /\ spaces[n].doc = Mapped(req[spaces[n].by].exported, req[spaces[n].by].mapping)
    BY DEF RehydrateInv, CopiesAreClean, CopyIsClean
  <2>2. req[spaces[n].by] \in Reqs
    BY <2>1 DEF RehydrateInv, Shapes
  <2>3. req[spaces[n].by].exported \in Docs \cup {{}} /\ req[spaces[n].by].mapping \in Mappings \cup {<<>>}
    BY <2>2 DEF Reqs
  <2> QED BY <2>1, <2>3, MappedIsIntended
<1> QED BY <1>1, RehydrateInvHolds, PTL

=============================================================================
