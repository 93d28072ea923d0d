------------------------------ MODULE PreRender ------------------------------
(***************************************************************************)
(* pre_render.py: the catalogs of a definition on its way from one         *)
(* environment to another.                                                 *)
(*                                                                         *)
(* A definition is the set of the places where it names a table.  A        *)
(* reference is the catalog as it is spelled, a table, and how often the   *)
(* same suffix was added to the table's name: sales, sales_x, sales_x_x,   *)
(* each the beginning of the next.  The catalogs <env>_<domain> are named  *)
(* by their environment; capitals are another spelling.                    *)
(***************************************************************************)
EXTENDS Naturals, Sequences, FiniteSets

Catalogs == {"dev", "prod", "DEV", "PROD", "other"}

Ref(catalog, table, more) == [catalog |-> catalog, table |-> table, more |-> more]

\* A place: a query, or the prose of a text widget.
Place(ref, prose) == [ref |-> ref, prose |-> prose]

Refs(doc) == {place.ref : place \in doc}

EachRef(doc, F(_)) == {[place EXCEPT !.ref = F(place.ref)] : place \in doc}

Fold(catalog) == CASE catalog = "DEV" -> "dev" [] catalog = "PROD" -> "prod" [] OTHER -> catalog

\* rebind: this very spelling only.
RebindRef(ref, from, to) == IF ref.catalog = from THEN [ref EXCEPT !.catalog = to] ELSE ref

Rebind(doc, from, to) == EachRef(doc, LAMBDA ref : RebindRef(ref, from, to))

\* Slip: compares the catalogs as they are spelled with those that are forbidden.
Violations_Denylist(doc, to, extra) ==
  {ref.catalog : ref \in {r \in Refs(doc) : r.catalog \in {"dev", "prod"} \ ({to} \cup extra)}}

\* find_violations: an allowlist, in which capitals do not count.
Violations(doc, to, extra) ==
  {ref.catalog : ref \in {r \in Refs(doc) : Fold(r.catalog) \notin {to} \cup {Fold(c) : c \in extra}}}

\* scan_text: of a dashboard, everything but the prose.
ScanText(doc, sqlOnly) == IF sqlOnly THEN {place \in doc : ~place.prose} ELSE doc

ProseText(doc) == {place \in doc : place.prose}

\* _ref_pattern: it matches a longer name that begins like the reference.
Matches(ref, pattern) ==
  ref.catalog = pattern.catalog /\ ref.table = pattern.table /\ ref.more >= pattern.more

\* What a substitution leaves of a reference: the rest of a longer name stays behind the target.
Substitute(ref, pattern, target) ==
  IF Matches(ref, pattern) THEN [target EXCEPT !.more = @ + (ref.more - pattern.more)] ELSE ref

\* Slip: looks for the reference of the source environment, which the rebind has removed.
ApplyTableMapping_Source(doc, mapping, from, to) ==
  LET applied[n \in 0..Len(mapping)] ==
        IF n = 0 THEN doc
        ELSE EachRef(applied[n - 1], LAMBDA ref : Substitute(ref, mapping[n].source, mapping[n].target))
  IN applied[Len(mapping)]

\* apply_table_mapping: one substitution after the other, over the result of the last.
ApplyTableMapping(doc, mapping, from, to) ==
  LET applied[n \in 0..Len(mapping)] ==
        IF n = 0 THEN doc
        ELSE EachRef(applied[n - 1], LAMBDA ref :
               Substitute(ref, RebindRef(mapping[n].source, from, to), mapping[n].target))
  IN applied[Len(mapping)]

-----------------------------------------------------------------------------
(* What a mapping is meant to do: every reference it names goes to its     *)
(* target, every other one to the target environment.                      *)

Sources(mapping) == {mapping[n].source : n \in 1..Len(mapping)}

Intended(doc, mapping, from, to) ==
  EachRef(doc, LAMBDA ref : IF ref \in Sources(mapping)
                              THEN mapping[CHOOSE n \in 1..Len(mapping) : mapping[n].source = ref].target
                              ELSE RebindRef(ref, from, to))

\* No source of the mapping is the beginning of another reference of the definition, and none
\* of its targets is looked for by a later substitution.
Separate(doc, mapping, from, to) ==
  /\ \A n \in 1..Len(mapping), ref \in Refs(doc) :
       Matches(RebindRef(ref, from, to), RebindRef(mapping[n].source, from, to)) => ref = mapping[n].source
  /\ \A m, n \in 1..Len(mapping) :
       m < n => ~Matches(mapping[m].target, RebindRef(mapping[n].source, from, to))
=============================================================================
