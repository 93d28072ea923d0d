------------------------------ MODULE Rehydrate ------------------------------
(***************************************************************************)
(* POST /rehydrate and its preview: a Genie Space of production is copied  *)
(* into development, as a new Space or over an existing one.               *)
(*                                                                         *)
(* A request is a sequence of remote calls: the promotion it is recorded   *)
(* under, the guard of the source, the export, the guard of the target,    *)
(* the write, the audit row.  Requests run at the same time, while the     *)
(* owners of the Spaces change their access lists, the source is edited    *)
(* and promotions of it appear.  Any call may fail, and the answer of the  *)
(* write may be lost after it took effect; nothing is retried or undone.   *)
(***************************************************************************)
EXTENDS PreRender, Authz

CONSTANTS
  Requests,
  Identities,    \* verified identities
  Entries,       \* the entries an owner gives and takes
  Docs,          \* what the source has been and becomes
  Mappings,      \* the table mappings that users send
  MaxChanges,    \* bound on changes by others: of a list, of the source, of the promotions
  MaxFaults      \* bound on failing calls and lost answers

ASSUME NobodyAsks == "nobody" \notin Requests

\* A table mapping is a dict: no source has two targets.
ASSUME DocumentsAreSane ==
  LET refs == [catalog : STRING, table : STRING, more : Nat]
  IN /\ Docs \subseteq SUBSET [ref : refs, prose : BOOLEAN]
     /\ Mappings \subseteq Seq([source : refs, target : refs])
     /\ \A mapping \in Mappings : \A m, n \in 1..Len(mapping) : mapping[m].source = mapping[n].source => m = n

VARIABLES
  acl,           \* access list of the source and of the existing Space of development
  source,        \* document of the source
  spaces,        \* the Spaces of development; the first one exists, create appends
  promotions,    \* promotions of the source, and which of them was updated last
  trail,         \* of each promotion, the request of its rehydrated row
  standalone,    \* requests with a row in rehydrate_events
  req,           \* the requests
  held,          \* history: sites to which a request's user had access since it began
  changes, faults

vars == <<acl, source, spaces, promotions, trail, standalone, req, held, changes, faults>>

Sites == {"source", "target"}
Modes == {"preview", "create", "overwrite"}
Nobody == "nobody"
NoPromotion == "no promotion"
Promotions == {"p1", "p2"}
Given == {NoPromotion, "p1", "dangling"}     \* body.promotion_id

\* The steps of a request; refused and denied are a 4xx, failed is a 5xx.
Ends  == {"done", "refused", "denied", "failed"}
Steps == {"new", "resolve", "guard source", "export", "guard target", "write", "audit"} \cup Ends

NewRequest == [at |-> "new", mode |-> "preview", who |-> CHOOSE i \in Identities : TRUE,
               promotion |-> NoPromotion, mapping |-> <<>>, exported |-> {}, wrote |-> FALSE]

Init ==
  /\ acl \in [Sites -> {{entry} : entry \in Entries}]
  /\ source \in Docs
  /\ spaces = <<[doc |-> {}, by |-> Nobody]>>
  /\ promotions = [listed |-> {}, latest |-> NoPromotion]
  /\ trail = [p \in Promotions |-> Nobody]
  /\ standalone = {}
  /\ req = [r \in Requests |-> NewRequest]
  /\ held = [r \in Requests |-> {}]
  /\ changes = 0
  /\ faults = 0

At(r, step) == req[r].at = step

\* Ending without a write leaves nothing of the request but its answer.
End(r, answer) == req' = [req EXCEPT ![r] = [NewRequest EXCEPT !.at = answer]]

-----------------------------------------------------------------------------
(* The request.  Each field of its body is drawn at the step that first    *)
(* looks at it.                                                            *)

\* The body, with its mode and its target checked: overwrite names the existing Space.
Receive(r) ==
  /\ At(r, "new")
  /\ \E mode \in Modes, who \in Identities :
       req' = [req EXCEPT ![r].at = IF mode = "preview" THEN "guard source" ELSE "resolve",
                          ![r].mode = mode, ![r].who = who]
  /\ UNCHANGED <<acl, source, spaces, promotions, trail, standalone, changes, faults>>

Known(given) == given \in promotions.listed

\* _find_promotion_id_for_resource: the most recently updated one, if there is any.
Latest == promotions.latest

Resolve(r) ==
  /\ At(r, "resolve")
  /\ \E given \in Given :
       LET promotion == IF given = NoPromotion THEN Latest ELSE given
       IN \/ /\ given = NoPromotion \/ Known(given)
             /\ req' = [req EXCEPT ![r].at = "guard source", ![r].promotion = promotion]
          \/ /\ given # NoPromotion /\ ~Known(given)
             /\ End(r, "refused")
  /\ UNCHANGED <<acl, source, spaces, promotions, trail, standalone, changes, faults>>

\* assert_can_access, of the source before it is exported and of the target before it is overwritten.
Guard(r, step, site, next) ==
  /\ At(r, step)
  /\ \/ /\ CanAccess(req[r].who, acl[site], "genie")
        /\ req' = [req EXCEPT ![r].at = next]
     \/ /\ ~CanAccess(req[r].who, acl[site], "genie")
        /\ End(r, "denied")
  /\ UNCHANGED <<acl, source, spaces, promotions, trail, standalone, changes, faults>>

\* Slip: create and overwrite go straight to the write.
AfterExport_Unguarded(mode) == "write"

AfterExport(mode) == IF mode = "overwrite" THEN "guard target" ELSE "write"

\* A target that is not catalog.schema.table, and one in the catalog of production.
Malformed == Ref("", "", 0)
BadTarget(mapping) ==
  \E n \in DOMAIN mapping : mapping[n].target = Malformed \/ Fold(mapping[n].target.catalog) = "prod"

Chosen(mapping) == {mapping[n].target.catalog : n \in DOMAIN mapping}

\* The document that would be written: rebound, then with the table mapping, if there is one.
Mapped(doc, mapping) ==
  IF mapping = <<>> THEN Rebind(doc, "prod", "dev")
                    ELSE ApplyTableMapping(Rebind(doc, "prod", "dev"), mapping, "prod", "dev")

\* The two checks: the plain rebind leaves nothing but development, and with the
\* mapping there is nothing but development and the catalogs it names.
Refused(doc, mapping) ==
  \/ Violations(Rebind(doc, "prod", "dev"), "dev", {}) # {}
  \/ mapping # <<>> /\ ( \/ BadTarget(mapping)
                         \/ Violations(Mapped(doc, mapping), "dev", Chosen(mapping)) # {} )

\* preview_rehydrate: shows the references of the source with their defaults, and ends.
Preview(r) ==
  /\ At(r, "export")
  /\ req[r].mode = "preview"
  /\ End(r, "done")
  /\ UNCHANGED <<acl, source, spaces, promotions, trail, standalone, changes, faults>>

\* get_space, and everything that is computed before the next call.
Export(r) ==
  /\ At(r, "export")
  /\ req[r].mode # "preview"
  /\ \E mapping \in Mappings :
       \/ /\ Refused(source, mapping)
          /\ End(r, "refused")
       \/ /\ ~Refused(source, mapping)
          /\ req' = [req EXCEPT ![r].at = AfterExport(req[r].mode), ![r].exported = source,
                                ![r].mapping = mapping]
  /\ UNCHANGED <<acl, source, spaces, promotions, trail, standalone, changes, faults>>

\* update_space of the target, or create_space: the latter makes another one each time.
Put(r) ==
  LET space == [doc |-> Mapped(req[r].exported, req[r].mapping), by |-> r]
  IN spaces' = IF req[r].mode = "overwrite" THEN [spaces EXCEPT ![1] = space] ELSE Append(spaces, space)

Write(r) ==
  /\ At(r, "write")
  /\ Put(r)
  /\ req' = [req EXCEPT ![r].at = "audit", ![r].wrote = TRUE]
  /\ UNCHANGED <<acl, source, promotions, trail, standalone, changes, faults>>

\* Slip: a request without a promotion is not recorded.
StandaloneRow_LinkedOnly(r) == standalone' = standalone

\* append_rehydrate_event.
StandaloneRow(r) == standalone' = standalone \cup {r}

\* _audit.  Of a promotion's rehydrated rows the unique index keeps the first (AuditAppend).
Audit(r) ==
  /\ At(r, "audit")
  /\ req' = [req EXCEPT ![r].at = "done"]
  /\ \/ /\ req[r].promotion # NoPromotion
        /\ trail' = [trail EXCEPT ![req[r].promotion] = IF @ = Nobody THEN r ELSE @]
        /\ UNCHANGED standalone
     \/ /\ req[r].promotion = NoPromotion
        /\ StandaloneRow(r)
        /\ UNCHANGED trail
  /\ UNCHANGED <<acl, source, spaces, promotions, changes, faults>>

-----------------------------------------------------------------------------
(* Faults, and what others do meanwhile.                                   *)

Fault == faults < MaxFaults /\ faults' = faults + 1

\* A call fails without effect.  A list that cannot be read, and a token that cannot be
\* verified, deny; of the others the caller gets a 5xx.
CallFails(r) ==
  /\ Fault
  /\ \/ At(r, "audit") /\ req' = [req EXCEPT ![r].at = "failed"]
     \/ req[r].at \in {"guard source", "guard target"} /\ End(r, "denied")
     \/ req[r].at \in {"resolve", "export", "write"} /\ End(r, "failed")
  /\ UNCHANGED <<acl, source, spaces, promotions, trail, standalone, changes>>

\* The write takes effect, its answer is lost.
AnswerLost(r) ==
  /\ Fault
  /\ At(r, "write")
  /\ Put(r)
  /\ req' = [req EXCEPT ![r].at = "failed", ![r].wrote = TRUE]
  /\ UNCHANGED <<acl, source, promotions, trail, standalone, changes>>

Change == changes < MaxChanges /\ changes' = changes + 1

ListChanges ==
  /\ Change
  /\ \E site \in Sites, entry \in Entries :
       acl' = [acl EXCEPT ![site] = IF entry \in @ THEN @ \ {entry} ELSE @ \cup {entry}]
  /\ UNCHANGED <<source, spaces, promotions, trail, standalone, req, faults>>

SourceIsEdited ==
  /\ Change
  /\ source' \in Docs \ {source}
  /\ UNCHANGED <<acl, spaces, promotions, trail, standalone, req, faults>>

\* A promotion of the source appears, or is updated once more.
PromotionIsUpdated ==
  /\ Change
  /\ \E p \in Promotions : promotions' = [listed |-> promotions.listed \cup {p}, latest |-> p]
  /\ UNCHANGED <<acl, source, spaces, trail, standalone, req, faults>>

Step ==
  \/ \E r \in Requests :
       \/ Receive(r)
       \/ Resolve(r)
       \/ Guard(r, "guard source", "source", "export")
       \/ Preview(r)
       \/ Export(r)
       \/ Guard(r, "guard target", "target", "write")
       \/ Write(r)
       \/ Audit(r)
       \/ CallFails(r)
       \/ AnswerLost(r)
  \/ ListChanges
  \/ SourceIsEdited
  \/ PromotionIsUpdated

\* By an entry of their own or of a group, the user of r may run, edit or own the Space.
MayUse(r, list) ==
  \E entry \in list : /\ entry.principal = req[r].who.user \/ entry.principal \in req[r].who.groups
                      /\ entry.level \notin {"CAN_READ", "none"}

Usable(r) == {site \in Sites : MayUse(r, acl[site])}

\* The history follows every step.
Watch ==
  held' = [r \in Requests |-> IF req[r].at \in Ends \cup {"new"} THEN {} ELSE held[r] \cup Usable(r)]

Next == Step /\ Watch

Spec == Init /\ [][Next]_vars

-----------------------------------------------------------------------------
(* Properties.                                                             *)

\* Type invariant; a request is recorded under a promotion that exists.
TypeOK ==
  /\ acl \in [Sites -> SUBSET Entries]
  /\ source \in Docs
  /\ \A n \in DOMAIN spaces : /\ \A ref \in Refs(spaces[n].doc) : ref.catalog \in Catalogs /\ ref.more \in Nat
                              /\ spaces[n].by \in Requests \cup {Nobody}
  /\ promotions \in [listed : SUBSET Promotions, latest : Promotions \cup {NoPromotion}]
  /\ trail \in [Promotions -> Requests \cup {Nobody}]
  /\ standalone \subseteq Requests
  /\ \A r \in Requests : /\ req[r].at \in Steps
                         /\ req[r].promotion \in promotions.listed \cup {NoPromotion}
                         /\ req[r].wrote \in BOOLEAN
  /\ held \in [Requests -> SUBSET Sites]
  /\ changes \in 0..MaxChanges
  /\ faults \in 0..MaxFaults

\* Whatever the spelling of a catalog, the mapping and the edits of the source between a
\* preview and the copy: what is written to development names development and the catalogs
\* that its request chose, and never production.
NothingOfProduction ==
  \A n \in DOMAIN spaces : spaces[n].by # Nobody =>
    \A ref \in Refs(spaces[n].doc) :
      /\ ref.catalog \notin {"prod", "PROD"}
      /\ ref.catalog \in {"dev", "DEV"} \cup Chosen(req[spaces[n].by].mapping)

\* The copy is the document as it was exported, with the user's target for each table that
\* the mapping names and the default for each other one: as long as no table's name begins
\* with the name of another, and no target is the default of a later source.
MappingHonoured ==
  \A n \in DOMAIN spaces : spaces[n].by # Nobody =>
    LET q == req[spaces[n].by]
    IN Separate(q.exported, q.mapping, "prod", "dev")
         => spaces[n].doc = Intended(q.exported, q.mapping, "prod", "dev")

\* rehydrate.py:4: nobody brings a Space of production into development without access to
\* it, or over a Space that they have no access to, at some time of the request; whatever
\* the lists become between the guards and the write.
BothSitesGuarded ==
  [][\A r \in Requests : ~req[r].wrote /\ req'[r].wrote =>
       /\ "source" \in held'[r]
       /\ spaces'[1] # spaces[1] => "target" \in held'[r]]_vars

\* A copy in development has a row in one of the two trails, or its request was told of an
\* error, or its promotion's trail holds the row of an earlier copy.
CopiesAreRecorded ==
  \A r \in Requests : req[r].wrote =>
    \/ req[r].at \in {"audit", "failed"}
    \/ r \in standalone
    \/ req[r].promotion # NoPromotion /\ trail[req[r].promotion] # Nobody
=============================================================================
