--------------------------- MODULE ProjectConcepts ---------------------------
(***************************************************************************)
(* project_entities/service.py, concept_reconciliation/service.py and      *)
(* work_candidates/service.py: a claim is interpreted as a proposal, a     *)
(* proposal is promoted to a concept or collapsed into one, an actionable  *)
(* concept gets a work candidate, and a candidate is authorized as a goal. *)
(* A concept's ref is its normalized title; its list, its type and title.  *)
(***************************************************************************)
EXTENDS RecordRows, SequencesExt

\* normalize_concept_text and jaccard, on the titles of the stories
Surfaces == [Ship |-> "ship", Plan |-> "plan"]
Norm(title) == IF title \in DOMAIN Surfaces THEN Surfaces[title] ELSE title
Overlapping == {{"ship", "ship fast"}}
PartialOverlap(t, u) == {Norm(t), Norm(u)} \in Overlapping

\* _same: status and product are not compared
RecordedLoosely(r, row, loose) ==
  LET was == Find(r, row.kind, row.key) IN
  IF was = {} THEN Plan({}, {row})
  ELSE IF \A x \in was : Alike(x, row, loose) THEN Keep ELSE Raise

CurrentEntity(x) == x.kind = "entity" /\ x.state \in {"active", "proposed"}
\* find_same_concept: by type and title, else by an alias of any type
SameConcept(r, type, title) ==
  LET titled == {x \in r : /\ CurrentEntity(x)
                           /\ x.list[1] = type /\ x.ref = Norm(title)}
      aliased == {x \in r : /\ CurrentEntity(x)
                            /\ \E a \in Find(r, "alias", Norm(title)) :
                                 a.on = x.key}
  IN IF titled # {} THEN titled ELSE aliased

\* attach_alias; a surface form of the title itself has a key of its own
Attach(r, entity, text) ==
  LET e == Get(r, "entity", entity)
      bound == Find(r, "alias", Norm(text))
      key == IF Norm(text) = e.ref THEN "alias:" \o text ELSE Norm(text)
  IN IF ~There(r, "entity", entity) THEN Raise
     ELSE IF text = e.list[2] THEN Keep
     ELSE IF bound # {}
     THEN IF \A a \in bound : a.on = entity THEN Keep ELSE Raise
     ELSE IF There(r, "alias", key) THEN Keep
     ELSE Plan({}, {Row("alias", Call("", key, entity, text, None))})

\* relate_concepts
Relate(r, from, to, type) ==
  IF \E x \in Children(r, "edge", from) : x.ref = to /\ x.key = type THEN Keep
  ELSE IF from = to \/ \E k \in {from, to} : ~There(r, "entity", k) THEN Raise
  ELSE Plan({}, {Row("edge", Call("", type, from, to, None))})

\* record_work_candidate; list names the strategy that made it
Candidate0(key, entity, title, strategy) ==
  [Row("work", Call("", key, entity, title, "unreviewed"))
     EXCEPT !.list = <<strategy>>]
PutWork(r, key, entity, title, strategy) ==
  IF ~There(r, "entity", entity) THEN Raise
  ELSE RecordedLoosely(r, Candidate0(key, entity, title, strategy),
                       {"state", "old"})

Reviewed(c, r, kind, verdict) ==
  LET x == Get(r, kind, c.on) IN
  IF ~There(r, kind, c.on) THEN Raise
  ELSE IF x.state # "unreviewed" THEN Raise
  ELSE Plan({x}, {[x EXCEPT !.state = verdict]})

-----------------------------------------------------------------------------
(* Operations *)

\* on is the claim, ref the proposed type
RecordProposal(c, r) ==
  IF ~There(r, "object", c.on) THEN Raise
  ELSE RecordedLoosely(r, [Row("proposal", c) EXCEPT !.state = "unreviewed"],
                       {"state", "old"})

Actionable0 == {"idea", "decision", "task_reference"}
\* key is the new entity's, on the proposal, ref the title, to the type, old
\* the entity it supersedes
PromoteProposal(c, r) ==
  LET p == Get(r, "proposal", c.on)
      same == SameConcept(r, c.to, c.ref)
      promoted(k) == Plan({p}, {[p EXCEPT !.state = "promoted", !.old = k]})
      entity == [Row("entity", c) EXCEPT !.on = p.on, !.ref = Norm(c.ref),
                                         !.state = "proposed",
                                         !.list = <<c.to, c.ref>>]
      with == r \cup {entity}
  IN IF ~There(r, "proposal", c.on) THEN Raise
     ELSE IF p.state # "unreviewed" \/ ~Known(r, "entity", c.old) THEN Raise
     ELSE IF same # {} /\ c.old = None
     THEN LET k == (CHOOSE x \in same : TRUE).key IN
          All({promoted(k), Attach(r, k, c.ref)})
     ELSE All({promoted(c.key), Plan({}, {entity})}
              \cup (IF c.to \in Actionable0
                    THEN {PutWork(with, "work:" \o c.key, c.key, c.ref,
                                  "promotion")}
                    ELSE {}))

\* reconcile_and_promote_idea: a new concept is related to those it overlaps
Reconcile(c, r) ==
  LET promotion == PromoteProposal(c, r)
      overlaps == {x \in r : /\ CurrentEntity(x) /\ x.list[1] = c.to
                             /\ PartialOverlap(x.list[2], c.ref)
                             /\ ~\E a \in Find(r, "alias", Norm(c.ref)) :
                                   a.on = x.key}
  IN IF ~promotion.ok \/ SameConcept(r, c.to, c.ref) # {} THEN promotion
     ELSE All({promotion}
              \cup {Relate(Apply(r, promotion), c.key, x.key,
                           "partial_overlap") : x \in overlaps})

MarkSuperseded(c, r) ==
  LET x == Get(r, "entity", c.on) IN
  IF ~There(r, "entity", c.on) \/ ~There(r, "entity", c.ref) THEN Raise
  ELSE IF Get(r, "entity", c.ref).old # c.on THEN Raise
  ELSE Plan({x}, {[x EXCEPT !.state = "superseded"]})

RecordWork(c, r) == PutWork(r, c.key, c.on, c.ref, "manual")

\* key is the new goal's; a scope for it is proposed in a savepoint, whose
\* failure leaves the goal
AuthorizeWork(c, r) ==
  LET x == Get(r, "work", c.on)
      goal == Row("goal", Call("", c.key, c.on, x.ref, "pending"))
      type == Get(r, "entity", x.on).list[1]
      scope == Row("scope_proposal", Call("", "scope:" \o c.key, c.key,
                                          None, "proposed"))
  IN IF ~There(r, "work", c.on) THEN Raise
     ELSE IF x.state # "unreviewed" THEN Raise
     ELSE Plan({x}, {[x EXCEPT !.state = "authorized", !.old = c.key], goal}
                    \cup (IF type \in Actionable0 THEN {scope} ELSE {}))

-----------------------------------------------------------------------------

ConceptLocksVerdictsUnlocked(c) ==
  IF c.op = "mark_superseded" THEN <<c.on>> ELSE <<>>
\* The rows an operation locks FOR UPDATE
ConceptLocks(c) ==
  IF c.op \in {"promote", "reconcile", "dismiss_proposal", "mark_superseded",
               "dismiss_work", "supersede_work", "authorize_work"}
  THEN <<c.on>> ELSE <<>>

ConceptPlan(c, r) ==
  CASE c.op = "record_proposal" -> RecordProposal(c, r)
    [] c.op = "dismiss_proposal" -> Reviewed(c, r, "proposal", "dismissed")
    [] c.op = "promote" -> PromoteProposal(c, r)
    [] c.op = "reconcile" -> Reconcile(c, r)
    [] c.op = "mark_superseded" -> MarkSuperseded(c, r)
    [] c.op = "attach_alias" -> Attach(r, c.on, c.ref)
    [] c.op = "relate" -> Relate(r, c.on, c.ref, c.to)
    [] c.op = "record_work" -> RecordWork(c, r)
    [] c.op = "dismiss_work" -> Reviewed(c, r, "work", "dismissed")
    [] c.op = "supersede_work" -> Reviewed(c, r, "work", "superseded")
    [] c.op = "authorize_work" -> AuthorizeWork(c, r)

ConceptOps ==
  {"record_proposal", "dismiss_proposal", "promote", "reconcile",
   "mark_superseded", "attach_alias", "relate", "record_work",
   "dismiss_work", "supersede_work", "authorize_work"}
=============================================================================
