------------------------- MODULE StrategySynthesis --------------------------
(***************************************************************************)
(* The operations of strategy_synthesis/service.py: a case assembles a new *)
(* candidate strategy from inputs and ordered components ("parts"), with   *)
(* the triggers of migration 0045.                                         *)
(***************************************************************************)
EXTENDS StrategyEvaluation, SequencesExt, FiniteSetsExt

SynEvent(c, case, type, from, to) ==
  Event("syn_event", c.key, case, type, from, to)

\* A case: on is its case_key and the key of the strategy it will make, num
\* the revision and version, ref its predecessor, list its quality invariants
CreateCase(c, r) ==
  IF /\ c.ref # None
     /\ ~\E p \in Find(r, "case", c.ref) : p.on = c.on /\ p.num < c.num
  THEN Raise
  ELSE LET row == [Row("case", c) EXCEPT !.state = "draft",
                                         !.next = FirstNumber]
           was == Find(r, "case", c.key)
       IN IF was = {}
          THEN Plan({}, {row, SynEvent(c, c.key, "created", None, "draft")})
          ELSE IF \A x \in was : Alike(x, row, {"state", "next"})
          THEN Keep ELSE Raise

Draft(r, case) == Get(r, "case", case).state = "draft"

SourceKinds ==
  {"strategy", "binding", "comparison", "experiment", "component",
   "assumption", "specialist", "learning", "stopping"}

\* ref is the source
AddInput(c, r) ==
  IF \/ ~There(r, "case", c.on)
     \/ ~\E x \in r : x.kind \in SourceKinds /\ x.key = c.ref
  THEN Raise
  ELSE IF There(r, "input", c.key) THEN Once(r, Row("input", c), {})
  ELSE IF ~Draft(r, c.on) THEN Raise
  ELSE Plan({}, {Row("input", c),
                 SynEvent(c, c.on, "input_added", None, None)})

\* ref is the input, num the sequence number
PartRow(c, r) ==
  [Row("part", c) EXCEPT !.num = Get(r, "case", c.on).next]
NewPart(c, r) ==
  LET case == Get(r, "case", c.on) IN
  IF ~Draft(r, c.on) THEN Raise
  ELSE Plan({case}, {[case EXCEPT !.next = @ + 1], PartRow(c, r),
                     SynEvent(c, c.on, "component_added", None, None)})
SamePart(c, r) ==
  \A x \in Find(r, "part", c.key) : Alike(x, PartRow(c, r), {"num"})
InputOfCase(c, r) ==
  There(r, "case", c.on) /\ \E i \in Find(r, "input", c.ref) : i.on = c.on
AddPart(c, r) ==
  IF ~InputOfCase(c, r) THEN Raise
  ELSE IF There(r, "part", c.key)
  THEN IF SamePart(c, r) THEN Keep ELSE Raise
  ELSE NewPart(c, r)

\* ordered_recipe
Recipe(r, case) ==
  SetToSortSeq(Children(r, "part", case), LAMBDA x, y : x.num < y.num)
UsablePart(part) == part.state \in {"included", "modified"}
KeysOf(parts) == [i \in DOMAIN parts |-> parts[i].key]

\* The components the call lists, at their places in its list
Placed(c, r) ==
  {[x EXCEPT !.num = CHOOSE i \in DOMAIN c.list : c.list[i] = x.key]
   : x \in Children(r, "part", c.on)}
WholeRecipe(c, r) ==
  /\ There(r, "case", c.on) /\ Draft(r, c.on)
  /\ ToSet(c.list) = {x.key : x \in Children(r, "part", c.on)}
  /\ IsInjective(c.list)
OrderEvent(c) ==
  [SynEvent(c, c.on, "recipe_reordered", None, None) EXCEPT !.list = c.list]
Reorder(c, r) ==
  IF ~WholeRecipe(c, r) THEN Raise
  ELSE IF There(r, "syn_event", c.key) THEN Once(r, OrderEvent(c), {})
  ELSE Plan(Children(r, "part", c.on), Placed(c, r) \cup {OrderEvent(c)})

\* ref and old are components, num is 1 for a hard conflict; a repeated call
\* compares the status too
RecordConflict(c, r) ==
  IF \/ ~There(r, "case", c.on) \/ ~Draft(r, c.on)
     \/ \E k \in {c.ref, c.old} \ {None} :
          ~\E x \in Find(r, "part", k) : x.on = c.on
  THEN Raise
  ELSE Once(r, [Row("conflict", c) EXCEPT !.state = "unresolved"],
            {SynEvent(c, c.on, "conflict_recorded", None, "unresolved")})

TransitionConflict(c, r) ==
  LET x == Get(r, "conflict", c.on)
      was == Find(r, "syn_event", c.key)
      event == [SynEvent(c, x.on, "conflict_state_changed", x.state, c.to)
                  EXCEPT !.list = <<c.on>>]
  IN IF ~There(r, "conflict", c.on) THEN Raise
     ELSE IF was # {}
     THEN IF \A e \in was : Alike(e, event, {"old"}) THEN Keep ELSE Raise
     ELSE IF \/ x.state # "unresolved"
             \/ c.to \notin {"resolved", "accepted_risk", "invalidated"}
     THEN Raise
     ELSE Plan({x}, {[x EXCEPT !.state = c.to], event})

Unresolved(r, case) ==
  {x \in Children(r, "conflict", case) : x.state = "unresolved"}
\* readiness; the trigger of migration 0045 asks the same
Ready(r, case) ==
  /\ \E x \in Children(r, "part", case) : UsablePart(x)
  /\ Get(r, "case", case).list # <<>>
  /\ \A x \in Unresolved(r, case) : x.num # 1

CaseMoves ==
  [draft |-> {"ready", "invalidated", "cancelled"},
   ready |-> {"assembled", "invalidated", "cancelled"},
   assembled |-> {"completed", "invalidated"},
   invalidated |-> {}, cancelled |-> {}, completed |-> {}]
TransitionCase(c, r) ==
  LET case == Get(r, "case", c.on)
      was == Find(r, "syn_event", c.key)
      event == SynEvent(c, c.on, "state_changed", case.state, c.to)
  IN IF ~There(r, "case", c.on) THEN Raise
     ELSE IF was # {}
     THEN IF \A e \in was : Alike(e, event, {"old"}) THEN Keep ELSE Raise
     ELSE IF \/ c.to \notin CaseMoves[case.state]
             \/ c.to = "ready" /\ ~Ready(r, c.on)
     THEN Raise
     ELSE Plan({case}, {[case EXCEPT !.state = c.to], event})

\* The strategy's phases are the usable parts; the fingerprint is of all
RecipeDocument(r, case) ==
  [phases |-> KeysOf(SelectSeq(Recipe(r, case), UsablePart)),
   fingerprint |-> KeysOf(Recipe(r, case))]
Materialize(c, r) ==
  LET case == Get(r, "case", c.on)
      was == Children(r, "material", c.on)
      document == RecipeDocument(r, c.on)
      made == CreateStrategy([Call("create_strategy", c.on, case.on, case.old,
                                   "synthesized_candidate")
                                EXCEPT !.num = case.num,
                                       !.list = document.phases], r)
      row == [Row("material", c) EXCEPT !.ref = c.on,
                                        !.list = document.fingerprint]
  IN IF ~There(r, "case", c.on) THEN Raise
     ELSE IF was # {} THEN IF \E x \in was : x.key # c.key THEN Raise ELSE Keep
     ELSE IF case.state # "ready" \/ ~Ready(r, c.on) \/ ~made.ok THEN Raise
     ELSE Plan({case}, made.new \cup
                       {row, [case EXCEPT !.state = "assembled"],
                        SynEvent(c, c.on, "materialized", "ready",
                                 "assembled")})

\* on is the materialization, ref what evaluates its strategy
LinkEvaluation(c, r) ==
  LET m == Get(r, "material", c.on)
      about == {x.ref : x \in Find(r, "experiment", c.ref)}
               \cup {x.on : x \in Find(r, "candidate", c.ref)}
               \cup {StrategiesOf(r, x.key)[2] : x \in Find(r, "comparison",
                                                            c.ref)}
  IN IF ~There(r, "material", c.on) \/ m.ref \notin about THEN Raise
     ELSE Once(r, Row("evaluation_link", c),
               {SynEvent(c, m.on, "evaluation_linked", None, None)})

\* ref is a component of the case, or none
LinkSynthesisLesson(c, r) ==
  IF \/ ~There(r, "case", c.on)
     \/ c.ref # None /\ ~\E x \in Find(r, "part", c.ref) : x.on = c.on
  THEN Raise
  ELSE Once(r, Row("synthesis_lesson", c),
            {SynEvent(c, c.on, "lesson_linked", None, None)})

\* materialize_candidate locks the owner's row in create_strategy
SynthesisLocks(c) ==
  CASE c.op = "create_case" -> <<Owner>>
    [] c.op = "materialize" -> <<c.on, Owner>>
    [] c.op = "link_synthesis_lesson" -> <<>>
    [] OTHER -> <<c.on>>

SynthesisPlan(c, r) ==
  CASE c.op = "create_case" -> CreateCase(c, r)
    [] c.op = "add_input" -> AddInput(c, r)
    [] c.op = "add_part" -> AddPart(c, r)
    [] c.op = "reorder" -> Reorder(c, r)
    [] c.op = "record_conflict" -> RecordConflict(c, r)
    [] c.op = "transition_conflict" -> TransitionConflict(c, r)
    [] c.op = "transition_case" -> TransitionCase(c, r)
    [] c.op = "materialize" -> Materialize(c, r)
    [] c.op = "link_evaluation" -> LinkEvaluation(c, r)
    [] c.op = "link_synthesis_lesson" -> LinkSynthesisLesson(c, r)

-----------------------------------------------------------------------------
(* The rows each row refers to: the columns of its table *)

ConflictRow(r, x) ==
  There(r, "case", x.on) /\ Known(r, "part", x.ref) /\ Known(r, "part", x.old)
MaterialRow(r, x) == There(r, "case", x.on) /\ There(r, "strategy", x.ref)
EvaluationLinkRow(r, x) ==
  /\ There(r, "material", x.on)
  /\ \E k \in {"experiment", "comparison", "candidate"} : There(r, k, x.ref)
SynthesisLessonRow(r, x) ==
  There(r, "case", x.on) /\ Known(r, "part", x.ref)
\* list: the conflict, or the new order
SynEventRow(r, x) == There(r, "case", x.on)
SynthesisRowsRefer(r) ==
  \A x \in r :
    CASE x.kind = "conflict" -> ConflictRow(r, x)
      [] x.kind = "material" -> MaterialRow(r, x)
      [] x.kind = "evaluation_link" -> EvaluationLinkRow(r, x)
      [] x.kind = "synthesis_lesson" -> SynthesisLessonRow(r, x)
      [] x.kind = "syn_event" -> SynEventRow(r, x)
      [] OTHER -> TRUE

SynthesisOps ==
  {"create_case", "add_input", "add_part", "reorder", "record_conflict",
   "transition_conflict", "transition_case", "materialize",
   "link_evaluation", "link_synthesis_lesson"}
=============================================================================
