-------------------------- MODULE LearningRecords ---------------------------
(***************************************************************************)
(* What the records of problems, strategies and syntheses promise, however *)
(* the calls of two sessions interleave.                                   *)
(***************************************************************************)
EXTENDS RecordSessions

\* Two decisions of one problem are never both active, whichever calls race to
\* supersede the one before (record_decision, uq_life_decision_one_active).
OneActiveDecision ==
  \A x, y \in OfKind(rows, "decision") :
    x.on = y.on /\ x.state = "active" /\ y.state = "active" => x = y

\* An approved candidate has enough linked comparisons whose challenger's every
\* required obligation was once seen to pass and which was then found to be of
\* quality (verification_state, assess_quality, transition_candidate).
ApprovedWasVerified ==
  \A x \in OfKind(rows, "candidate") :
    x.state = "approved" =>
      LET proven(k) ==
            LET b == Get(rows, "comparison", k.ref).ref
                quality == {q \in Children(rows, "quality", k.ref) :
                              q.ref = "challenger" /\ q.state = "quality_pass"}
            IN /\ \E q \in quality :
                    /\ \E o \in Required(rows, b) : o.tick < q.tick
                    /\ \A o \in Required(rows, b) :
                         o.tick < q.tick =>
                           \E v \in Children(rows, "observation", o.key) :
                             v.state = "performed_passed" /\ v.tick < q.tick
               /\ StrategiesOf(rows, k.ref) = <<x.ref, x.on>>
      IN Cardinality({k \in Children(rows, "comparison_link", x.key) :
                        proven(k)}) >= (IF x.num = 0 THEN 2 ELSE x.num)

\* Trace events and recipe components are numbered 1, 2, 3... with no gap and
\* no repetition, and the parent's counter is the next number
\* (record_trace_event, add_recipe_component, reorder_recipe).
NumberedInOrder ==
  \A p \in rows :
    LET mine == Children(rows, IF p.kind = "case" THEN "part" ELSE "trace",
                         p.key)
    IN p.kind \in {"case", "binding"} =>
         /\ {x.num : x \in mine} = 1..Cardinality(mine)
         /\ p.next = Cardinality(mine) + 1

\* A case that was found ready has something to assemble and no open hard
\* conflict, ever after (readiness, record_conflict).
ReadyIsSettled ==
  \A x \in OfKind(rows, "case") :
    x.state \in {"ready", "assembled", "completed"} => Ready(rows, x.key)

\* The strategy of a materialized case is its recipe as it stands: nothing can
\* reorder or extend the recipe any more (materialize_candidate,
\* reorder_recipe).
StrategyIsRecipe ==
  \A m \in OfKind(rows, "material") :
    /\ m.list = KeysOf(Recipe(rows, m.on))
    /\ Get(rows, "strategy", m.ref).list
         = KeysOf(SelectSeq(Recipe(rows, m.on), UsablePart))

\* Two calls that link the same components never wait for each other, whichever
\* end each names first (link_components sorts the two ids it locks).
LinksNeverDeadlock ==
  ~\E s, t \in RecordSessions :
     /\ WaitsFor(s, t) /\ WaitsFor(t, s)
     /\ sess[s].call.op = "link_components"
     /\ sess[t].call.op = "link_components"

\* The states of the records of learning: typed, told truly by their trails,
\* with one decision active, approvals earned, numbers without gaps, cases
\* ready for a reason, strategies that are their recipes, and no deadlock of
\* two links.
LearningInv ==
  /\ RecordsTypeOK /\ StateIsTheTrails /\ OneActiveDecision /\ ApprovedWasVerified
  /\ NumberedInOrder /\ ReadyIsSettled /\ StrategyIsRecipe /\ LinksNeverDeadlock
=============================================================================
