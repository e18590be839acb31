--------------------------- MODULE FounderRecords ---------------------------
(***************************************************************************)
(* What the founder's notes, concepts, candidates and claims promise,      *)
(* however the calls of two sessions interleave.                           *)
(***************************************************************************)
EXTENDS MemoryRecords

\* A proposal, a work candidate or a signal is decided once: whichever of two
\* racing verdicts comes first, the other changes neither the state nor what
\* was made from it (the FOR UPDATE before each check of "unreviewed").
VerdictsAreFinal ==
  [][\A x \in rows :
       x.kind \in {"proposal", "work", "signal"} /\ x.state # "unreviewed"
       => \E y \in rows' :
            SameRow(x, y) /\ y.state = x.state /\ y.old = x.old]_recordVars

\* Every goal made of a work candidate is the one goal the candidate names
\* (authorize_work_candidate).
OneGoalPerCandidate ==
  \A g \in OfKind(rows, "goal") :
    There(rows, "work", g.on) => Get(rows, "work", g.on).old = g.key

\* Two answered promotions of one title and type made or found one concept,
\* unless the founder superseded it: the one that loses the race is refused by
\* the index (promote_proposal_to_entity, find_same_concept).
OneConceptPerTitle ==
  \A c, d \in {x \in served : x.op \in {"promote", "reconcile"}} :
    LET of(x) == Get(rows, "entity", Get(rows, "proposal", x.on).old) IN
    /\ c.old = None /\ d.old = None
    /\ c.to = d.to /\ Norm(c.ref) = Norm(d.ref)
    => \/ of(c) = of(d)
       \/ \E x \in {c, d} : of(x).state = "superseded"

\* Two notes that say the same park one work candidate, however close together
\* they are written (_find_similar_unreviewed_candidate reads while the owner
\* is locked).
ParkedOnce ==
  \A x, y \in OfKind(rows, "work") :
    /\ x.state = "unreviewed" /\ y.state = "unreviewed"
    /\ x.list = <<"memory">> /\ y.list = <<"memory">>
    /\ Norm(x.ref) = Norm(y.ref)
    => x = y

\* A claim found true that a candidate is planned has a goal behind it, and one
\* that something is verified has a verified lesson (verify_truth_claim).
VerifiedClaimsHold ==
  \A x \in OfKind(rows, "truth") :
    /\ x.num = 1 /\ x.ref = "work" /\ x.state = "planned"
       => \E g \in OfKind(rows, "goal") : g.on = x.on
    /\ x.num = 1 /\ x.state = "verified" => x.ref = "lesson"

\* A guard is said to have held only for a lesson that was applied when the
\* task was planned, whose own test passed in that job, in a task that passed
\* as a whole; another test's success is no evidence (classify_guard_outcome).
HeldMeansPassed ==
  \A g \in OfKind(rows, "guard") :
    LET lessons == Get(rows, "plan_event", g.old).list IN
    /\ Contains(lessons, g.on)
    /\ g.state = "guard_held"
       => /\ Contains(g.list, g.ref)
          /\ ToSet(Get(rows, "planned", g.old).list) \subseteq ToSet(g.list)

\* No task's plan follows two lessons that may contradict each other, whatever
\* lessons are recorded and disputed while it is planned
\* (apply_lessons_to_verification_plan).
AppliedAgree ==
  \A p \in OfKind(rows, "plan_event") :
    \A x, y \in {z \in OfKind(rows, "lesson") : Contains(p.list, z.key)} :
      x.on = y.on /\ ToSet(x.list) \cap ToSet(y.list) # {} => x = y

\* A branch or pull request that was ever reported has a state that is current,
\* although every report makes the earlier ones past and two may arrive at once
\* (ingest_github_status).
StatusIsKnown ==
  \A x \in OfKind(rows, "pr_status") :
    \E y \in Children(rows, "pr_status", x.on) : y.state = "current"

\* Two answered calls on one note both show: neither of two people who resolve
\* and classify it at the same time loses what the other wrote (resolve_note
\* and classify_note read without a lock).
NotesKeepBoth ==
  \A c \in served :
    LET x == Get(rows, "project_note", c.on) IN
    /\ c.op = "resolve_note" => x.state # "open"
    /\ c.op = "classify_note" => x.list # <<>>

\* A pull request is proposed only for an order that a review has approved with
\* green tests, whatever is dispatched, tested and reviewed again while the
\* agents think (review_task, prepare_github_pr).
ProposedWasApproved ==
  \A x \in OfKind(rows, "order_event") :
    x.ref = "github_pr_proposed"
      => \E y \in OrderEvents(rows, x.on, "reviewed") :
           y.state = "approved" /\ y.old = "green" /\ y.tick < x.tick

\* Work is retried by its agent only when the checkpoint before the retry says
\* that nothing happened outside, or may have: an effect that another call finds
\* unknown meanwhile is not overlooked, and the trail has no gap in which it
\* could be (safe_retry_same_agent reads what is known without a lock).
NoBlindRetry ==
  \A x \in OfKind(rows, "effort") :
    /\ x.num > 1 => \E y \in Efforts(rows, x.on) : y.num = x.num - 1
    /\ x.ref = "resume"
       => \A y \in Efforts(rows, x.on) : y.num = x.num - 1 => y.state \in SafeToRetry

\* Doc: inspectable_memory/service.py says of a failed linkage that "STORED
\* note is never rolled back".  Every answered note has its row.
NotesAreStored ==
  \A c \in served : c.op \in NoteOps => There(rows, "note", c.key)

\* The states of the founder's records and lessons: one goal per candidate, one
\* concept per title, one parked candidate per idea, claims verified for a
\* reason, guards and lessons that tell the truth, no blind retry.
FounderInv ==
  /\ OneGoalPerCandidate /\ OneConceptPerTitle /\ ParkedOnce /\ VerifiedClaimsHold
  /\ HeldMeansPassed /\ AppliedAgree /\ FeasibilityIsClosure
  /\ StatusIsKnown /\ NotesKeepBoth /\ ProposedWasApproved /\ NoBlindRetry

\* What no step of a record-keeping call does: write again for a call that was
\* answered, change a verdict, lose a member in a merge, or bring back what the
\* founder suppressed.
RecordSteps ==
  ReplayIsSilent /\ VerdictsAreFinal /\ MergeKeepsMembers /\ SuppressionHolds
=============================================================================
