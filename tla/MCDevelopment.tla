--------------------------- MODULE MCDevelopment ----------------------------
(***************************************************************************)
(* The supervisor, whose tick picks a task and sees how its drive ends,    *)
(* and the driver, which is that drive step by step.  A behaviour is of    *)
(* one of the two (layer); the other has not begun.                        *)
(***************************************************************************)
EXTENDS Supervisor, DevelopmentDriver

\* Two workers over small goals: one task alone, or two of which one needs
\* the other out of the way.
Item(prio, independent, reverify) ==
  [prio |-> prio, fit |-> TRUE, independent |-> independent,
   reverify |-> reverify]
MCWorks == {<<Item(1, TRUE, FALSE)>>,
            <<Item(2, TRUE, TRUE), Item(1, FALSE, TRUE)>>}

\* Plans of the kinds the planner accepts and the driver can be given: a
\* change that is checked and committed, with a retried check; a delete
\* after the check; a repair recipe; a part for the provider; a commit
\* before the check; a plan that stops at a review; and one that goes on
\* after a missing tool and after the verification.
Do(capability, path, before, after) ==
  [capability |-> capability, path |-> path, before |-> before,
   after |-> after, retry |-> FALSE, required |-> FALSE, independent |-> TRUE]
Do1(capability) == Do(capability, "a", 0, 0)
Check(retry) == [Do1("run_focused_test") EXCEPT !.retry = retry,
                                                !.required = TRUE]
Fixed(steps) == [recipe |-> FALSE, steps |-> steps]
MCDevPlans ==
  {Fixed(<<Do("patch_file", "a", 1, 2), Do("patch_file", "b", 0, 2),
           Check(TRUE), Do1("verification_evaluate"),
           Do1("stage_scoped_changes"), Do1("commit_scoped_changes")>>),
   Fixed(<<Do1("read_file"), Check(FALSE), Do1("verification_evaluate"),
           Do("delete_file", "a", 1, 0), Do1("stage_scoped_changes"),
           Do1("commit_scoped_changes")>>),
   [recipe |-> TRUE,
    steps |-> <<Do("patch_file", "a", 1, 2), Check(FALSE),
                Do1("verification_evaluate")>>],
   Fixed(<<Do1("provider_step"), Check(FALSE), Do1("verification_evaluate")>>),
   Fixed(<<Do1("provider_step"),
           [Do("patch_file", "a", 1, 2) EXCEPT !.independent = FALSE],
           Check(FALSE)>>),
   Fixed(<<Do("patch_file", "a", 1, 2), Do1("stage_scoped_changes"),
           Do1("commit_scoped_changes"), Check(FALSE)>>),
   Fixed(<<Check(FALSE), Do1("external_review")>>),
   Fixed(<<Do1("unregistered"), Check(FALSE), Do1("verification_evaluate"),
           [Check(FALSE) EXCEPT !.required = FALSE]>>)}

-----------------------------------------------------------------------------
VARIABLE layer
devAllVars == <<supVars, devVars, layer>>

DevelopmentInit ==
  /\ SupervisorInit /\ DriverInit
  /\ \/ layer = "supervisor" /\ dev = CHOOSE p \in DevPlans : TRUE
     \/ layer = "driver" /\ Len(db.task) = 1
DevelopmentNext ==
  \/ layer = "supervisor" /\ SupervisorNext /\ UNCHANGED <<devVars, layer>>
  \/ layer = "driver" /\ DriverNext /\ UNCHANGED <<supVars, layer>>
DevelopmentSpec ==
  /\ DevelopmentInit /\ [][DevelopmentNext]_devAllVars
  /\ SupervisorFairness /\ DriverFairness

\* Every tick of the supervisor ends, and every drive comes back to it.
TicksEnd == TickEnds /\ TickReturns
=============================================================================
