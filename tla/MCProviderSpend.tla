--------------------------- MODULE MCProviderSpend ---------------------------
(* Model values for the runs of ProviderSpend. *)
EXTENDS ProviderSpend

CONSTANTS p1, p2, g1, g2, t1, t2

MCProposals == {p1, p2}
MCGrants == {g1, g2}
MCTasks == {t1, t2}
=============================================================================
