------------------------- MODULE MCMessageBackfill -------------------------
(***************************************************************************)
(* Instances of MessageBackfill.  The processes run on one host, so they   *)
(* share the worker id, as the restarts of a container do.                 *)
(***************************************************************************)
EXTENDS MessageBackfill, TLC

CONSTANTS p1, p2, w1, w2

MCSharedHost == [p \in Procs |-> "host"]
MCHistory == <<2, 1>>
MCBoth == <<"sequence", "source">>

\* One of the jobs; the founder has cancelled the others already.
Only(k) == jobs = [j \in Jobs |->
                     IF j = k THEN NewJobRow
                     ELSE [NewJobRow EXCEPT !.status = "cancelled",
                                            !.cancelRequested = TRUE,
                                            !.cancelAcknowledged = TRUE]]

Used(inserts, faults, errors) ==
  count = [inserts |-> inserts, faults |-> faults, errors |-> errors]

\* Either job with one request and every kind of trouble, or the numbering
\* with two requests at once and no trouble.
MCInit ==
  /\ \/ (\E k \in Jobs : Only(k)) /\ Used(1, 0, 0)
     \/ Only(1) /\ Used(0, MaxFaults, MaxErrors)
  /\ messages = [c \in Conversations |-> [i \in 1..History[c] |-> Unnumbered]]
  /\ sourced = {}
  /\ open = Conversations
  /\ lock = [c \in Conversations |-> <<>>]
  /\ insert = [w \in Writers |-> IdleInsert]
  /\ run = [p \in Procs |-> IdleRun]
  /\ done = [j \in Jobs |-> 0]
MCSpec == MCInit /\ [][Next]_vars /\ Fairness
=============================================================================
