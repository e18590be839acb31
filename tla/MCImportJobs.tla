---------------------------- MODULE MCImportJobs ----------------------------
(***************************************************************************)
(* Instances of ImportJobs, each over the uploads it is about (the others  *)
(* count as cancelled) and with the faults it can afford:                  *)
(*   a package of a manifest and two sources (killed or purged only in the *)
(*     deployed configuration, one worker), a file on its own, and the     *)
(*     same package uploaded twice, by one worker or two on two hosts.     *)
(***************************************************************************)
EXTENDS ImportJobs, TLC

CONSTANTS p1, p2, a, b, wrong, manifest

MCHosts == [p \in Procs |-> IF p = p1 THEN "host1" ELSE "host2"]
MCEntries == <<<<manifest, a, b>>, <<a, wrong>>, <<a, wrong>>, <<a>>>>
MCZip == <<TRUE, TRUE, TRUE, FALSE>>

VARIABLE alone  \* is p1 the only worker?
importVars == <<vars, alone>>

OneWorker == INSTANCE ImportJobs WITH Procs <- {p1}

\* The jobs in K are still to be uploaded.
Only(K) == jobs = [j \in Jobs |-> IF j \in K THEN NewRow
                                 ELSE [NewRow EXCEPT !.status = "cancelled"]]

Used(crashes, errors, outages, purges) ==
  count = [crashes |-> crashes, lapses |-> 0, errors |-> errors,
           outages |-> outages, purges |-> purges]

MCInit ==
  /\ alone \in BOOLEAN
  /\ \/ alone /\ Only({1}) /\ Used(1, 0, 0, 0)
     \/ Only({4}) /\ Used(1, 1, 0, 0)
     \/ ~alone /\ Only({1}) /\ Used(2, 1, 0, 1)
     \/ ~alone /\ Only({2, 3}) /\ Used(1, 2, 1, 0)
     \/ Only({2, 3}) /\ Used(2, 1, 1, 0)
  /\ docs = <<>>
  /\ lock = [k \in Packages |-> "free"]
  /\ provider = TRUE
  /\ run = [p \in Procs |-> IdleRun]

MCNext == \/ alone /\ OneWorker!Next /\ UNCHANGED alone
          \/ ~alone /\ Next /\ UNCHANGED alone

Works(p) == p = p1 \/ ~alone

\* Fairness, for the processes that are there.
MCFairness ==
  /\ \A p \in Procs :
       /\ WF_vars(Works(p) /\ Process(p))
       /\ SF_vars(Works(p) /\ RequeueBlocked(p))
       /\ SF_vars(Works(p) /\ ReconcileOrphaned(p))
       /\ SF_vars(Works(p) /\ \E j \in Jobs : Claim(p, j))
  /\ WF_vars(\E j \in Jobs : ExpireLease(j) /\ ~Worked(j))
  /\ WF_vars(\E k \in Packages : ExpireLock(k) /\ lock[k] = "dead")
  /\ WF_vars(ProviderUp)
MCSpec == MCInit /\ [][MCNext]_importVars /\ MCFairness
=============================================================================
