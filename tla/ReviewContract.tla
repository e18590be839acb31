--------------------------- MODULE ReviewContract ---------------------------
(***************************************************************************)
(* What a review job promises its owner, without workers, leases, crashes  *)
(* or generations: a job is attempted until it ends, each reference gets   *)
(* at most one finding ever, and a job that completes has, in its last     *)
(* attempt, found or visibly skipped every reference.  Ended jobs stay     *)
(* ended, but a failed one may be queued again.                            *)
(***************************************************************************)
EXTENDS Naturals

CONSTANTS Jobs, RefsOf(_)

VARIABLES status, found, skipped

contractVars == <<status, found, skipped>>

Init ==
  /\ status = [j \in Jobs |-> "queued"]
  /\ found = [j \in Jobs |-> {}]
  /\ skipped = [j \in Jobs |-> {}]

\* An attempt begins, or a new one takes over from one that was abandoned.
Attempt(j) ==
  /\ status[j] \in {"queued", "running"}
  /\ status' = [status EXCEPT ![j] = "running"]
  /\ skipped' = [skipped EXCEPT ![j] = {}]
  /\ UNCHANGED found

Find(j, i) ==
  /\ status[j] = "running"
  /\ i \notin found[j] \cup skipped[j]
  /\ found' = [found EXCEPT ![j] = @ \cup {i}]
  /\ UNCHANGED <<status, skipped>>

Skip(j, i) ==
  /\ status[j] = "running"
  /\ i \notin found[j] \cup skipped[j]
  /\ skipped' = [skipped EXCEPT ![j] = @ \cup {i}]
  /\ UNCHANGED <<status, found>>

Complete(j) ==
  /\ status[j] = "running"
  /\ found[j] \cup skipped[j] = RefsOf(j)
  /\ status' = [status EXCEPT ![j] = "completed"]
  /\ UNCHANGED <<found, skipped>>

\* An attempt is given up, as a failure or because the owner asked.
GiveUp(j) ==
  /\ status[j] = "running"
  /\ status' \in {[status EXCEPT ![j] = s] : s \in {"failed", "cancelled"}}
  /\ UNCHANGED <<found, skipped>>

Retry(j) ==
  /\ status[j] = "failed"
  /\ status' = [status EXCEPT ![j] = "queued"]
  /\ UNCHANGED <<found, skipped>>

Next ==
  \E j \in Jobs :
    \/ Attempt(j) \/ Complete(j) \/ GiveUp(j) \/ Retry(j)
    \/ \E i \in RefsOf(j) : Find(j, i) \/ Skip(j, i)

Spec == Init /\ [][Next]_contractVars
=============================================================================
