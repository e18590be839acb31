----------------------------- MODULE MCRecords ------------------------------
(***************************************************************************)
(* The record-keeping services and the provenance of memory, side by side: *)
(* they share no row, so a behaviour is of one of the two (half), and the  *)
(* other stays as it is when nothing has happened.                         *)
(***************************************************************************)
EXTENDS MCFounderRecords, SourceProvenance

\* One document whose claims name its chunk and its version, and a claim
\* whose chunk belongs to another document.
MCOldClaims == <<[doc |-> "d1", chunk |-> "ok", version |-> TRUE],
                 [doc |-> "d1", chunk |-> "bad", version |-> TRUE],
                 [doc |-> "d1", chunk |-> "null", version |-> FALSE]>>

VARIABLE half
allVars == <<recordVars, provVars, half>>

NoRecords ==
  /\ rows = {} /\ issued = <<>> /\ served = {} /\ kills = 0
  /\ sess = [s \in RecordSessions |-> Idle]
HalvesInit ==
  \/ half = "records" /\ RecordsInit /\ ProvInit
  \/ half = "provenance" /\ NoRecords /\ ProvInit
HalvesNext ==
  \/ half = "records" /\ RecordsNext /\ UNCHANGED <<provVars, half>>
  \/ half = "provenance" /\ ProvNext /\ UNCHANGED <<recordVars, half>>
HalvesSpec == HalvesInit /\ [][HalvesNext]_allVars /\ ProvFairness
=============================================================================
