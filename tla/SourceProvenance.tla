-------------------------- MODULE SourceProvenance --------------------------
(***************************************************************************)
(* Source units, the provenance of knowledge claims (migration 0019,       *)
(* rag/memory_source.py): they are created by claim extraction             *)
(* (rag/claims.py) and by the durable backfill of older claims             *)
(* (rag/backfill/memory_source*.py), and purged with their document        *)
(* (storage/purge.py, phase A) or with the account.                        *)
(*                                                                         *)
(* An action is a statement that takes a lock others wait for, or a        *)
(* commit.  A caller keeps the run row it loaded (expire_on_commit is      *)
(* off); only the advisory lock on the run makes that safe.                *)
(***************************************************************************)
EXTENDS Integers, Sequences, FiniteSets, FiniteSetsExt, TLC

CONSTANTS ProvDocs,      \* documents, each with one chunk and one version
          OldClaims,     \* claims without a source unit, oldest first
          ProvCallers,   \* requests that advance, create or cancel runs
          RunBatch,      \* batch_size
          MaxRuns,       \* bound on backfill runs
          LockAge,       \* bound on calls that start during a foreign lock
          MaxProvUpsets  \* bound on kills, cancels, extractions, purges, locks...

\* chunk_id belongs to the document, belongs to another one, or is NULL
ASSUME OldClaimsAssumption ==
  OldClaims \in Seq([doc : ProvDocs, chunk : {"ok", "bad", "null"},
                     version : BOOLEAN])
Nobody == "nobody"
Types == "types"   \* the session of backfill_claim_types
ASSUME ProvCallersAssumption == ProvCallers \cap {Nobody, Types} = {}
ASSUME ProvBounds ==
  RunBatch \in Nat \ {0} /\ {MaxRuns, LockAge, MaxProvUpsets} \subseteq Nat

VARIABLES
  docs,     \* documents: live, deleted or erased
  units,    \* source units by identity key
  claims,   \* the old claims, with the row lock on each
  runs,     \* rows of memory_source_backfill_runs, with their failures
  adv,      \* calls of advance_backfill_run and create_or_resume
  extr,     \* one claim extraction, over the provider call
  purge,    \* one purge_source call
  upsets
provVars == <<docs, units, claims, runs, adv, extr, purge, upsets>>

NoRun == 0
Positions == DOMAIN OldClaims
\* source_identity_key
Keys == {"document_chunk", "document_version", "document_record"} \X ProvDocs
NoUnit == <<"none", "none">>
Lives == {"absent", "active", "revoked", "purged"}
Buckets == {"exact_chunk", "degraded_version", "missing_document_only",
            "skipped_unresolvable", "failed"}
NoCall == [at |-> "idle", run |-> NoRun, copy |-> <<>>, after |-> 0,
           excluded |-> {}, frozen |-> FALSE, considered |-> 0, left |-> 0,
           claim |-> 0]
NewRun(mode) ==
  [mode |-> mode, status |-> "pending", processed |-> 0,
   count |-> [b \in Buckets |-> 0], cursor |-> 0, failures |-> {},
   seen |-> [i \in Positions |-> 0]]

ProvInit ==
  /\ docs = [d \in ProvDocs |-> "live"]
  /\ units = [k \in Keys |-> [life |-> "absent", text |-> FALSE]]
  /\ claims = [i \in Positions |->
                 [here |-> TRUE, chunk |-> OldClaims[i].chunk, unit |-> NoUnit,
                  held |-> Nobody, by |-> NoRun, typed |-> FALSE, age |-> 0]]
  /\ runs = <<>>
  /\ adv = [k \in ProvCallers |-> NoCall]
  /\ extr = [at |-> "idle", doc |-> Nobody]
  /\ purge = [at |-> "idle", doc |-> Nobody]
  /\ upsets = 0

RunActive(r) == runs[r].status \in {"pending", "running"}
ProvUpset == upsets < MaxProvUpsets /\ upsets' = upsets + 1

-----------------------------------------------------------------------------
(* Creating a run                                                          *)

LooksForRun(k) ==
  /\ adv[k].at = "idle" /\ Len(runs) < MaxRuns
  /\ \A r \in DOMAIN runs : ~RunActive(r)
  /\ adv' = [adv EXCEPT ![k].at = "creating"]
  /\ UNCHANGED <<docs, units, claims, runs, extr, purge, upsets>>

\* uq_msbr_one_active_per_owner
IndexAdmits == Len(runs) < MaxRuns /\ \A r \in DOMAIN runs : ~RunActive(r)
InsertsRun(k, mode) ==
  /\ adv[k].at = "creating"
  /\ runs' = IF IndexAdmits THEN Append(runs, NewRun(mode)) ELSE runs
  /\ adv' = [adv EXCEPT ![k] = NoCall]
  /\ UNCHANGED <<docs, units, claims, extr, purge, upsets>>

-----------------------------------------------------------------------------
(* advance_backfill_run                                                    *)

\* Mutant: a row lock alone, gone with the first commit.
RunLockFreeAlways(r) == r \in DOMAIN runs
\* pg_try_advisory_lock, held by a connection of its own.
RunLockFree(r) == \A k \in ProvCallers : adv[k].run # r

ResumesAt(run) == run.cursor
\* Taking the lock, loading the row, pending -> running, the cursor.
AdvanceStarts(k, r) ==
  /\ adv[k].at = "idle" /\ RunActive(r) /\ RunLockFree(r)
  /\ \A i \in Positions : claims[i].held = Types => claims[i].age < LockAge
  /\ claims' = [i \in Positions |-> IF claims[i].held = Types
                  THEN [claims[i] EXCEPT !.age = @ + 1] ELSE claims[i]]
  /\ runs' = [runs EXCEPT ![r].status = "running"]
  /\ adv' = [adv EXCEPT ![k] =
               [NoCall EXCEPT !.at = "pick", !.run = r, !.copy = runs'[r],
                 !.after = ResumesAt(runs[r]), !.left = RunBatch]]
  /\ UNCHANGED <<docs, units, extr, purge, upsets>>

\* memory_source_id IS NULL, after the cursor.
Candidate(i, after) == claims[i].here /\ claims[i].unit = NoUnit /\ i > after
Wanted(k) ==
  {i \in Positions : Candidate(i, adv[k].after) /\ i \notin adv[k].excluded}
Dry(k) == adv[k].copy.mode = "dry_run"
\* FOR UPDATE SKIP LOCKED; a rehearsal takes no lock.
Unlocked(k) == {i \in Wanted(k) : Dry(k) \/ claims[i].held = Nobody}

\* An earlier candidate was skipped because it is locked.
GapBefore(k, i) == \E j \in Wanted(k) : j < i
PickClaim(k) ==
  /\ adv[k].at = "pick"
  /\ IF adv[k].left = 0 \/ Unlocked(k) = {}
     THEN adv' = [adv EXCEPT ![k].at = "end"] /\ UNCHANGED claims
     ELSE LET i == Min(Unlocked(k))
          IN  /\ adv' = [adv EXCEPT ![k].at = "claim", ![k].claim = i,
                   ![k].considered = @ + 1, ![k].left = @ - 1,
                   ![k].frozen = @ \/ (~Dry(k) /\ GapBefore(k, i))]
              /\ claims' = IF Dry(k) THEN claims
                           ELSE [claims EXCEPT ![i].held = k]
  /\ UNCHANGED <<docs, units, runs, extr, purge, upsets>>

\* _resolve_locator: the finest source the claim still names; one that does
\* not belong to the document is never replaced by a coarser one.
Resolve(i) ==
  LET d == OldClaims[i].doc
  IN  IF docs[d] = "erased" \/ claims[i].chunk = "bad" THEN NoUnit
      ELSE IF claims[i].chunk = "ok" THEN <<"document_chunk", d>>
      ELSE IF OldClaims[i].version THEN <<"document_version", d>>
      ELSE <<"document_record", d>>
BucketOf(key) ==
  CASE key[1] = "document_chunk" -> "exact_chunk"
    [] key[1] = "document_version" -> "degraded_version"
    [] key[1] = "document_record" -> "missing_document_only"

\* _on_claim_outcome: counters, cursor and failure row of the loaded run,
\* committed with the claim.
Counted(k, bucket) ==
  LET i == adv[k].claim
      run == adv[k].copy
  IN  [run EXCEPT !.processed = @ + 1, !.count[bucket] = @ + 1,
         !.cursor = IF adv[k].frozen THEN @ ELSE i,
         !.failures = IF bucket \in {"skipped_unresolvable", "failed"}
                      THEN @ \cup {i} ELSE @,
         !.seen[i] = IF run.mode = "dry_run" THEN @ + 1 ELSE @]
NextClaim(k, run, excludes) ==
  /\ runs' = [runs EXCEPT ![adv[k].run] = run]
  /\ adv' = [adv EXCEPT ![k].at = "pick", ![k].copy = run, ![k].claim = 0,
               ![k].excluded = IF excludes THEN @ \cup {adv[k].claim} ELSE @]

\* The dry run and the claims without a source.
OnlyCounts(k) ==
  /\ adv[k].at = "claim"
  /\ LET i == adv[k].claim
         key == Resolve(i)
     IN  /\ Dry(k) \/ key = NoUnit
         /\ NextClaim(k, Counted(k, IF key = NoUnit THEN "skipped_unresolvable"
                                    ELSE BucketOf(key)), TRUE)
         /\ claims' = IF Dry(k) THEN claims
                      ELSE [claims EXCEPT ![i].held = Nobody]
  /\ UNCHANGED <<docs, units, extr, purge, upsets>>

\* An INSERT waits for whoever has the document or the same key in hand.
DocLocked(d) == purge.at = "locked" /\ purge.doc = d
KeyTaken(key) ==
  extr.at = "inserted" /\ key = <<"document_chunk", extr.doc>>
\* Mutant: any unit with this key will do.
UsableAny(key) == units[key].life # "absent"
\* get_or_create_memory_source_unit: a found unit must be active.
Usable(key) == units[key].life = "active"
Created(key) ==
  [units EXCEPT ![key] = [life |-> "active",
                          text |-> key[1] = "document_chunk"]]
LinkClaim(k) ==
  /\ adv[k].at = "claim" /\ ~Dry(k)
  /\ LET i == adv[k].claim
         key == Resolve(i)
     IN  /\ key # NoUnit /\ ~KeyTaken(key)
         /\ \/ /\ units[key].life = "absent" /\ ~DocLocked(key[2])
               /\ units' = Created(key)
            \/ Usable(key) /\ UNCHANGED units
         /\ NextClaim(k, Counted(k, BucketOf(key)), FALSE)
         /\ claims' = [claims EXCEPT ![i].held = Nobody, ![i].unit = key,
                                     ![i].by = adv[k].run]
  /\ UNCHANGED <<docs, extr, purge, upsets>>
\* MemorySourceIdentityConflict
RefuseUnit(k) ==
  /\ adv[k].at = "claim" /\ ~Dry(k)
  /\ LET i == adv[k].claim
         key == Resolve(i)
     IN  /\ key # NoUnit
         /\ ~Usable(key) /\ units[key].life # "absent"
         /\ NextClaim(k, Counted(k, "failed"), TRUE)
         /\ claims' = [claims EXCEPT ![i].held = Nobody]
  /\ UNCHANGED <<docs, units, extr, purge, upsets>>

\* Mutant: the check looks before the cursor too.
NothingLeftAnywhere(k) ==
  adv[k].considered = 0 /\ \A i \in Positions : ~Candidate(i, 0)
\* A batch that found nothing, and no candidate is hidden by a lock.
NothingLeft(k) ==
  /\ adv[k].considered = 0
  /\ Dry(k) \/ \A i \in Positions : ~Candidate(i, adv[k].copy.cursor)
BatchEnds(k) ==
  /\ adv[k].at = "end"
  /\ runs' = [runs EXCEPT ![adv[k].run] =
                [adv[k].copy EXCEPT !.status =
                   IF NothingLeft(k) THEN "completed" ELSE @]]
  /\ adv' = [adv EXCEPT ![k] = NoCall]
  /\ UNCHANGED <<docs, units, claims, extr, purge, upsets>>

\* cancel_backfill_run
CancelRun(r) ==
  /\ RunActive(r) /\ RunLockFree(r) /\ ProvUpset
  /\ runs' = [runs EXCEPT ![r].status = "cancelled"]
  /\ UNCHANGED <<docs, units, claims, adv, extr, purge>>

\* The process dies: what was not committed is gone, and so are its locks.
CallDies(k) ==
  /\ adv[k].at # "idle" /\ ProvUpset
  /\ adv' = [adv EXCEPT ![k] = NoCall]
  /\ claims' = [i \in Positions |->
                  IF claims[i].held = k THEN [claims[i] EXCEPT !.held = Nobody]
                  ELSE claims[i]]
  /\ UNCHANGED <<docs, units, runs, extr, purge>>

-----------------------------------------------------------------------------
(* backfill_claim_types                                                    *)

\* The new type of a claim is flushed, and committed a moment later.
TypeFlushed(i) ==
  /\ claims[i].here /\ ~claims[i].typed /\ claims[i].held = Nobody
  /\ ProvUpset
  /\ claims' = [claims EXCEPT ![i].held = Types]
  /\ UNCHANGED <<docs, units, runs, adv, extr, purge>>
TypeCommitted(i) ==
  /\ claims[i].held = Types
  /\ claims' = [claims EXCEPT ![i].held = Nobody, ![i].typed = TRUE, ![i].age = 0]
  /\ UNCHANGED <<docs, units, runs, adv, extr, purge, upsets>>

-----------------------------------------------------------------------------
(* extract_claims_for_document                                             *)

ReadChunk(d) ==
  /\ extr.at = "idle" /\ docs[d] = "live" /\ ProvUpset
  /\ extr' = [at |-> "asked", doc |-> d]
  /\ UNCHANGED <<docs, units, claims, runs, adv, purge>>
\* The foreign keys to the chunk and the document.
ChunkThere(d) == docs[d] = "live"
\* The provider answers with claims: unit and claims are inserted, or the
\* extraction fails for a lost chunk or a unit that is not active.
InsertClaims ==
  /\ extr.at = "asked" /\ ~DocLocked(extr.doc)
  /\ LET key == <<"document_chunk", extr.doc>>
         fits == ChunkThere(extr.doc)
                   /\ (units[key].life = "absent" \/ Usable(key))
     IN  extr' = IF fits THEN [extr EXCEPT !.at = "inserted"]
                 ELSE [at |-> "idle", doc |-> Nobody]
  /\ UNCHANGED <<docs, units, claims, runs, adv, purge, upsets>>
CommitClaims ==
  /\ extr.at = "inserted"
  /\ LET key == <<"document_chunk", extr.doc>>
     IN  units' = IF units[key].life = "absent" THEN Created(key) ELSE units
  /\ extr' = [at |-> "idle", doc |-> Nobody]
  /\ UNCHANGED <<docs, claims, runs, adv, purge, upsets>>
\* The provider fails, finds nothing, or the process dies.
NoClaims ==
  /\ extr.at # "idle"
  /\ extr' = [at |-> "idle", doc |-> Nobody]
  /\ UNCHANGED <<docs, units, claims, runs, adv, purge, upsets>>

-----------------------------------------------------------------------------
(* Purge, transitions, erasure                                             *)

\* transition_own_memory_source(.., 'purged', ..); a purged unit is skipped.
Purged(u) ==
  IF u.life = "absent" THEN u ELSE [life |-> "purged", text |-> FALSE]

\* SELECT ... FOR UPDATE waits for inserts that refer to the document.
PurgeLocks(d) ==
  /\ purge.at = "idle" /\ docs[d] = "live"
  /\ ~(extr.at = "inserted" /\ extr.doc = d) /\ ProvUpset
  /\ purge' = [at |-> "locked", doc |-> d]
  /\ UNCHANGED <<docs, units, claims, runs, adv, extr>>
\* Claims that name the chunk are set to NULL with its deletion.
Touches(i, d) ==
  claims[i].here /\ OldClaims[i].doc = d /\ claims[i].chunk = "ok"
PurgeBlocked ==
  \E i \in Positions : Touches(i, purge.doc) /\ claims[i].held # Nobody
PurgeCommits ==
  /\ purge.at = "locked" /\ ~PurgeBlocked
  /\ LET d == purge.doc
     IN  /\ units' = [k \in Keys |-> IF k[2] = d THEN Purged(units[k])
                                     ELSE units[k]]
         /\ claims' = [i \in Positions |-> IF Touches(i, d)
                         THEN [claims[i] EXCEPT !.chunk = "null"]
                         ELSE claims[i]]
         /\ docs' = [docs EXCEPT ![d] = "deleted"]
  /\ purge' = [at |-> "idle", doc |-> Nobody]
  /\ UNCHANGED <<runs, adv, extr, upsets>>

\* A purge waits for the claim a backfill holds, which waits for the purge's
\* document: PostgreSQL ends one of the two.
Deadlocked(k) ==
  /\ adv[k].at = "claim" /\ ~Dry(k) /\ purge.at = "locked"
  /\ Touches(adv[k].claim, purge.doc)
  /\ units[Resolve(adv[k].claim)].life = "absent"
PurgeAborted ==
  /\ \E k \in ProvCallers : Deadlocked(k)
  /\ purge' = [at |-> "idle", doc |-> Nobody]
  /\ UNCHANGED <<docs, units, claims, runs, adv, extr, upsets>>
\* "unexpected error"
ClaimAborted(k) ==
  /\ Deadlocked(k)
  /\ NextClaim(k, Counted(k, "failed"), TRUE)
  /\ claims' = [claims EXCEPT ![adv[k].claim].held = Nobody]
  /\ UNCHANGED <<docs, units, extr, purge, upsets>>

\* transition_own_memory_source: revoke and restore.
RevokeUnit(key) ==
  /\ units[key].life = "active" /\ ~DocLocked(key[2]) /\ ProvUpset
  /\ units' = [units EXCEPT ![key].life = "revoked"]
  /\ UNCHANGED <<docs, claims, runs, adv, extr, purge>>
RestoreUnit(key) ==
  /\ units[key].life = "revoked" /\ ~DocLocked(key[2]) /\ ProvUpset
  /\ units' = [units EXCEPT ![key].life = "active"]
  /\ UNCHANGED <<docs, claims, runs, adv, extr, purge>>

\* erase_owner_memory, in the transaction that deletes the account's rows.
EraseMemory ==
  /\ \A i \in Positions : claims[i].held = Nobody
  /\ extr.at # "inserted" /\ purge.at = "idle" /\ ProvUpset
  /\ docs' = [d \in ProvDocs |-> "erased"]
  /\ units' = [k \in Keys |-> [life |-> "absent", text |-> FALSE]]
  /\ claims' = [i \in Positions |-> [claims[i] EXCEPT !.here = FALSE]]
  /\ UNCHANGED <<runs, adv, extr, purge>>

-----------------------------------------------------------------------------
AdvanceStep(k) ==
  \/ \E r \in DOMAIN runs : AdvanceStarts(k, r)
  \/ PickClaim(k) \/ OnlyCounts(k) \/ LinkClaim(k) \/ RefuseUnit(k)
  \/ BatchEnds(k)
ProvNext ==
  \/ \E k \in ProvCallers :
       \/ AdvanceStep(k) \/ LooksForRun(k) \/ CallDies(k) \/ ClaimAborted(k)
       \/ \E mode \in {"real", "dry_run"} : InsertsRun(k, mode)
  \/ \E r \in DOMAIN runs : CancelRun(r)
  \/ \E i \in Positions : TypeFlushed(i) \/ TypeCommitted(i)
  \/ \E d \in ProvDocs : ReadChunk(d) \/ PurgeLocks(d)
  \/ InsertClaims \/ CommitClaims \/ NoClaims
  \/ PurgeCommits \/ PurgeAborted
  \/ \E key \in Keys : RevokeUnit(key) \/ RestoreUnit(key)
  \/ EraseMemory

\* The operator advances a run until it ends, as memory_source_run.py:14
\* says; transactions of others end.
ProvFairness ==
  /\ WF_provVars(\E k \in ProvCallers : AdvanceStep(k))
  /\ WF_provVars(\E i \in Positions : TypeCommitted(i))
  /\ WF_provVars(PurgeCommits \/ PurgeAborted)
  /\ WF_provVars(CommitClaims \/ InsertClaims)
ProvSpec == ProvInit /\ [][ProvNext]_provVars /\ ProvFairness

-----------------------------------------------------------------------------
\* Rows stay within their types and check constraints.
ProvTypeOK ==
  /\ docs \in [ProvDocs -> {"live", "deleted", "erased"}]
  /\ \A k \in Keys : /\ units[k].life \in Lives
                     /\ units[k].text => units[k].life \in {"active", "revoked"}
  /\ \A i \in Positions : /\ claims[i].unit \in Keys \cup {NoUnit}
                          /\ claims[i].held \in ProvCallers \cup {Nobody, Types}
  /\ \A r \in DOMAIN runs :
       /\ runs[r].status \in {"pending", "running", "completed", "cancelled"}
       /\ runs[r].cursor \in 0..Len(OldClaims)

\* create_or_resume_backfill_run: requests that look at the same time never
\* lead to two runs at work.
OneActiveRun == Cardinality({r \in DOMAIN runs : RunActive(r)}) <= 1

\* A run's counters say exactly what it did, after kills and beside other
\* calls: every outcome counted once, every link counted as one.
ReportIsExact ==
  \A r \in DOMAIN runs :
    LET run == runs[r]
        linked == {i \in Positions : claims[i].by = r}
    IN  /\ run.processed =
             run.count["exact_chunk"] + run.count["degraded_version"]
             + run.count["missing_document_only"]
             + run.count["skipped_unresolvable"] + run.count["failed"]
        /\ run.mode = "real" =>
             run.count["exact_chunk"] + run.count["degraded_version"]
               + run.count["missing_document_only"] = Cardinality(linked)

\* A completed run left no claim out: what has no unit is in its failures,
\* although locked claims are skipped and the cursor never goes back.
CompletedLeftNone ==
  \A r \in DOMAIN runs :
    (runs[r].status = "completed" /\ runs[r].mode = "real") =>
      \A i \in Positions :
        claims[i].here /\ claims[i].unit = NoUnit => i \in runs[r].failures

\* A rehearsal that is interrupted and resumed counts no claim twice.
RehearsalCountsOnce ==
  \A r \in DOMAIN runs : runs[r].mode = "dry_run" =>
    \A i \in Positions : runs[r].seen[i] <= 1

\* Once a document is deleted, no source unit holds its text, whatever
\* extraction or backfill was under way.
DeletedTextIsGone ==
  \A k \in Keys : units[k].text => docs[k[2]] = "live"

\* No claim is tied to a source that was revoked or purged before the tie.
LinksAreLive ==
  [][\A i \in Positions :
       claims'[i].unit # claims[i].unit =>
         units[claims'[i].unit].life \in {"absent", "active"}]_provVars

\* Every run that is advanced ends.
RunsEnd == []<>(\A r \in DOMAIN runs : ~RunActive(r))

\* The states of the provenance: typed, one run at work, its report exact and
\* complete, and no text kept of a deleted document.
ProvenanceInv ==
  /\ ProvTypeOK /\ OneActiveRun /\ ReportIsExact /\ CompletedLeftNone
  /\ RehearsalCountsOnce /\ DeletedTextIsGone
=============================================================================
