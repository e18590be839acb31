-------------------------- MODULE BlobStorageProofs --------------------------
(***************************************************************************)
(* Proofs about BlobStorage, for any owners, uploads, memos, workers and   *)
(* contents: no blob in use is deleted, an erased account stays erased and *)
(* no blob is forgotten.  The argument for the first: whoever registers or *)
(* deletes a key has its lock (LocksHeld), a new reference is made only by *)
(* a registrar (ReferenceStep) and a deleter saw no reference when it took *)
(* the lock (DeletersRight).                                               *)
(***************************************************************************)
EXTENDS BlobStorage, TLAPS

LEMMA NoTaskTyped ==
  NoTask \in [pc : {"idle", "claimed", "locked"}, task : TaskIds, needed : BOOLEAN]
<1>1. <<"rejected", EmptyKey>> \in TaskIds
  BY StorageConstants DEF TaskIds
<1>2. (CHOOSE t \in TaskIds : TRUE) \in TaskIds
  BY <1>1
<1> QED
  BY <1>2 DEF NoTask

\* What the code writes into a row keeps the row typed.
LEMMA RowUpdates ==
  /\ \A j \in ImportJobRows :
       /\ \A s \in JobStatuses : [j EXCEPT !.status = s] \in ImportJobRows
       /\ [j EXCEPT !.lease = FALSE] \in ImportJobRows
  /\ \A d \in DocumentRows :
       /\ \A s \in {"none", "open", "indexed", "cancelled"} :
            [d EXCEPT !.status = s] \in DocumentRows
       /\ [d EXCEPT !.key = TRUE] \in DocumentRows
       /\ [d EXCEPT !.deleted = TRUE] \in DocumentRows
       /\ \A s \in {"none", "pending", "purged", "failed"} :
            [d EXCEPT !.deletion = s] \in DocumentRows
<1>1. \A j \in ImportJobRows :
       /\ \A s \in JobStatuses : [j EXCEPT !.status = s] \in ImportJobRows
       /\ [j EXCEPT !.lease = FALSE] \in ImportJobRows
  BY DEF ImportJobRows
<1>2. \A d \in DocumentRows :
       /\ \A s \in {"none", "open", "indexed", "cancelled"} :
            [d EXCEPT !.status = s] \in DocumentRows
       /\ [d EXCEPT !.key = TRUE] \in DocumentRows
       /\ [d EXCEPT !.deleted = TRUE] \in DocumentRows
       /\ \A s \in {"none", "pending", "purged", "failed"} :
            [d EXCEPT !.deletion = s] \in DocumentRows
  BY DEF DocumentRows
<1> QED
  BY <1>1, <1>2

LockTable == [Keys -> Holders \cup {<<>>}]

\* Taking, freeing and losing a lock keeps the lock table typed.
LEMMA LockTypes ==
  ASSUME TypeOK
  PROVE  /\ \A k \in Keys, who \in Holders : LockKey(k, who) => keyLock' \in LockTable
         /\ \A k \in Keys : UnlockKey(k) => keyLock' \in LockTable
         /\ \A who \in Holders : UnlockAll(who) => keyLock' \in LockTable
         /\ UNCHANGED keyLock => keyLock' \in LockTable
  BY DEF TypeOK, LockKey, UnlockKey, UnlockAll, LockTable

LEMMA WhoTypes ==
  /\ \A u \in Uploads : /\ <<"upload", u>> \in Holders
                        /\ <<"import", u>> \in Holders
                        /\ <<"purge", u>> \in Holders
  /\ \A m \in Memos : <<"memo", m>> \in Holders
  /\ \A c \in Cleaners : <<"task", c>> \in Holders
  BY DEF Holders

LEMMA InitTyped == Init => TypeOK
<1> SUFFICES ASSUME Init PROVE TypeOK
  OBVIOUS
<1> QED
  BY StorageConstants, NoTaskTyped DEF Init, TypeOK, NoJob, NoDoc, ImportJobRows, DocumentRows, JobStatuses, DeletionTaskRows

\* Every step keeps the table of key locks typed.
LEMMA LockTableTyped ==
  ASSUME TypeOK, [Next]_vars
  PROVE  keyLock' \in LockTable
<1> USE LockTypes, WhoTypes
<1>0. /\ EmptyKey \in Keys
      /\ \A u \in Uploads : RawKey[u] \in Keys /\ FileKey[u] \in Keys
      /\ \A m \in Memos : MemoKey[m] \in Keys
      /\ \A c \in Cleaners : KeyOf(cleaner[c].task) \in Keys
  BY StorageConstants DEF TypeOK, TaskIds, KeyOf
<1>1. ASSUME NEW u \in Uploads, Accept(u) \/ Uploading(u) \/ KillUpload(u)
      PROVE  keyLock' \in LockTable
  BY <1>0, <1>1 DEF Accept, Uploading, WriteUpload, CheckRejected, DeleteRejected,
       ReturnDuplicate, LockUpload, CommitUpload, KillUpload
<1>2. ASSUME NEW u \in Uploads,
             ClaimJob(u) \/ Importing(u) \/ KillImport(u) \/ LapseImport(u)
      PROVE  keyLock' \in LockTable
  BY <1>0, <1>2 DEF ClaimJob, Importing, CreateDoc, StoreFile, LockFile, CommitFile,
       RetainFile, FinishJob, KillImport, LapseImport
<1>3. ASSUME NEW m \in Memos, WriteMemo(m) \/ Remembering(m)
      PROVE  keyLock' \in LockTable
  BY <1>0, <1>3 DEF WriteMemo, Remembering, LockMemo, CommitMemo, RetainMemo
<1>4. ASSUME NEW u \in Uploads, PurgeSource(u) \/ Purging(u) \/ KillPurge(u)
      PROVE  keyLock' \in LockTable
  BY <1>0, <1>4 DEF PurgeSource, Purging, PurgeCheck, PurgeBlob, KillPurge
<1>5. ASSUME NEW o \in Owners, Erase(o) PROVE keyLock' \in LockTable
  BY <1>5 DEF Erase
<1>6. ASSUME NEW c \in Cleaners, Cleaning(c) \/ KillCleaner(c)
      PROVE  keyLock' \in LockTable
  BY <1>0, <1>6 DEF Cleaning, ClaimTask, AttemptCheck, AttemptEnd, KillCleaner
<1>7. CASE UNCHANGED vars
  BY <1>7 DEF vars
<1> QED
  BY <1>1, <1>2, <1>3, <1>4, <1>5, <1>6, <1>7 DEF Next

JobTable == [Uploads -> ImportJobRows]
DocTable == [Uploads -> DocumentRows]
TaskTable == [TaskIds -> DeletionTaskRows]

\* Every step keeps the tables of jobs, documents and deletion tasks typed.
LEMMA TablesTyped ==
  ASSUME TypeOK, [Next]_vars
  PROVE  jobs' \in JobTable /\ docs' \in DocTable /\ tasks' \in TaskTable
<1>1. jobs \in JobTable /\ docs \in DocTable /\ tasks \in TaskTable
  BY DEF TypeOK, JobTable, DocTable, TaskTable
<1>2. \A u \in Uploads : jobs[u] \in ImportJobRows /\ docs[u] \in DocumentRows
  BY <1>1 DEF JobTable, DocTable
<1> USE <1>1, RowUpdates DEF rows
<1>3. ASSUME NEW u \in Uploads, Accept(u) \/ Uploading(u) \/ KillUpload(u)
      PROVE  jobs' \in JobTable /\ docs' \in DocTable /\ tasks' \in TaskTable
  <2>1. CASE DeleteRejected(u)
    BY <2>1 DEF DeleteRejected, TaskTable, DeletionTaskRows, Outstanding
  <2>2. CASE CommitUpload(u)
    BY <1>2, <2>2 DEF CommitUpload, JobStatuses, JobTable, DocTable
  <2> QED
    BY <1>3, <2>1, <2>2 DEF Accept, Uploading, WriteUpload, CheckRejected,
         ReturnDuplicate, LockUpload, KillUpload
<1>4. ASSUME NEW u \in Uploads,
             ClaimJob(u) \/ Importing(u) \/ KillImport(u) \/ LapseImport(u)
      PROVE  jobs' \in JobTable /\ docs' \in DocTable /\ tasks' \in TaskTable
  <2>1. CASE ClaimJob(u)
    BY <2>1 DEF ClaimJob, JobTable, ImportJobRows, JobStatuses
  <2>2. CASE CreateDoc(u)
    BY <1>2, <2>2 DEF CreateDoc, DocTable
  <2>3. CASE CommitFile(u)
    <3>1. [[docs[u] EXCEPT !.key = TRUE] EXCEPT !.status = "open"] \in DocumentRows
      BY <1>2
    <3> QED
      BY <2>3, <3>1 DEF CommitFile, DocTable
  <2>4. CASE RetainFile(u)
    BY <2>4 DEF RetainFile, Retain, TaskTable, DeletionTaskRows
  <2>5. CASE FinishJob(u)
    <3>1. docs' \in DocTable
      BY <1>2, <2>5 DEF FinishJob, DocTable
    <3>2. jobs' \in JobTable
      BY <1>2, <2>5 DEF FinishJob, JobTable, ImportJobRows, JobStatuses
    <3> QED
      BY <2>5, <3>1, <3>2 DEF FinishJob
  <2>6. CASE KillImport(u) \/ LapseImport(u)
    BY <1>2, <2>6 DEF KillImport, LapseImport, JobTable
  <2> QED
    BY <1>4, <2>1, <2>2, <2>3, <2>4, <2>5, <2>6 DEF Importing, StoreFile, LockFile
<1>5. ASSUME NEW m \in Memos, WriteMemo(m) \/ Remembering(m)
      PROVE  jobs' \in JobTable /\ docs' \in DocTable /\ tasks' \in TaskTable
  BY <1>5 DEF WriteMemo, Remembering, LockMemo, CommitMemo, RetainMemo, Retain,
       TaskTable, DeletionTaskRows
<1>6. ASSUME NEW u \in Uploads, PurgeSource(u) \/ Purging(u) \/ KillPurge(u)
      PROVE  jobs' \in JobTable /\ docs' \in DocTable /\ tasks' \in TaskTable
  <2>1. CASE PurgeSource(u)
    <3>1. docs' \in DocTable
      BY <1>2, <2>1 DEF PurgeSource, DocTable
    <3>2. jobs' \in JobTable
      BY <1>2, <2>1 DEF PurgeSource, JobTable, JobStatuses
    <3> QED
      BY <2>1, <3>1, <3>2 DEF PurgeSource
  <2>2. CASE PurgeBlob(u)
    BY <1>2, <2>2 DEF PurgeBlob, DocTable
  <2> QED
    BY <1>6, <2>1, <2>2 DEF Purging, PurgeCheck, KillPurge
<1>7. ASSUME NEW o \in Owners, Erase(o)
      PROVE  jobs' \in JobTable /\ docs' \in DocTable /\ tasks' \in TaskTable
  <2>1. NoJob \in ImportJobRows /\ NoDoc \in DocumentRows
    BY DEF NoJob, NoDoc, ImportJobRows, DocumentRows, JobStatuses
  <2> QED
    BY <1>2, <1>7, <2>1 DEF Erase, JobTable, DocTable, TaskTable, DeletionTaskRows,
         Outstanding
<1>8. ASSUME NEW c \in Cleaners, Cleaning(c) \/ KillCleaner(c)
      PROVE  jobs' \in JobTable /\ docs' \in DocTable /\ tasks' \in TaskTable
  BY <1>8 DEF Cleaning, ClaimTask, AttemptCheck, AttemptEnd, KillCleaner, TaskTable,
       DeletionTaskRows, Outstanding
<1>9. CASE UNCHANGED vars
  BY <1>9 DEF vars
<1> QED
  BY <1>3, <1>4, <1>5, <1>6, <1>7, <1>8, <1>9 DEF Next

Tables == keyLock' \in LockTable /\ jobs' \in JobTable /\ docs' \in DocTable /\ tasks' \in TaskTable

\* The rest of TypeOK: sets of keys, local states and counters.
LEMMA StatesTyped ==
  ASSUME TypeOK, Tables, Next
  PROVE  TypeOK'
<1> USE StorageConstants, NoTaskTyped DEF TypeOK, Tables, JobTable, DocTable, TaskTable, LockTable, rows
<1>1. ASSUME NEW u \in Uploads, Accept(u) \/ Uploading(u) \/ KillUpload(u)
      PROVE  TypeOK'
  <2> USE DEF EndUpload, Step, At
  <2>1. CASE Accept(u)
    BY <2>1 DEF Accept
  <2>2. CASE WriteUpload(u)
    BY <2>2 DEF WriteUpload, Publish
  <2>6. CASE CheckRejected(u)
    BY <2>6 DEF CheckRejected
  <2>3. CASE DeleteRejected(u)
    BY <2>3 DEF DeleteRejected, MayFail
  <2>4. CASE ReturnDuplicate(u) \/ LockUpload(u) \/ CommitUpload(u)
    BY <2>4 DEF ReturnDuplicate, LockUpload, CommitUpload
  <2>5. CASE KillUpload(u)
    BY <2>5 DEF KillUpload, MayFail
  <2> QED
    BY <1>1, <2>1, <2>2, <2>3, <2>4, <2>5, <2>6 DEF Uploading
<1>2. ASSUME NEW u \in Uploads,
             ClaimJob(u) \/ Importing(u) \/ KillImport(u) \/ LapseImport(u)
      PROVE  TypeOK'
  <2> USE DEF ImportStep
  <2>1. CASE ClaimJob(u) \/ CreateDoc(u) \/ FinishJob(u)
    BY <2>1 DEF ClaimJob, CreateDoc, FinishJob
  <2>2. CASE StoreFile(u) \/ LockFile(u)
    BY <2>2 DEF StoreFile, LockFile, Publish
  <2>3. CASE CommitFile(u)
    BY <2>3 DEF CommitFile
  <2>5. CASE RetainFile(u)
    <3>1. leaked' \subseteq Keys /\ import' = [import EXCEPT ![u] = "finish"]
      BY <2>5 DEF RetainFile
    <3> QED
      BY <2>5, <3>1 DEF RetainFile
  <2>4. CASE KillImport(u) \/ LapseImport(u)
    BY <2>4 DEF KillImport, LapseImport, MayFail, clients
  <2> QED
    BY <1>2, <2>1, <2>2, <2>3, <2>4, <2>5 DEF Importing
<1>3. ASSUME NEW m \in Memos, WriteMemo(m) \/ Remembering(m)
      PROVE  TypeOK'
  BY <1>3 DEF WriteMemo, Remembering, LockMemo, CommitMemo, RetainMemo, MemoStep, Publish
<1>4. ASSUME NEW u \in Uploads, PurgeSource(u) \/ Purging(u) \/ KillPurge(u)
      PROVE  TypeOK'
  <2> USE DEF PurgeStep
  <2>1. CASE PurgeSource(u)
    BY <2>1 DEF PurgeSource, MayDelete
  <2>2. CASE Purging(u)
    BY <2>2 DEF Purging, PurgeCheck, PurgeBlob, MayFail
  <2>3. CASE KillPurge(u)
    BY <2>3 DEF KillPurge, MayFail
  <2> QED
    BY <1>4, <2>1, <2>2, <2>3
<1>5. ASSUME NEW o \in Owners, Erase(o) PROVE TypeOK'
  BY <1>5 DEF Erase, MayDelete, clients
<1>6. ASSUME NEW c \in Cleaners, Cleaning(c) \/ KillCleaner(c)
      PROVE  TypeOK'
  <2>0. cleaner[c].task \in TaskIds /\ KeyOf(cleaner[c].task) \in Keys
    BY DEF TaskIds, KeyOf
  <2>1. ASSUME NEW t \in TaskIds, ClaimTask(c, t) PROVE TypeOK'
    BY <2>1 DEF ClaimTask
  <2>2. CASE AttemptCheck(c)
    BY <2>0, <2>2 DEF AttemptCheck
  <2>3. CASE AttemptEnd(c)
    BY <2>0, <2>3 DEF AttemptEnd, MayFail
  <2>4. CASE KillCleaner(c)
    BY <2>4 DEF KillCleaner, MayFail
  <2> QED
    BY <1>6, <2>1, <2>2, <2>3, <2>4 DEF Cleaning
<1> QED
  BY <1>1, <1>2, <1>3, <1>4, <1>5, <1>6 DEF Next

LEMMA TypeStep ==
  ASSUME TypeOK, [Next]_vars
  PROVE  TypeOK'
<1>1. Tables
  BY LockTableTyped, TablesTyped DEF Tables
<1>2. CASE UNCHANGED vars
  BY <1>2 DEF TypeOK, vars
<1> QED
  BY <1>1, <1>2, StatesTyped

-----------------------------------------------------------------------------
(* Whoever relies on a key's lock has it                                   *)

UploadClaim(w, k) ==
  \E u \in Uploads : /\ w = <<"upload", u>> /\ k = RawKey[u]
                     /\ upload[u] \in {"locked", "keep", "delete"}
ImportClaim(w, k) ==
  \E u \in Uploads : w = <<"import", u>> /\ k = FileKey[u] /\ import[u] = "commit"
PurgeClaim(w, k) ==
  \E u \in Uploads : /\ w = <<"purge", u>> /\ k = FileKey[u]
                     /\ purge[u] \in {"keep", "delete"}
MemoClaim(w, k) ==
  \E m \in Memos : w = <<"memo", m>> /\ k = MemoKey[m] /\ memo[m] = "commit"
TaskClaim(w, k) ==
  \E c \in Cleaners : /\ w = <<"task", c>> /\ k = KeyOf(cleaner[c].task)
                      /\ cleaner[c].pc = "locked"

Claims(w, k) ==
  \/ UploadClaim(w, k) \/ ImportClaim(w, k) \/ PurgeClaim(w, k)
  \/ MemoClaim(w, k) \/ TaskClaim(w, k)

LocksHeld == \A w \in Holders, k \in Keys : Claims(w, k) => keyLock[k] = w

\* Only an empty upload is rejected.
RejectedEmpty ==
  \A u \in Uploads : upload[u] \in {"reject", "keep", "delete"} => RawKey[u] = EmptyKey

LEMMA RejectedEmptyStep ==
  ASSUME TypeOK, RejectedEmpty, [Next]_vars
  PROVE  RejectedEmpty'
<1>1. CASE UNCHANGED upload
  BY <1>1 DEF RejectedEmpty
<1>2. ASSUME NEW u \in Uploads, Accept(u) \/ Uploading(u) \/ KillUpload(u)
      PROVE  RejectedEmpty'
  BY <1>2 DEF TypeOK, RejectedEmpty, Accept, Uploading, WriteUpload, CheckRejected,
       DeleteRejected, ReturnDuplicate, LockUpload, CommitUpload, KillUpload, EndUpload,
       Step, At
<1> QED
  BY <1>1, <1>2 DEF Next, vars, ClaimJob, Importing, CreateDoc, StoreFile, LockFile,
       CommitFile, RetainFile, FinishJob, KillImport, LapseImport, clients, WriteMemo,
       Remembering, LockMemo, CommitMemo, RetainMemo, PurgeSource, Purging, PurgeCheck,
       PurgeBlob, KillPurge, Erase, Cleaning, ClaimTask, AttemptCheck, AttemptEnd,
       KillCleaner

\* A lock is taken by the one who comes to claim the key, and freed by the one
\* who claims it no more.
LEMMA LockTaken ==
  ASSUME TypeOK, LocksHeld, NEW k0 \in Keys, NEW w0 \in Holders, LockKey(k0, w0),
         \A w \in Holders, k \in Keys :
           Claims(w, k)' => Claims(w, k) \/ (w = w0 /\ k = k0)
  PROVE  LocksHeld'
<1> USE DEF LocksHeld, LockKey
<1>1. <<>> \notin Holders /\ keyLock \in [Keys -> Holders \cup {<<>>}]
  BY DEF Holders, TypeOK
<1> QED
  BY <1>1

LEMMA LockFreed ==
  ASSUME TypeOK, LocksHeld, NEW k0 \in Keys, NEW w0 \in Holders, UnlockKey(k0), Claims(w0, k0),
         \A w \in Holders, k \in Keys : Claims(w, k)' => Claims(w, k) /\ w # w0
  PROVE  LocksHeld'
  BY DEF LocksHeld, UnlockKey, TypeOK

LEMMA LocksDropped ==
  ASSUME TypeOK, LocksHeld, NEW w0 \in Holders, UnlockAll(w0),
         \A w \in Holders, k \in Keys : Claims(w, k)' => Claims(w, k) /\ w # w0
  PROVE  LocksHeld'
  BY DEF LocksHeld, UnlockAll, TypeOK

LEMMA LocksKept ==
  ASSUME LocksHeld, UNCHANGED keyLock,
         \A w \in Holders, k \in Keys : Claims(w, k)' => Claims(w, k)
  PROVE  LocksHeld'
  BY DEF LocksHeld

\* A claim depends on one local state only.
LEMMA ClaimFrames ==
  ASSUME NEW w, NEW k
  PROVE  /\ UNCHANGED upload => UploadClaim(w, k)' = UploadClaim(w, k)
         /\ UNCHANGED import => ImportClaim(w, k)' = ImportClaim(w, k)
         /\ UNCHANGED purge => PurgeClaim(w, k)' = PurgeClaim(w, k)
         /\ UNCHANGED memo => MemoClaim(w, k)' = MemoClaim(w, k)
         /\ UNCHANGED cleaner => TaskClaim(w, k)' = TaskClaim(w, k)
  BY DEF UploadClaim, ImportClaim, PurgeClaim, MemoClaim, TaskClaim

LEMMA ClaimKinds ==
  ASSUME NEW w, NEW k
  PROVE  /\ UploadClaim(w, k) => w[1] = "upload"
         /\ ImportClaim(w, k) => w[1] = "import"
         /\ PurgeClaim(w, k) => w[1] = "purge"
         /\ MemoClaim(w, k) => w[1] = "memo"
         /\ TaskClaim(w, k) => w[1] = "task"
  BY DEF UploadClaim, ImportClaim, PurgeClaim, MemoClaim, TaskClaim

LEMMA UploadLocks ==
  ASSUME TypeOK, RejectedEmpty, LocksHeld, NEW u \in Uploads,
         Accept(u) \/ Uploading(u) \/ KillUpload(u)
  PROVE  LocksHeld'
<1> DEFINE w0 == <<"upload", u>>
<1>0. w0 \in Holders /\ RawKey[u] \in Keys /\ EmptyKey \in Keys /\ w0[1] = "upload"
  BY WhoTypes, StorageConstants
<1>1. UNCHANGED <<import, purge, memo, cleaner>>
  BY DEF Accept, Uploading, WriteUpload, CheckRejected, DeleteRejected,
       ReturnDuplicate, LockUpload, CommitUpload, KillUpload
<1>2. ASSUME NEW w, NEW k, upload'[u] \notin {"locked", "keep", "delete"}, \E pc : Step(u, pc), Claims(w, k)'
      PROVE  Claims(w, k) /\ w # w0
  <2>1. CASE UploadClaim(w, k)'
    BY <1>2, <2>1 DEF TypeOK, UploadClaim, Step, Claims
  <2> QED
    BY <1>0, <1>1, <1>2, <2>1, ClaimFrames, ClaimKinds DEF Claims
<1>3. ASSUME NEW w, NEW k, NEW pc, Step(u, pc), Claims(w, k)'
      PROVE  Claims(w, k) \/ (w = w0 /\ k = RawKey[u])
  <2>1. CASE UploadClaim(w, k)'
    <3>1. PICK v \in Uploads : /\ w = <<"upload", v>> /\ k = RawKey[v]
                              /\ upload'[v] \in {"locked", "keep", "delete"}
      BY <2>1 DEF UploadClaim
    <3>2. CASE v # u
      BY <1>3, <3>1, <3>2 DEF TypeOK, UploadClaim, Step, Claims
    <3> QED
      BY <3>1, <3>2
  <2>2. CASE ~UploadClaim(w, k)'
    BY <1>1, <1>3, <2>2, ClaimFrames DEF Claims
  <2> QED
    BY <2>1, <2>2
<1>4. ASSUME upload[u] \in {"locked", "keep", "delete"}
      PROVE Claims(w0, RawKey[u])
  BY <1>4 DEF Claims, UploadClaim
<1>5. \A pc : Step(u, pc) => upload'[u] = pc
  BY DEF Step, TypeOK
<1> HIDE DEF w0
<1> USE DEF EndUpload, At, rows
<1>6. CASE Accept(u) \/ WriteUpload(u) \/ ReturnDuplicate(u)
  BY <1>0, <1>2, <1>5, <1>6, LocksKept DEF Accept, WriteUpload, ReturnDuplicate
<1>7. CASE CheckRejected(u)
  BY <1>0, <1>3, <1>7, LockTaken DEF CheckRejected, RejectedEmpty, w0
<1>8. CASE DeleteRejected(u)
  BY <1>0, <1>2, <1>4, <1>5, <1>8, LockFreed DEF DeleteRejected, RejectedEmpty
<1>9. CASE LockUpload(u)
  BY <1>0, <1>2, <1>3, <1>5, <1>9, LockTaken, LocksKept DEF LockUpload, w0
<1>10. CASE CommitUpload(u)
  BY <1>0, <1>2, <1>4, <1>5, <1>10, LockFreed DEF CommitUpload
<1>11. CASE KillUpload(u)
  BY <1>0, <1>2, <1>5, <1>11, LocksDropped DEF KillUpload, w0
<1> QED
  BY <1>6, <1>7, <1>8, <1>9, <1>10, <1>11 DEF Uploading

LEMMA ImportLocks ==
  ASSUME TypeOK, LocksHeld, NEW u \in Uploads,
         ClaimJob(u) \/ Importing(u) \/ KillImport(u) \/ LapseImport(u)
  PROVE  LocksHeld'
<1> DEFINE w0 == <<"import", u>>
<1>0. w0 \in Holders /\ FileKey[u] \in Keys /\ w0[1] = "import"
  BY WhoTypes, StorageConstants
<1>1. UNCHANGED <<upload, purge, memo, cleaner>>
  BY DEF ClaimJob, Importing, CreateDoc, StoreFile, LockFile, CommitFile, RetainFile,
       FinishJob, KillImport, LapseImport, clients
<1>2. ASSUME NEW w, NEW k, import'[u] # "commit", \E pc : ImportStep(u, pc), Claims(w, k)'
      PROVE  Claims(w, k) /\ w # w0
  <2>1. CASE ImportClaim(w, k)'
    BY <1>2, <2>1 DEF TypeOK, ImportClaim, ImportStep, Claims
  <2> QED
    BY <1>0, <1>1, <1>2, <2>1, ClaimFrames, ClaimKinds DEF Claims
<1>3. ASSUME NEW w, NEW k, NEW pc, ImportStep(u, pc), Claims(w, k)'
      PROVE  Claims(w, k) \/ (w = w0 /\ k = FileKey[u])
  <2>1. CASE ImportClaim(w, k)'
    BY <1>3, <2>1 DEF TypeOK, ImportClaim, ImportStep, Claims
  <2> QED
    BY <1>1, <1>3, <2>1, ClaimFrames DEF Claims
<1>4. ASSUME import[u] = "commit"
      PROVE  Claims(w0, FileKey[u])
  BY <1>4 DEF Claims, ImportClaim
<1>5. \A pc : ImportStep(u, pc) => import'[u] = pc
  BY DEF ImportStep, TypeOK
<1> HIDE DEF w0
<1> USE DEF rows
<1>6. CASE ClaimJob(u) \/ CreateDoc(u) \/ StoreFile(u) \/ RetainFile(u) \/ FinishJob(u)
  BY <1>0, <1>2, <1>5, <1>6, LocksKept DEF ClaimJob, CreateDoc, StoreFile, RetainFile,
       FinishJob
<1>7. CASE LockFile(u)
  BY <1>0, <1>3, <1>7, LockTaken DEF LockFile, w0
<1>8. CASE CommitFile(u)
  BY <1>0, <1>2, <1>4, <1>5, <1>8, LockFreed DEF CommitFile
<1>9. CASE KillImport(u)
  BY <1>0, <1>2, <1>5, <1>9, LocksDropped DEF KillImport, w0
<1>10. CASE LapseImport(u)
  BY <1>1, <1>10, ClaimFrames, LocksKept DEF LapseImport, clients, Claims
<1> QED
  BY <1>6, <1>7, <1>8, <1>9, <1>10 DEF Importing

LEMMA MemoLocks ==
  ASSUME TypeOK, LocksHeld, NEW m \in Memos, WriteMemo(m) \/ Remembering(m)
  PROVE  LocksHeld'
<1> DEFINE w0 == <<"memo", m>>
<1>0. w0 \in Holders /\ MemoKey[m] \in Keys /\ w0[1] = "memo"
  BY WhoTypes, StorageConstants
<1>1. UNCHANGED <<upload, import, purge, cleaner>>
  BY DEF WriteMemo, Remembering, LockMemo, CommitMemo, RetainMemo
<1>2. ASSUME NEW w, NEW k, memo'[m] # "commit", \E pc : MemoStep(m, pc), Claims(w, k)'
      PROVE  Claims(w, k) /\ w # w0
  <2>1. CASE MemoClaim(w, k)'
    BY <1>2, <2>1 DEF TypeOK, MemoClaim, MemoStep, Claims
  <2> QED
    BY <1>0, <1>1, <1>2, <2>1, ClaimFrames, ClaimKinds DEF Claims
<1>3. ASSUME NEW w, NEW k, NEW pc, MemoStep(m, pc), Claims(w, k)'
      PROVE  Claims(w, k) \/ (w = w0 /\ k = MemoKey[m])
  <2>1. CASE MemoClaim(w, k)'
    BY <1>3, <2>1 DEF TypeOK, MemoClaim, MemoStep, Claims
  <2> QED
    BY <1>1, <1>3, <2>1, ClaimFrames DEF Claims
<1>4. ASSUME memo[m] = "commit"
      PROVE  Claims(w0, MemoKey[m])
  BY <1>4 DEF Claims, MemoClaim
<1>5. \A pc : MemoStep(m, pc) => memo'[m] = pc
  BY DEF MemoStep, TypeOK
<1> HIDE DEF w0
<1>6. CASE WriteMemo(m) \/ RetainMemo(m)
  BY <1>0, <1>2, <1>5, <1>6, LocksKept DEF WriteMemo, RetainMemo
<1>7. CASE LockMemo(m)
  BY <1>0, <1>3, <1>7, LockTaken DEF LockMemo, w0
<1>8. CASE CommitMemo(m)
  BY <1>0, <1>2, <1>4, <1>5, <1>8, LockFreed DEF CommitMemo
<1> QED
  BY <1>6, <1>7, <1>8 DEF Remembering

LEMMA PurgeLocks ==
  ASSUME TypeOK, LocksHeld, NEW u \in Uploads,
         PurgeSource(u) \/ Purging(u) \/ KillPurge(u)
  PROVE  LocksHeld'
<1> DEFINE w0 == <<"purge", u>>
<1>0. w0 \in Holders /\ FileKey[u] \in Keys /\ w0[1] = "purge"
  BY WhoTypes, StorageConstants
<1>1. UNCHANGED <<upload, import, memo, cleaner>>
  BY DEF PurgeSource, Purging, PurgeCheck, PurgeBlob, KillPurge
<1>2. ASSUME NEW w, NEW k, purge'[u] \notin {"keep", "delete"}, \E pc : PurgeStep(u, pc), Claims(w, k)'
      PROVE  Claims(w, k) /\ w # w0
  <2>1. CASE PurgeClaim(w, k)'
    BY <1>2, <2>1 DEF TypeOK, PurgeClaim, PurgeStep, Claims
  <2> QED
    BY <1>0, <1>1, <1>2, <2>1, ClaimFrames, ClaimKinds DEF Claims
<1>3. ASSUME NEW w, NEW k, NEW pc, PurgeStep(u, pc), Claims(w, k)'
      PROVE  Claims(w, k) \/ (w = w0 /\ k = FileKey[u])
  <2>1. CASE PurgeClaim(w, k)'
    BY <1>3, <2>1 DEF TypeOK, PurgeClaim, PurgeStep, Claims
  <2> QED
    BY <1>1, <1>3, <2>1, ClaimFrames DEF Claims
<1>4. ASSUME purge[u] \in {"keep", "delete"}
      PROVE  Claims(w0, FileKey[u])
  BY <1>4 DEF Claims, PurgeClaim
<1>5. \A pc : PurgeStep(u, pc) => purge'[u] = pc
  BY DEF PurgeStep, TypeOK
<1> HIDE DEF w0
<1>6. CASE PurgeSource(u)
  BY <1>0, <1>2, <1>5, <1>6, LocksKept DEF PurgeSource
<1>7. CASE PurgeCheck(u)
  BY <1>0, <1>2, <1>3, <1>5, <1>7, LockTaken, LocksKept DEF PurgeCheck, w0
<1>8. CASE PurgeBlob(u)
  BY <1>0, <1>2, <1>4, <1>5, <1>8, LockFreed DEF PurgeBlob
<1>9. CASE KillPurge(u)
  BY <1>0, <1>2, <1>5, <1>9, LocksDropped DEF KillPurge, w0
<1> QED
  BY <1>6, <1>7, <1>8, <1>9 DEF Purging

LEMMA CleanerLocks ==
  ASSUME TypeOK, LocksHeld, NEW c \in Cleaners, Cleaning(c) \/ KillCleaner(c)
  PROVE  LocksHeld'
<1> DEFINE w0 == <<"task", c>>
           key == KeyOf(cleaner[c].task)
<1>0. w0 \in Holders /\ key \in Keys /\ w0[1] = "task"
  BY WhoTypes DEF TypeOK, TaskIds, KeyOf
<1>1. UNCHANGED <<upload, import, purge, memo>>
  BY DEF Cleaning, ClaimTask, AttemptCheck, AttemptEnd, KillCleaner
<1>2. ASSUME NEW w, NEW k, NEW x, cleaner' = [cleaner EXCEPT ![c] = x], x.pc # "locked",
             Claims(w, k)'
      PROVE  Claims(w, k) /\ w # w0
  <2>1. CASE TaskClaim(w, k)'
    BY <1>2, <2>1 DEF TypeOK, TaskClaim, Claims
  <2> QED
    BY <1>0, <1>1, <1>2, <2>1, ClaimFrames, ClaimKinds DEF Claims
<1>3. ASSUME NEW w, NEW k, NEW x, cleaner' = [cleaner EXCEPT ![c] = x],
             x.task = cleaner[c].task, Claims(w, k)'
      PROVE  Claims(w, k) \/ (w = w0 /\ k = key)
  <2>1. CASE TaskClaim(w, k)'
    BY <1>3, <2>1 DEF TypeOK, TaskClaim, Claims
  <2> QED
    BY <1>1, <1>3, <2>1, ClaimFrames DEF Claims
<1>4. ASSUME cleaner[c].pc = "locked"
      PROVE  Claims(w0, key)
  BY <1>4 DEF Claims, TaskClaim
<1>5. NoTask.pc # "locked"
  BY DEF NoTask
<1> HIDE DEF w0, key
<1>6. ASSUME NEW t \in TaskIds, ClaimTask(c, t) PROVE LocksHeld'
  <2> DEFINE x == [pc |-> "claimed", task |-> t, needed |-> FALSE]
  <2>1. x.pc # "locked"
    OBVIOUS
  <2> HIDE DEF x
  <2> QED
    BY <1>0, <1>2, <1>6, <2>1, LocksKept DEF ClaimTask, x
<1>7. CASE AttemptCheck(c)
  <2>1. CASE tasks[cleaner[c].task] \in Outstanding
    <3> DEFINE x == [cleaner[c] EXCEPT !.pc = "locked", !.needed = Referenced(key)]
    <3>1. x.task = cleaner[c].task
      BY DEF TypeOK
    <3>2. cleaner' = [cleaner EXCEPT ![c] = x] /\ LockKey(key, w0)
      BY <1>7, <2>1 DEF AttemptCheck, key, w0
    <3> HIDE DEF x
    <3> QED
      BY <1>0, <1>3, <3>1, <3>2, LockTaken
  <2>2. CASE tasks[cleaner[c].task] \notin Outstanding
    BY <1>0, <1>2, <1>5, <1>7, <2>2, LocksKept DEF AttemptCheck
  <2> QED
    BY <2>1, <2>2
<1>8. CASE AttemptEnd(c)
  <2>1. cleaner[c].pc = "locked" /\ cleaner' = [cleaner EXCEPT ![c] = NoTask] /\ UnlockKey(key)
    BY <1>8 DEF AttemptEnd, key
  <2> QED
    BY <1>0, <1>2, <1>4, <1>5, <2>1, LockFreed
<1>9. CASE KillCleaner(c)
  <2>1. cleaner' = [cleaner EXCEPT ![c] = NoTask] /\ UnlockAll(w0)
    BY <1>9 DEF KillCleaner, w0
  <2> QED
    BY <1>0, <1>2, <1>5, <2>1, LocksDropped
<1> QED
  BY <1>6, <1>7, <1>8, <1>9 DEF Cleaning

LEMMA LocksHeldStep ==
  ASSUME TypeOK, RejectedEmpty, LocksHeld, [Next]_vars
  PROVE  LocksHeld'
<1>1. ASSUME NEW o \in Owners, Erase(o) PROVE LocksHeld'
  BY <1>1, ClaimFrames, LocksKept DEF Erase, clients, Claims
<1>2. CASE UNCHANGED vars
  BY <1>2, ClaimFrames, LocksKept DEF vars, Claims
<1> QED
  BY <1>1, <1>2, UploadLocks, ImportLocks, MemoLocks, PurgeLocks, CleanerLocks DEF Next

-----------------------------------------------------------------------------
(* The rows of an upload, its document and its owner's account             *)

\* A request that is under way has its owner's lock, and the account is there.
OwnersHeld ==
  \A u \in Uploads : upload[u] \notin {"none", "end"} =>
                       ownerLock[OwnerOf[u]] = u /\ OwnerOf[u] \in account

LEMMA OwnersHeldStep ==
  ASSUME TypeOK, OwnersHeld, [Next]_vars
  PROVE  OwnersHeld'
<1>0. /\ \A u \in Uploads : OwnerOf[u] \in Owners /\ u # "free"
      /\ ownerLock \in [Owners -> Uploads \cup {"free"}]
      /\ DOMAIN upload = Uploads
  BY StorageConstants DEF TypeOK
<1>1. CASE UNCHANGED <<upload, ownerLock, account>>
  BY <1>1 DEF OwnersHeld
<1>2. ASSUME NEW u \in Uploads, Accept(u) \/ Uploading(u) \/ KillUpload(u)
      PROVE  OwnersHeld'
  <2> USE <1>0 DEF OwnersHeld, Step, At, EndUpload, rows
  <2>1. CASE Accept(u)
    BY <2>1 DEF Accept
  <2>2. CASE WriteUpload(u) \/ CheckRejected(u)
    BY <2>2 DEF WriteUpload, CheckRejected
  <2>3. CASE DeleteRejected(u) \/ ReturnDuplicate(u) \/ CommitUpload(u)
    BY <2>3 DEF DeleteRejected, ReturnDuplicate, CommitUpload
  <2>4. CASE LockUpload(u)
    BY <2>4 DEF LockUpload
  <2>5. CASE KillUpload(u)
    BY <2>5 DEF KillUpload
  <2> QED
    BY <1>2, <2>1, <2>2, <2>3, <2>4, <2>5 DEF Uploading
<1>3. ASSUME NEW o \in Owners, Erase(o) PROVE OwnersHeld'
  BY <1>0, <1>3 DEF Erase, clients, OwnersHeld
<1>4. \A u \in Uploads :
        ClaimJob(u) \/ Importing(u) \/ KillImport(u) \/ LapseImport(u)
          => UNCHANGED <<upload, ownerLock, account>>
  BY DEF ClaimJob, Importing, CreateDoc, StoreFile, LockFile, CommitFile, RetainFile,
       FinishJob, KillImport, LapseImport, clients, rows
<1>5. /\ \A u \in Uploads : PurgeSource(u) \/ Purging(u) \/ KillPurge(u)
                             => UNCHANGED <<upload, ownerLock, account>>
      /\ \A m \in Memos : WriteMemo(m) \/ Remembering(m)
                           => UNCHANGED <<upload, ownerLock, account>>
      /\ \A c \in Cleaners : Cleaning(c) \/ KillCleaner(c)
                              => UNCHANGED <<upload, ownerLock, account>>
  BY DEF PurgeSource, Purging, PurgeCheck, PurgeBlob, KillPurge, WriteMemo, Remembering,
       LockMemo, CommitMemo, RetainMemo, Cleaning, ClaimTask, AttemptCheck, AttemptEnd,
       KillCleaner, rows
<1> QED
  BY <1>1, <1>2, <1>3, <1>4, <1>5 DEF Next, vars

\* No row exists before the request that creates the job has ended; a document
\* without a job or a finished job without a document does not exist; and a
\* worker or a purge between two steps finds the document it left.
RowAgrees(u) ==
  /\ upload[u] # "end" => /\ jobs[u] = NoJob /\ docs[u] = NoDoc
                          /\ import[u] = "idle" /\ purge[u] = "none"
  /\ docs[u].status = "none" =>
       docs[u] = NoDoc /\ jobs[u].status \in {"none", "pending", "running"}
  /\ jobs[u].status = "none" => docs[u].status = "none"
  /\ jobs[u].status # "none"
       /\ import[u] \in {"store", "lock", "commit", "retain", "finish"}
       => docs[u].status # "none"
  /\ LiveDoc(u) /\ import[u] \in {"store", "lock", "commit"} => docs[u].status = "open"
  /\ docs[u].status # "none" /\ import[u] = "retain" => docs[u].key
  /\ purge[u] \in {"keep", "delete"} => docs[u].status # "none"
  /\ OwnerOf[u] \notin account => jobs[u].status = "none"

RowsAgree == \A u \in Uploads : RowAgrees(u)

LEMMA RowFrame ==
  ASSUME NEW u \in Uploads, RowAgrees(u),
         UNCHANGED <<upload[u], jobs[u], docs[u], import[u], purge[u], account>>
  PROVE  RowAgrees(u)'
  BY DEF RowAgrees, LiveDoc

LEMMA RowsUntouched ==
  ASSUME RowsAgree, UNCHANGED <<upload, jobs, docs, import, purge, account>>
  PROVE  RowsAgree'
  BY RowFrame DEF RowsAgree

LEMMA UploadRows ==
  ASSUME TypeOK, OwnersHeld, RowsAgree, NEW u \in Uploads,
         Accept(u) \/ Uploading(u) \/ KillUpload(u)
  PROVE  RowsAgree'
<1>1. UNCHANGED <<import, purge, account>>
  BY DEF Accept, Uploading, WriteUpload, CheckRejected, DeleteRejected, ReturnDuplicate,
       LockUpload, CommitUpload, KillUpload, rows
<1>2. \A v \in Uploads \ {u} : UNCHANGED <<upload[v], jobs[v], docs[v]>>
  BY DEF TypeOK, Accept, Uploading, WriteUpload, CheckRejected, DeleteRejected,
       ReturnDuplicate, LockUpload, CommitUpload, KillUpload, rows, EndUpload, Step, At
<1>3. \A v \in Uploads \ {u} : RowAgrees(v)'
  BY <1>1, <1>2, RowFrame DEF RowsAgree
<1>4. RowAgrees(u)'
  <2> USE DEF Step, At, EndUpload
  <2>0. RowAgrees(u) /\ upload[u] # "end" /\ upload'[u] = upload'[u]
    BY DEF RowsAgree, Accept, Uploading, WriteUpload, CheckRejected, DeleteRejected,
       ReturnDuplicate, LockUpload, CommitUpload, KillUpload
  <2>1. CASE CommitUpload(u)
    <3>1. jobs'[u] = [NoJob EXCEPT !.status = "pending"]
      BY <2>0, <2>1 DEF CommitUpload, RowAgrees, TypeOK
    <3>2. docs'[u] = IF u \in Legacy
                     THEN [[NoDoc EXCEPT !.status = "open"] EXCEPT !.key = TRUE] ELSE NoDoc
      BY <2>0, <2>1 DEF CommitUpload, RowAgrees, TypeOK
    <3>3. upload'[u] = "end" /\ import'[u] = "idle" /\ purge'[u] = "none"
      BY <1>1, <2>0, <2>1 DEF CommitUpload, RowAgrees, TypeOK
    <3>4. OwnerOf[u] \in account'
      BY <1>1, <2>1 DEF CommitUpload, OwnersHeld
    <3> QED
      BY <3>1, <3>2, <3>3, <3>4 DEF RowAgrees, NoJob, NoDoc, LiveDoc
  <2>2. CASE ~CommitUpload(u)
    <3>1. UNCHANGED <<jobs, docs>>
      BY <2>2 DEF Accept, Uploading, WriteUpload, CheckRejected, DeleteRejected,
         ReturnDuplicate, LockUpload, KillUpload, rows
    <3> QED
      BY <1>1, <2>0, <3>1 DEF RowAgrees, LiveDoc
  <2> QED
    BY <2>1, <2>2
<1> QED
  BY <1>3, <1>4 DEF RowsAgree

LEMMA ImportRows ==
  ASSUME TypeOK, RowsAgree, NEW u \in Uploads,
         ClaimJob(u) \/ Importing(u) \/ KillImport(u) \/ LapseImport(u)
  PROVE  RowsAgree'
<1>1. UNCHANGED <<upload, purge, account>>
  BY DEF ClaimJob, Importing, CreateDoc, StoreFile, LockFile, CommitFile, RetainFile,
       FinishJob, KillImport, LapseImport, clients, rows
<1>2. \A v \in Uploads \ {u} : UNCHANGED <<jobs[v], docs[v], import[v]>>
  BY DEF TypeOK, ClaimJob, Importing, CreateDoc, StoreFile, LockFile, CommitFile,
       RetainFile, FinishJob, KillImport, LapseImport, clients, rows, ImportStep
<1>3. \A v \in Uploads \ {u} : RowAgrees(v)'
  BY <1>1, <1>2, RowFrame DEF RowsAgree
<1>4. RowAgrees(u)'
  <2> USE DEF ImportStep
  <2>0. RowAgrees(u) /\ upload[u] = "end"
    BY DEF RowsAgree, RowAgrees, ClaimJob, Importing, CreateDoc, StoreFile, LockFile,
       CommitFile, RetainFile, FinishJob, KillImport, LapseImport, NoJob
  <2>1. /\ jobs[u] \in ImportJobRows /\ docs[u] \in DocumentRows
        /\ DOMAIN jobs = Uploads /\ DOMAIN docs = Uploads /\ DOMAIN import = Uploads
    BY DEF TypeOK
  <2> USE <1>1, <2>0, <2>1 DEF RowAgrees, LiveDoc, rows
  <2>2. CASE ClaimJob(u)
    BY <2>2 DEF ClaimJob
  <2>3. CASE CreateDoc(u)
    BY <2>3 DEF CreateDoc, DocumentRows
  <2>4. CASE StoreFile(u) \/ LockFile(u) \/ RetainFile(u)
    BY <2>4 DEF StoreFile, LockFile, RetainFile
  <2>5. CASE CommitFile(u)
    BY <2>5 DEF CommitFile, DocumentRows
  <2>6. CASE FinishJob(u)
    BY <2>6 DEF FinishJob, DocumentRows
  <2>7. CASE KillImport(u) \/ LapseImport(u)
    BY <2>7 DEF KillImport, LapseImport, clients, ImportJobRows
  <2> QED
    BY <2>2, <2>3, <2>4, <2>5, <2>6, <2>7 DEF Importing
<1> QED
  BY <1>3, <1>4 DEF RowsAgree

LEMMA PurgeRows ==
  ASSUME TypeOK, RowsAgree, NEW u \in Uploads,
         PurgeSource(u) \/ Purging(u) \/ KillPurge(u)
  PROVE  RowsAgree'
<1>1. UNCHANGED <<upload, import, account>>
  BY DEF PurgeSource, Purging, PurgeCheck, PurgeBlob, KillPurge, rows
<1>2. \A v \in Uploads \ {u} : UNCHANGED <<jobs[v], docs[v], purge[v]>>
  BY DEF TypeOK, PurgeSource, Purging, PurgeCheck, PurgeBlob, KillPurge, rows, PurgeStep
<1>3. \A v \in Uploads \ {u} : RowAgrees(v)'
  BY <1>1, <1>2, RowFrame DEF RowsAgree
<1>4. RowAgrees(u)'
  <2> USE DEF PurgeStep
  <2>0. RowAgrees(u) /\ upload[u] = "end"
    BY DEF RowsAgree, RowAgrees, PurgeSource, Purging, PurgeCheck, PurgeBlob, KillPurge,
       LiveDoc, NoDoc
  <2>1. /\ jobs[u] \in ImportJobRows /\ docs[u] \in DocumentRows
        /\ DOMAIN jobs = Uploads /\ DOMAIN docs = Uploads /\ DOMAIN purge = Uploads
    BY DEF TypeOK
  <2> USE <1>1, <2>0, <2>1 DEF RowAgrees, LiveDoc, rows
  <2>2. CASE PurgeSource(u)
    BY <2>2 DEF PurgeSource, DocumentRows, ImportJobRows
  <2>3. CASE PurgeCheck(u) \/ KillPurge(u)
    BY <2>3 DEF PurgeCheck, KillPurge
  <2>4. CASE PurgeBlob(u)
    BY <2>4 DEF PurgeBlob, DocumentRows
  <2> QED
    BY <2>2, <2>3, <2>4 DEF Purging
<1> QED
  BY <1>3, <1>4 DEF RowsAgree

LEMMA RowsAgreeStep ==
  ASSUME TypeOK, OwnersHeld, RowsAgree, [Next]_vars
  PROVE  RowsAgree'
<1>1. ASSUME NEW o \in Owners, Erase(o) PROVE RowsAgree'
  <2>1. \A v \in Uploads : OwnerOf[v] = o => upload[v] \in {"none", "end"}
    BY <1>1, StorageConstants DEF Erase, OwnersHeld
  <2>2. ASSUME NEW v \in Uploads, OwnerOf[v] # o PROVE RowAgrees(v)'
    BY <1>1, <2>2 DEF Erase, Mine, clients, RowsAgree, RowAgrees, LiveDoc
  <2>3. ASSUME NEW v \in Uploads, OwnerOf[v] = o PROVE RowAgrees(v)'
    BY <1>1, <2>3 DEF Erase, Mine, clients, RowsAgree, RowAgrees, NoJob, NoDoc, LiveDoc
  <2> QED
    BY <2>2, <2>3 DEF RowsAgree
<1>2. ASSUME NEW m \in Memos, WriteMemo(m) \/ Remembering(m) PROVE RowsAgree'
  BY <1>2, RowsUntouched DEF WriteMemo, Remembering, LockMemo, CommitMemo, RetainMemo, rows
<1>3. ASSUME NEW c \in Cleaners, Cleaning(c) \/ KillCleaner(c) PROVE RowsAgree'
  BY <1>3, RowsUntouched DEF Cleaning, ClaimTask, AttemptCheck, AttemptEnd, KillCleaner, rows
<1>4. CASE UNCHANGED vars
  BY <1>4, RowsUntouched DEF vars
<1> QED
  BY <1>1, <1>2, <1>3, <1>4, UploadRows, ImportRows, PurgeRows DEF Next

-----------------------------------------------------------------------------
(* No blob in use is deleted                                               *)

\* What upload u contributes to Referenced(k).
Needs(u, k) ==
  \/ LiveDoc(u) /\ docs[u].key /\ FileKey[u] = k
  \/ /\ RawKey[u] = k
     /\ \/ jobs[u].status \in {"pending", "running"}
        \/ LiveDoc(u) /\ docs[u].status = "open"

\* Somebody has the key's lock to commit a row that refers to it.
Registering(k) ==
  \/ \E u \in Uploads : upload[u] = "locked" /\ RawKey[u] = k
  \/ \E u \in Uploads : import[u] = "commit" /\ FileKey[u] = k
  \/ \E m \in Memos : memo[m] = "commit" /\ MemoKey[m] = k

\* Somebody has the key's lock and has decided to delete the blob.
Deleting(k) ==
  \/ \E u \in Uploads : upload[u] = "delete" /\ RawKey[u] = k
  \/ \E u \in Uploads : purge[u] = "delete" /\ FileKey[u] = k
  \/ \E c \in Cleaners : /\ cleaner[c].pc = "locked" /\ ~cleaner[c].needed
                          /\ KeyOf(cleaner[c].task) = k

RegisteredExist == \A k \in Keys : Registering(k) => k \in blob
DeletersRight == \A k \in Keys : Deleting(k) => ~Referenced(k)

LEMMA RegisterClaims ==
  ASSUME NEW k, Registering(k)
  PROVE  \/ \E u \in Uploads : upload[u] = "locked" /\ UploadClaim(<<"upload", u>>, k)
         \/ \E u \in Uploads : ImportClaim(<<"import", u>>, k)
         \/ \E m \in Memos : MemoClaim(<<"memo", m>>, k)
  BY DEF Registering, UploadClaim, ImportClaim, MemoClaim

LEMMA DeleteClaims ==
  ASSUME NEW k, Deleting(k)
  PROVE  \/ \E u \in Uploads : upload[u] = "delete" /\ UploadClaim(<<"upload", u>>, k)
         \/ \E u \in Uploads : PurgeClaim(<<"purge", u>>, k)
         \/ \E c \in Cleaners : TaskClaim(<<"task", c>>, k)
  BY DEF Deleting, UploadClaim, PurgeClaim, TaskClaim

\* One key, one holder: nobody registers what another deletes.
LEMMA NoRegistrar ==
  ASSUME LocksHeld, NEW k \in Keys, Deleting(k)
  PROVE  ~Registering(k)
<1> SUFFICES ASSUME Registering(k) PROVE FALSE
  OBVIOUS
<1>1. \/ \E u \in Uploads : upload[u] = "locked" /\ keyLock[k] = <<"upload", u>>
      \/ \E u \in Uploads : keyLock[k] = <<"import", u>>
      \/ \E m \in Memos : keyLock[k] = <<"memo", m>>
  BY RegisterClaims, WhoTypes DEF LocksHeld, Claims
<1>2. \/ \E u \in Uploads : upload[u] = "delete" /\ keyLock[k] = <<"upload", u>>
      \/ \E u \in Uploads : keyLock[k] = <<"purge", u>>
      \/ \E c \in Cleaners : keyLock[k] = <<"task", c>>
  BY DeleteClaims, WhoTypes DEF LocksHeld, Claims
<1> QED
  BY <1>1, <1>2

\* A free lock has no claimant.
LEMMA FreeLock ==
  ASSUME LocksHeld, NEW k \in Keys, keyLock[k] = <<>>
  PROVE  ~Registering(k)
<1>1. \A w \in Holders : ~Claims(w, k)
  BY DEF LocksHeld, Holders
<1> QED
  BY <1>1, RegisterClaims, WhoTypes DEF Claims

LEMMA NeedsFrame ==
  ASSUME NEW u \in Uploads, NEW k, UNCHANGED <<jobs[u].status, docs[u]>>
  PROVE  Needs(u, k)' = Needs(u, k)
  BY DEF Needs, LiveDoc

LEMMA ReferencedNeeds ==
  ASSUME NEW k
  PROVE  /\ Referenced(k) <=> \/ \E u \in Uploads : Needs(u, k)
                              \/ \E m \in memory : MemoKey[m] = k
         /\ Referenced(k)' <=> \/ \E u \in Uploads : Needs(u, k)'
                               \/ \E m \in memory' : MemoKey[m] = k
  BY DEF Referenced, Needs

\* A new reference to a key is made by whoever has the key's lock for that.
LEMMA NeedsStep ==
  ASSUME TypeOK, RowsAgree, [Next]_vars, NEW v \in Uploads, NEW k, Needs(v, k)'
  PROVE  Needs(v, k) \/ Registering(k)
<1>0. /\ RowAgrees(v) /\ jobs[v] \in ImportJobRows /\ docs[v] \in DocumentRows
      /\ DOMAIN jobs = Uploads /\ DOMAIN docs = Uploads
  BY DEF RowsAgree, TypeOK
<1>1. CASE UNCHANGED <<jobs[v].status, docs[v]>>
  BY <1>1, NeedsFrame
<1>2. CASE CommitUpload(v)
  <2>1. docs'[v].key => FileKey[v] = RawKey[v]
    BY <1>0, <1>2, StorageConstants DEF CommitUpload, RowAgrees, NoDoc, At
  <2>2. k = RawKey[v]
    BY <2>1 DEF Needs
  <2> QED
    BY <1>2, <2>2 DEF Registering, CommitUpload, At
<1>3. CASE ClaimJob(v)
  BY <1>0, <1>3 DEF ClaimJob, Needs, LiveDoc
<1>4. CASE CreateDoc(v)
  BY <1>0, <1>4 DEF CreateDoc, Needs, LiveDoc, RowAgrees, NoDoc, DocumentRows
<1>5. CASE CommitFile(v)
  <2>1. CASE ~LiveDoc(v)
    <3>1. ~LiveDoc(v)' /\ UNCHANGED jobs
      BY <1>0, <1>5, <2>1 DEF CommitFile, LiveDoc, DocumentRows
    <3> QED
      BY <2>1, <3>1 DEF Needs
  <2>2. CASE LiveDoc(v)
    <3>1. docs[v].status = "open" /\ LiveDoc(v)' /\ docs'[v].status = "open" /\ UNCHANGED jobs
      BY <1>0, <1>5, <2>2 DEF CommitFile, RowAgrees, LiveDoc, DocumentRows
    <3>2. import[v] = "commit"
      BY <1>5 DEF CommitFile
    <3> QED
      BY <2>2, <3>1, <3>2 DEF Needs, Registering
  <2> QED
    BY <2>1, <2>2
<1>6. CASE FinishJob(v)
  BY <1>0, <1>6 DEF FinishJob, Needs, LiveDoc, DocumentRows, ImportJobRows
<1>7. CASE KillImport(v) \/ LapseImport(v)
  BY <1>0, <1>7 DEF KillImport, LapseImport, Needs, LiveDoc, ImportJobRows
<1>8. CASE PurgeSource(v)
  BY <1>0, <1>8 DEF PurgeSource, Needs, LiveDoc, DocumentRows, ImportJobRows
<1>9. CASE PurgeBlob(v)
  BY <1>0, <1>9 DEF PurgeBlob, Needs, LiveDoc, DocumentRows
<1>10. ASSUME NEW o \in Owners, Erase(o) PROVE Needs(v, k) \/ Registering(k)
  BY <1>10 DEF Erase, Mine, Needs, LiveDoc, NoJob, NoDoc
<1>11. ASSUME NEW u \in Uploads, u = v \/ ~CommitUpload(u), Accept(u) \/ Uploading(u) \/ KillUpload(u)
       PROVE  CommitUpload(v) \/ UNCHANGED <<jobs[v].status, docs[v]>>
  BY <1>11 DEF Accept, Uploading, WriteUpload, CheckRejected, DeleteRejected,
       ReturnDuplicate, LockUpload, KillUpload, rows
<1>12. ASSUME NEW u \in Uploads, u # v, CommitUpload(u)
       PROVE  UNCHANGED <<jobs[v].status, docs[v]>>
  BY <1>0, <1>12 DEF CommitUpload
<1>13. ASSUME NEW u \in Uploads, u # v, ClaimJob(u) \/ Importing(u) \/ KillImport(u) \/ LapseImport(u)
       PROVE  UNCHANGED <<jobs[v].status, docs[v]>>
  BY <1>0, <1>13 DEF ClaimJob, Importing, CreateDoc, StoreFile, LockFile, CommitFile,
       RetainFile, FinishJob, KillImport, LapseImport, rows
<1>14. ASSUME NEW u \in Uploads, StoreFile(u) \/ LockFile(u) \/ RetainFile(u)
       PROVE  UNCHANGED <<jobs[v].status, docs[v]>>
  BY <1>14 DEF StoreFile, LockFile, RetainFile, rows
<1>15. ASSUME NEW u \in Uploads, u # v, PurgeSource(u) \/ Purging(u) \/ KillPurge(u)
       PROVE  UNCHANGED <<jobs[v].status, docs[v]>>
  BY <1>0, <1>15 DEF PurgeSource, Purging, PurgeCheck, PurgeBlob, KillPurge, rows
<1>16. ASSUME NEW u \in Uploads, PurgeCheck(u) \/ KillPurge(u)
       PROVE  UNCHANGED <<jobs[v].status, docs[v]>>
  BY <1>16 DEF PurgeCheck, KillPurge, rows
<1>17. ASSUME NEW m \in Memos, WriteMemo(m) \/ Remembering(m)
       PROVE  UNCHANGED <<jobs[v].status, docs[v]>>
  BY <1>17 DEF WriteMemo, Remembering, LockMemo, CommitMemo, RetainMemo, rows
<1>18. ASSUME NEW c \in Cleaners, Cleaning(c) \/ KillCleaner(c)
       PROVE  UNCHANGED <<jobs[v].status, docs[v]>>
  BY <1>18 DEF Cleaning, ClaimTask, AttemptCheck, AttemptEnd, KillCleaner, rows
<1>19. CASE UNCHANGED vars
  BY <1>1, <1>19 DEF vars
<1>20. ASSUME NEW u \in Uploads, Accept(u) \/ Uploading(u) \/ KillUpload(u)
       PROVE  Needs(v, k) \/ Registering(k)
  BY <1>1, <1>2, <1>11, <1>12, <1>20
<1>21. ASSUME NEW u \in Uploads, ClaimJob(u) \/ Importing(u) \/ KillImport(u) \/ LapseImport(u)
       PROVE  Needs(v, k) \/ Registering(k)
  BY <1>1, <1>3, <1>4, <1>5, <1>6, <1>7, <1>13, <1>14, <1>21 DEF Importing
<1>22. ASSUME NEW u \in Uploads, PurgeSource(u) \/ Purging(u) \/ KillPurge(u)
       PROVE  Needs(v, k) \/ Registering(k)
  BY <1>1, <1>8, <1>9, <1>15, <1>16, <1>22 DEF Purging
<1> QED
  BY <1>1, <1>10, <1>17, <1>18, <1>19, <1>20, <1>21, <1>22 DEF Next

LEMMA ReferenceStep ==
  ASSUME TypeOK, RowsAgree, [Next]_vars, NEW k, Referenced(k)'
  PROVE  Referenced(k) \/ Registering(k)
<1>1. \A m \in memory' : MemoKey[m] = k => m \in memory \/ Registering(k)
  <2>1. CASE UNCHANGED memory
    BY <2>1
  <2>2. ASSUME NEW m \in Memos, CommitMemo(m)
        PROVE  \A n \in memory' : MemoKey[n] = k => n \in memory \/ Registering(k)
    BY <2>2 DEF CommitMemo, Registering
  <2> QED
    BY <2>1, <2>2 DEF Next, vars, Accept, Uploading, WriteUpload, CheckRejected,
       DeleteRejected, ReturnDuplicate, LockUpload, CommitUpload, KillUpload, ClaimJob,
       Importing, CreateDoc, StoreFile, LockFile, CommitFile, RetainFile, FinishJob,
       KillImport, LapseImport, clients, WriteMemo, Remembering, LockMemo, RetainMemo,
       PurgeSource, Purging, PurgeCheck, PurgeBlob, KillPurge, Erase, Cleaning,
       ClaimTask, AttemptCheck, AttemptEnd, KillCleaner, rows
<1> QED
  BY <1>1, NeedsStep, ReferencedNeeds

\* Who decides to delete has just taken the key's lock and seen no reference.
LEMMA DeleteStep ==
  ASSUME TypeOK, RejectedEmpty, LocksHeld, [Next]_vars, NEW k \in Keys, Deleting(k)'
  PROVE  Deleting(k) \/ (~Referenced(k) /\ ~Registering(k))
<1>0. DOMAIN upload = Uploads /\ DOMAIN purge = Uploads /\ DOMAIN cleaner = Cleaners
  BY DEF TypeOK
<1>1. CASE UNCHANGED <<upload, purge, cleaner>>
  BY <1>1 DEF Deleting
<1>2. ASSUME NEW u \in Uploads, Accept(u) \/ Uploading(u) \/ KillUpload(u)
      PROVE  Deleting(k) \/ (~Referenced(k) /\ ~Registering(k))
  <2>1. CASE CheckRejected(u)
    <3>1. CASE k = EmptyKey /\ ~Referenced(k)
      BY <2>1, <3>1, FreeLock DEF CheckRejected, LockKey
    <3>2. CASE k # EmptyKey \/ Referenced(k)
      BY <1>0, <2>1, <3>2 DEF CheckRejected, Deleting, RejectedEmpty, Step, At
    <3> QED
      BY <3>1, <3>2
  <2>2. CASE ~CheckRejected(u)
    <3>1. \A v \in Uploads : upload'[v] = "delete" => upload[v] = "delete"
      BY <1>0, <1>2, <2>2 DEF Accept, Uploading, WriteUpload, DeleteRejected,
         ReturnDuplicate, LockUpload, CommitUpload, KillUpload, EndUpload, Step, At
    <3>2. UNCHANGED <<purge, cleaner>>
      BY <1>2, <2>2 DEF Accept, Uploading, WriteUpload, DeleteRejected, ReturnDuplicate,
         LockUpload, CommitUpload, KillUpload
    <3> QED
      BY <3>1, <3>2 DEF Deleting
  <2> QED
    BY <2>1, <2>2
<1>3. ASSUME NEW u \in Uploads, PurgeSource(u) \/ Purging(u) \/ KillPurge(u)
      PROVE  Deleting(k) \/ (~Referenced(k) /\ ~Registering(k))
  <2>1. CASE PurgeCheck(u)
    <3>1. CASE k = FileKey[u] /\ ~Referenced(k) /\ keyLock[k] = <<>>
      BY <3>1, FreeLock
    <3>2. CASE k # FileKey[u] \/ Referenced(k) \/ keyLock[k] # <<>>
      BY <1>0, <2>1, <3>2 DEF PurgeCheck, Deleting, PurgeStep, LockKey
    <3> QED
      BY <3>1, <3>2
  <2>2. CASE ~PurgeCheck(u)
    <3>1. \A v \in Uploads : purge'[v] = "delete" => purge[v] = "delete"
      BY <1>0, <1>3, <2>2 DEF PurgeSource, Purging, PurgeBlob, KillPurge, PurgeStep
    <3>2. UNCHANGED <<upload, cleaner>>
      BY <1>3, <2>2 DEF PurgeSource, Purging, PurgeBlob, KillPurge
    <3> QED
      BY <3>1, <3>2 DEF Deleting
  <2> QED
    BY <2>1, <2>2
<1>4. ASSUME NEW c \in Cleaners, Cleaning(c) \/ KillCleaner(c)
      PROVE  Deleting(k) \/ (~Referenced(k) /\ ~Registering(k))
  <2>0. UNCHANGED <<upload, purge>>
    BY <1>4 DEF Cleaning, ClaimTask, AttemptCheck, AttemptEnd, KillCleaner
  <2>1. CASE \A d \in Cleaners : cleaner'[d].pc = "locked" => cleaner'[d] = cleaner[d]
    BY <2>0, <2>1 DEF Deleting
  <2>2. CASE AttemptCheck(c)
    <3> DEFINE key == KeyOf(cleaner[c].task)
    <3>1. CASE k = key /\ ~Referenced(k) /\ keyLock[k] = <<>>
      BY <3>1, FreeLock
    <3>2. CASE tasks[cleaner[c].task] \notin Outstanding
      BY <1>0, <2>1, <2>2, <3>2 DEF AttemptCheck, NoTask
    <3>3. CASE /\ tasks[cleaner[c].task] \in Outstanding
               /\ k # key \/ Referenced(k) \/ keyLock[k] # <<>>
      <4>1. /\ cleaner' = [cleaner EXCEPT ![c].pc = "locked",
                                          ![c].needed = Referenced(key)]
            /\ keyLock[key] = <<>>
        BY <2>2, <3>3 DEF AttemptCheck, LockKey
      <4>2. k # key \/ Referenced(key)
        BY <3>3, <4>1
      <4>3. cleaner'[c].task = cleaner[c].task /\ cleaner'[c].needed = Referenced(key)
        BY <4>1 DEF TypeOK
      <4>4. \A d \in Cleaners \ {c} : cleaner'[d] = cleaner[d]
        BY <1>0, <4>1
      <4> QED
        BY <2>0, <4>2, <4>3, <4>4 DEF Deleting
    <3> QED
      BY <3>1, <3>2, <3>3
  <2>3. CASE ~AttemptCheck(c)
    <3>1. \A t \in TaskIds : [pc |-> "claimed", task |-> t, needed |-> FALSE].pc # "locked"
      OBVIOUS
    <3> QED
      BY <1>0, <1>4, <2>1, <2>3, <3>1 DEF Cleaning, ClaimTask, AttemptEnd, KillCleaner, NoTask
  <2> QED
    BY <2>2, <2>3
<1> QED
  BY <1>1, <1>2, <1>3, <1>4 DEF Next, vars, ClaimJob, Importing, CreateDoc, StoreFile,
     LockFile, CommitFile, RetainFile, FinishJob, KillImport, LapseImport, clients,
     WriteMemo, Remembering, LockMemo, CommitMemo, RetainMemo, Erase

LEMMA DeletersRightStep ==
  ASSUME TypeOK, RejectedEmpty, LocksHeld, RowsAgree, DeletersRight, [Next]_vars
  PROVE  DeletersRight'
<1> SUFFICES ASSUME NEW k \in Keys, Deleting(k)', Referenced(k)'
             PROVE  FALSE
  BY DEF DeletersRight
<1>1. ~Referenced(k) /\ ~Registering(k)
  BY DeleteStep, NoRegistrar DEF DeletersRight
<1> QED
  BY <1>1, ReferenceStep

\* Only a deleter takes a blob away, and only with the key's lock.
LEMMA BlobStep ==
  ASSUME TypeOK, RejectedEmpty, [Next]_vars, NEW k \in blob, k \notin blob'
  PROVE  Deleting(k)
<1>1. ASSUME NEW u \in Uploads, DeleteRejected(u) PROVE Deleting(k)
  BY <1>1 DEF DeleteRejected, Deleting, RejectedEmpty, At
<1>2. ASSUME NEW u \in Uploads, PurgeBlob(u) PROVE Deleting(k)
  BY <1>2 DEF PurgeBlob, Deleting
<1>3. ASSUME NEW c \in Cleaners, AttemptEnd(c) PROVE Deleting(k)
  BY <1>3 DEF AttemptEnd, Deleting
<1> QED
  BY <1>1, <1>2, <1>3 DEF Next, vars, Accept, Uploading, WriteUpload, CheckRejected,
     ReturnDuplicate, LockUpload, CommitUpload, KillUpload, ClaimJob, Importing,
     CreateDoc, StoreFile, LockFile, CommitFile, RetainFile, FinishJob, KillImport,
     LapseImport, WriteMemo, Remembering, LockMemo, CommitMemo, RetainMemo, PurgeSource,
     Purging, PurgeCheck, KillPurge, Erase, Cleaning, ClaimTask, AttemptCheck,
     KillCleaner, Publish

\* Who comes to register a key has seen or written its blob.
LEMMA RegisterStep ==
  ASSUME TypeOK, [Next]_vars, NEW k \in Keys, Registering(k)'
  PROVE  Registering(k) \/ k \in blob'
<1>0. DOMAIN upload = Uploads /\ DOMAIN import = Uploads /\ DOMAIN memo = Memos
  BY DEF TypeOK
<1>1. CASE UNCHANGED <<upload, import, memo>>
  BY <1>1 DEF Registering
<1>2. ASSUME NEW u \in Uploads, Accept(u) \/ Uploading(u) \/ KillUpload(u)
      PROVE  Registering(k) \/ k \in blob'
  <2>1. UNCHANGED <<import, memo>>
    BY <1>2 DEF Accept, Uploading, WriteUpload, CheckRejected, DeleteRejected,
       ReturnDuplicate, LockUpload, CommitUpload, KillUpload
  <2>2. \A v \in Uploads : upload'[v] = "locked" => upload[v] = "locked" \/ RawKey[v] \in blob'
    BY <1>0, <1>2 DEF Accept, Uploading, WriteUpload, CheckRejected, DeleteRejected,
       ReturnDuplicate, LockUpload, CommitUpload, KillUpload, EndUpload, Step, At
  <2> QED
    BY <2>1, <2>2 DEF Registering
<1>3. ASSUME NEW u \in Uploads, ClaimJob(u) \/ Importing(u) \/ KillImport(u) \/ LapseImport(u)
      PROVE  Registering(k) \/ k \in blob'
  <2>1. UNCHANGED <<upload, memo>>
    BY <1>3 DEF ClaimJob, Importing, CreateDoc, StoreFile, LockFile, CommitFile,
       RetainFile, FinishJob, KillImport, LapseImport, clients
  <2>2. \A v \in Uploads : import'[v] = "commit" => import[v] = "commit" \/ FileKey[v] \in blob'
    BY <1>0, <1>3 DEF ClaimJob, Importing, CreateDoc, StoreFile, LockFile, CommitFile,
       RetainFile, FinishJob, KillImport, LapseImport, clients, ImportStep, Publish
  <2> QED
    BY <2>1, <2>2 DEF Registering
<1>4. ASSUME NEW m \in Memos, WriteMemo(m) \/ Remembering(m)
      PROVE  Registering(k) \/ k \in blob'
  <2>1. UNCHANGED <<upload, import>>
    BY <1>4 DEF WriteMemo, Remembering, LockMemo, CommitMemo, RetainMemo
  <2>2. \A n \in Memos : memo'[n] = "commit" => memo[n] = "commit" \/ MemoKey[n] \in blob'
    BY <1>0, <1>4 DEF WriteMemo, Remembering, LockMemo, CommitMemo, RetainMemo, MemoStep,
       Publish
  <2> QED
    BY <2>1, <2>2 DEF Registering
<1> QED
  BY <1>1, <1>2, <1>3, <1>4 DEF Next, vars, PurgeSource, Purging, PurgeCheck, PurgeBlob,
     KillPurge, Erase, clients, Cleaning, ClaimTask, AttemptCheck, AttemptEnd, KillCleaner

LEMMA BlobsKept ==
  ASSUME TypeOK, RejectedEmpty, LocksHeld, RowsAgree, DeletersRight, RegisteredExist,
         ReferencedBlobsExist, [Next]_vars
  PROVE  RegisteredExist' /\ ReferencedBlobsExist'
<1>1. ASSUME NEW k \in blob, k \notin blob'
      PROVE  ~Referenced(k) /\ ~Registering(k)
  <2>1. k \in Keys
    BY DEF TypeOK
  <2> QED
    BY <1>1, <2>1, BlobStep, NoRegistrar DEF DeletersRight
<1>2. RegisteredExist'
  BY <1>1, RegisterStep DEF RegisteredExist
<1>3. ReferencedBlobsExist'
  BY <1>1, ReferenceStep DEF RegisteredExist, ReferencedBlobsExist
<1> QED
  BY <1>2, <1>3

-----------------------------------------------------------------------------
(* No blob is forgotten                                                    *)

\* Some row of an account has the key.
Owned(k) ==
  \E u \in Uploads : \/ RawKey[u] = k /\ jobs[u].status # "none"
                     \/ FileKey[u] = k /\ docs[u].key

\* The key is known without anybody in action and without task t.
KnownBut(k, t) ==
  \/ k \in leaked
  \/ Owned(k)
  \/ \E m \in memory : MemoKey[m] = k
  \/ \E o \in Owners : <<o, k>> # t /\ tasks[<<o, k>>] \in Outstanding

MemosKept == \A m \in Memos : memo[m] \in {"retain", "end"} => m \in memory

\* Deletion tasks are those of erased accounts and of rejected uploads.
TasksRight ==
  /\ \A o \in account, k \in Keys : tasks[<<o, k>>] = "none"
  /\ \A c \in Cleaners : cleaner[c].pc # "idle" => tasks[cleaner[c].task] # "none"

\* Whoever found a reference may forget the blob: it is known elsewhere, and
\* stays so while the key is locked.
KeptKnown ==
  /\ \A u \in Uploads :
       upload[u] = "keep" => KnownBut(RawKey[u], <<"rejected", RawKey[u]>>)
  /\ \A c \in Cleaners :
       cleaner[c].pc = "locked" /\ cleaner[c].needed =>
         KnownBut(KeyOf(cleaner[c].task), cleaner[c].task)

LEMMA InventoryOwned ==
  ASSUME NEW k
  PROVE  /\ (\E o \in Owners : k \in Inventory(o)) <=> Owned(k)
         /\ (\E o \in Owners : k \in Inventory(o)') <=> Owned(k)'
<1>1. \A u \in Uploads : OwnerOf[u] \in Owners
  BY StorageConstants
<1> QED
  BY <1>1 DEF Inventory, Owned

LEMMA ReferencedKnown ==
  ASSUME TypeOK, RowsAgree, NEW k, Referenced(k), NEW t
  PROVE  KnownBut(k, t)
<1>1. ASSUME NEW u \in Uploads, Needs(u, k) PROVE Owned(k)
  <2>1. RowAgrees(u)
    BY DEF RowsAgree
  <2> QED
    BY <1>1, <2>1 DEF Needs, Owned, RowAgrees, LiveDoc
<1> QED
  BY <1>1, ReferencedNeeds DEF KnownBut

LEMMA TaskShape ==
  /\ \A o \in Owners \cup {"rejected"}, k \in Keys :
       /\ <<o, k>> \in TaskIds /\ <<o, k>>[1] = o /\ KeyOf(<<o, k>>) = k
  /\ \A t \in TaskIds : /\ t[1] \in Owners \cup {"rejected"} /\ KeyOf(t) \in Keys
                         /\ t = <<t[1], KeyOf(t)>>
  BY DEF TaskIds, KeyOf

\* Who changes the status of a deletion task.
LEMMA TaskStep ==
  ASSUME TypeOK, [Next]_vars, NEW t \in TaskIds, tasks'[t] # tasks[t]
  PROVE  \/ \E u \in Uploads : /\ DeleteRejected(u) /\ t[1] = "rejected"
                              /\ tasks'[t] = "pending"
         \/ \E u \in Uploads : /\ RetainFile(u) /\ t = <<"rejected", FileKey[u]>>
                              /\ tasks[t] \in Outstanding
                              /\ tasks'[t] = "retained_shared"
         \/ \E m \in Memos : /\ RetainMemo(m) /\ t = <<"rejected", MemoKey[m]>>
                            /\ tasks[t] \in Outstanding
                            /\ tasks'[t] = "retained_shared"
         \/ \E o \in Owners : Erase(o) /\ t[1] = o /\ tasks'[t] = "pending"
         \/ \E c \in Cleaners : /\ ClaimTask(c, t) /\ tasks[t] \in Outstanding
                               /\ tasks'[t] = "processing"
         \/ \E c \in Cleaners : /\ AttemptEnd(c) /\ cleaner[c].task = t
                               /\ tasks'[t] # "none"
<1>0. DOMAIN tasks = TaskIds
  BY DEF TypeOK
<1>1. ASSUME NEW u \in Uploads, DeleteRejected(u)
      PROVE  t[1] = "rejected" /\ tasks'[t] = "pending"
  BY <1>0, <1>1, TaskShape, StorageConstants DEF DeleteRejected
<1>2. ASSUME NEW k \in Keys, Retain(k)
      PROVE  /\ t = <<"rejected", k>> /\ tasks[t] \in Outstanding
             /\ tasks'[t] = "retained_shared"
  BY <1>0, <1>2, TaskShape DEF Retain
<1>3. ASSUME NEW o \in Owners, Erase(o) PROVE t[1] = o /\ tasks'[t] = "pending"
  BY <1>3 DEF Erase
<1>4. ASSUME NEW c \in Cleaners, NEW s \in TaskIds, ClaimTask(c, s)
      PROVE  s = t /\ tasks[t] \in Outstanding /\ tasks'[t] = "processing"
  BY <1>0, <1>4 DEF ClaimTask, Eligible, Outstanding
<1>5. ASSUME NEW c \in Cleaners, AttemptEnd(c)
      PROVE  cleaner[c].task = t /\ tasks'[t] # "none"
  BY <1>0, <1>5 DEF AttemptEnd
<1>6. /\ \A u \in Uploads : RetainFile(u) => Retain(FileKey[u]) /\ FileKey[u] \in Keys
      /\ \A m \in Memos : RetainMemo(m) => Retain(MemoKey[m]) /\ MemoKey[m] \in Keys
  BY StorageConstants DEF RetainFile, RetainMemo
<1>7. \A u \in Uploads :
        Accept(u) \/ Uploading(u) \/ KillUpload(u) => DeleteRejected(u) \/ UNCHANGED tasks
  BY DEF Accept, Uploading, WriteUpload, CheckRejected, ReturnDuplicate, LockUpload,
       CommitUpload, KillUpload, rows
<1>8. \A u \in Uploads :
        ClaimJob(u) \/ Importing(u) \/ KillImport(u) \/ LapseImport(u)
          => RetainFile(u) \/ UNCHANGED tasks
  BY DEF ClaimJob, Importing, CreateDoc, StoreFile, LockFile, CommitFile, FinishJob,
       KillImport, LapseImport, rows
<1>9. /\ \A u \in Uploads : PurgeSource(u) \/ Purging(u) \/ KillPurge(u) => UNCHANGED tasks
      /\ \A m \in Memos : WriteMemo(m) \/ Remembering(m) => RetainMemo(m) \/ UNCHANGED tasks
      /\ \A c \in Cleaners : AttemptCheck(c) \/ KillCleaner(c) => UNCHANGED tasks
  BY DEF PurgeSource, Purging, PurgeCheck, PurgeBlob, KillPurge, WriteMemo, Remembering,
       LockMemo, CommitMemo, AttemptCheck, KillCleaner, rows
<1> QED
  BY <1>1, <1>2, <1>3, <1>4, <1>5, <1>6, <1>7, <1>8, <1>9 DEF Next, vars, Cleaning

LEMMA TasksRightStep ==
  ASSUME TypeOK, TasksRight, [Next]_vars
  PROVE  TasksRight'
<1>1. account' \subseteq account /\ \A o \in Owners : Erase(o) => o \notin account'
  BY DEF Next, vars, Accept, Uploading, WriteUpload, CheckRejected, DeleteRejected,
     ReturnDuplicate, LockUpload, CommitUpload, KillUpload, ClaimJob, Importing,
     CreateDoc, StoreFile, LockFile, CommitFile, RetainFile, FinishJob, KillImport,
     LapseImport, WriteMemo, Remembering, LockMemo, CommitMemo, RetainMemo, PurgeSource,
     Purging, PurgeCheck, PurgeBlob, KillPurge, Erase, Cleaning, ClaimTask,
     AttemptCheck, AttemptEnd, KillCleaner, rows
<1>2. \A t \in TaskIds : tasks[t] # "none" => tasks'[t] # "none"
  BY TaskStep DEF Outstanding
<1>3. ASSUME NEW o \in account', NEW k \in Keys PROVE tasks'[<<o, k>>] = "none"
  <2>1. /\ o \in account /\ o \in Owners /\ o # "rejected" /\ tasks[<<o, k>>] = "none"
        /\ <<o, k>> \in TaskIds /\ <<o, k>>[1] = o
    BY <1>1, <1>3, TaskShape, StorageConstants DEF TypeOK, TasksRight
  <2>2. \A c \in Cleaners : AttemptEnd(c) => cleaner[c].task # <<o, k>>
    BY <2>1 DEF AttemptEnd, TasksRight
  <2>3. \A j \in Keys : <<o, k>> # <<"rejected", j>>
    BY <2>1
  <2>4. \A u \in Uploads, m \in Memos : FileKey[u] \in Keys /\ MemoKey[m] \in Keys
    BY StorageConstants
  <2> SUFFICES ASSUME tasks'[<<o, k>>] # tasks[<<o, k>>] PROVE FALSE
    BY <2>1
  <2> QED
    BY <1>1, <2>1, <2>2, <1>3, TaskStep DEF Outstanding
<1>4. ASSUME NEW c \in Cleaners, cleaner'[c].pc # "idle"
      PROVE  tasks'[cleaner'[c].task] # "none"
  <2>0. DOMAIN cleaner = Cleaners /\ cleaner[c].task \in TaskIds
    BY DEF TypeOK
  <2>1. CASE cleaner[c].pc # "idle" /\ cleaner'[c].task = cleaner[c].task
    BY <1>2, <2>0, <2>1 DEF TasksRight
  <2>2. ASSUME NEW d \in Cleaners, NEW t \in TaskIds, ClaimTask(d, t)
        PROVE  tasks'[cleaner'[c].task] # "none"
    <3>1. CASE d = c
      <4>1. cleaner'[c].task = t
        BY <2>0, <2>2, <3>1 DEF ClaimTask
      <4>2. tasks'[t] = "processing"
        BY <2>2 DEF ClaimTask, TypeOK
      <4> QED
        BY <4>1, <4>2
    <3>2. CASE d # c
      BY <2>0, <2>1, <2>2, <3>2, <1>4 DEF ClaimTask
    <3> QED
      BY <3>1, <3>2
  <2>3. ASSUME NEW d \in Cleaners, AttemptCheck(d) \/ AttemptEnd(d) \/ KillCleaner(d)
        PROVE  tasks'[cleaner'[c].task] # "none"
    <3>1. cleaner[c].pc # "idle" /\ cleaner'[c].task = cleaner[c].task
      BY <1>4, <2>3 DEF TypeOK, AttemptCheck, AttemptEnd, KillCleaner, NoTask
    <3> QED
      BY <2>1, <3>1
  <2>4. CASE UNCHANGED cleaner
    BY <1>4, <2>1, <2>4
  <2> QED
    BY <2>2, <2>3, <2>4 DEF Next, vars, Accept, Uploading, WriteUpload, CheckRejected,
     DeleteRejected, ReturnDuplicate, LockUpload, CommitUpload, KillUpload, ClaimJob,
     Importing, CreateDoc, StoreFile, LockFile, CommitFile, RetainFile, FinishJob,
     KillImport, LapseImport, clients, WriteMemo, Remembering, LockMemo, CommitMemo,
     RetainMemo, PurgeSource, Purging, PurgeCheck, PurgeBlob, KillPurge, Erase, Cleaning
<1> QED
  BY <1>3, <1>4 DEF TasksRight

LEMMA MemosKeptStep ==
  ASSUME TypeOK, MemosKept, [Next]_vars
  PROVE  MemosKept' /\ memory \subseteq memory'
<1>1. ASSUME NEW m \in Memos, WriteMemo(m) \/ Remembering(m)
      PROVE  MemosKept' /\ memory \subseteq memory'
  BY <1>1 DEF WriteMemo, Remembering, LockMemo, CommitMemo, RetainMemo, MemosKept, TypeOK,
     MemoStep, rows
<1>2. CASE UNCHANGED <<memo, memory>>
  BY <1>2 DEF MemosKept
<1> QED
  BY <1>1, <1>2 DEF Next, vars, Accept, Uploading, WriteUpload, CheckRejected,
     DeleteRejected, ReturnDuplicate, LockUpload, CommitUpload, KillUpload, ClaimJob,
     Importing, CreateDoc, StoreFile, LockFile, CommitFile, RetainFile, FinishJob,
     KillImport, LapseImport, clients, PurgeSource, Purging, PurgeCheck, PurgeBlob,
     KillPurge, Erase, Cleaning, ClaimTask, AttemptCheck, AttemptEnd, KillCleaner, rows

LEMMA LeakedGrows ==
  ASSUME [Next]_vars
  PROVE  leaked \subseteq leaked'
  BY DEF Next, vars, Accept, Uploading, WriteUpload, CheckRejected,
     DeleteRejected, ReturnDuplicate, LockUpload, CommitUpload, KillUpload, ClaimJob,
     Importing, CreateDoc, StoreFile, LockFile, CommitFile, RetainFile, FinishJob,
     KillImport, LapseImport, WriteMemo, Remembering, LockMemo, CommitMemo, RetainMemo,
     PurgeSource, Purging, PurgeCheck, PurgeBlob, KillPurge, Erase, Cleaning, ClaimTask,
     AttemptCheck, AttemptEnd, KillCleaner

\* Only an erasure loses rows, and it leaves a task for each of their keys.
LEMMA OwnedStep ==
  ASSUME TypeOK, [Next]_vars, NEW k \in Keys, Owned(k)
  PROVE  \/ Owned(k)'
         \/ \E o \in account : o \in Owners /\ tasks'[<<o, k>>] = "pending"
<1> PICK u \in Uploads : \/ RawKey[u] = k /\ jobs[u].status # "none"
                         \/ FileKey[u] = k /\ docs[u].key
  BY DEF Owned
<1>0. /\ jobs[u] \in ImportJobRows /\ docs[u] \in DocumentRows
      /\ DOMAIN jobs = Uploads /\ DOMAIN docs = Uploads
  BY DEF TypeOK
<1>1. CASE /\ jobs[u].status # "none" => jobs'[u].status # "none"
           /\ docs[u].key => docs'[u].key
  BY <1>1 DEF Owned
<1>2. ASSUME NEW o \in Owners, Erase(o)
      PROVE  \/ Owned(k)'
             \/ \E p \in account : p \in Owners /\ tasks'[<<p, k>>] = "pending"
  <2>1. CASE OwnerOf[u] # o
    BY <1>1, <1>2, <2>1 DEF Erase, Mine
  <2>2. CASE OwnerOf[u] = o
    <3>1. k \in Inventory(o)
      BY <2>2 DEF Inventory
    <3>2. <<o, k>> \in TaskIds /\ <<o, k>>[1] = o /\ KeyOf(<<o, k>>) = k
      BY TaskShape
    <3> QED
      BY <1>2, <3>1, <3>2 DEF Erase
  <2> QED
    BY <2>1, <2>2
<1>3. ASSUME NEW v \in Uploads, Accept(v) \/ Uploading(v) \/ KillUpload(v)
      PROVE  /\ jobs[u].status # "none" => jobs'[u].status # "none"
             /\ docs[u].key => docs'[u].key
  <2>1. CASE CommitUpload(v)
    BY <1>0, <2>1 DEF CommitUpload, ImportJobRows, DocumentRows
  <2> QED
    BY <1>3, <2>1 DEF Accept, Uploading, WriteUpload, CheckRejected, DeleteRejected,
       ReturnDuplicate, LockUpload, KillUpload, rows
<1>4. ASSUME NEW v \in Uploads,
             ClaimJob(v) \/ Importing(v) \/ KillImport(v) \/ LapseImport(v)
      PROVE  /\ jobs[u].status # "none" => jobs'[u].status # "none"
             /\ docs[u].key => docs'[u].key
  <2> USE <1>0 DEF ImportJobRows, DocumentRows
  <2>1. CASE ClaimJob(v) \/ FinishJob(v)
    BY <2>1 DEF ClaimJob, FinishJob
  <2>2. CASE CreateDoc(v) \/ CommitFile(v)
    BY <2>2 DEF CreateDoc, CommitFile
  <2>3. CASE KillImport(v) \/ LapseImport(v)
    BY <2>3 DEF KillImport, LapseImport
  <2> QED
    BY <1>4, <2>1, <2>2, <2>3 DEF Importing, StoreFile, LockFile, RetainFile, rows
<1>5. ASSUME NEW v \in Uploads, PurgeSource(v) \/ Purging(v) \/ KillPurge(v)
      PROVE  /\ jobs[u].status # "none" => jobs'[u].status # "none"
             /\ docs[u].key => docs'[u].key
  <2> USE <1>0 DEF ImportJobRows, DocumentRows
  <2>1. CASE PurgeSource(v)
    BY <2>1 DEF PurgeSource
  <2>2. CASE PurgeBlob(v)
    BY <2>2 DEF PurgeBlob
  <2> QED
    BY <1>5, <2>1, <2>2 DEF Purging, PurgeCheck, KillPurge, rows
<1>6. /\ \A m \in Memos : WriteMemo(m) \/ Remembering(m) => UNCHANGED <<jobs, docs>>
      /\ \A c \in Cleaners : Cleaning(c) \/ KillCleaner(c) => UNCHANGED <<jobs, docs>>
  BY DEF WriteMemo, Remembering, LockMemo, CommitMemo, RetainMemo, Cleaning, ClaimTask,
     AttemptCheck, AttemptEnd, KillCleaner, rows
<1> QED
  BY <1>1, <1>2, <1>3, <1>4, <1>5, <1>6 DEF Next, vars

\* What is known stays known while no other task for the key ends.
LEMMA KnownStep ==
  ASSUME TypeOK, MemosKept, [Next]_vars, NEW k \in Keys, NEW t \in TaskIds,
         KnownBut(k, t), t[1] \notin account,
         \A c \in Cleaners :
           AttemptEnd(c) /\ KeyOf(cleaner[c].task) = k => cleaner[c].task = t
  PROVE  KnownBut(k, t)'
<1>1. CASE k \in leaked
  BY <1>1, LeakedGrows DEF KnownBut
<1>2. CASE \E m \in memory : MemoKey[m] = k
  BY <1>2, MemosKeptStep DEF KnownBut
<1>3. CASE Owned(k)
  <2>1. CASE Owned(k)'
    BY <2>1 DEF KnownBut
  <2>2. ASSUME NEW o \in account, o \in Owners, tasks'[<<o, k>>] = "pending"
        PROVE  KnownBut(k, t)'
    <3>1. <<o, k>> # t
      BY <2>2, TaskShape
    <3> QED
      BY <2>2, <3>1 DEF KnownBut, Outstanding
  <2> QED
    BY <1>3, <2>1, <2>2, OwnedStep
<1>4. ASSUME NEW o \in Owners, <<o, k>> # t, tasks[<<o, k>>] \in Outstanding
      PROVE  KnownBut(k, t)'
  <2>1. <<o, k>> \in TaskIds /\ <<o, k>>[1] = o /\ KeyOf(<<o, k>>) = k /\ o # "rejected"
    BY TaskShape, StorageConstants
  <2>2. \A j : <<o, k>> # <<"rejected", j>>
    BY <2>1
  <2>3. \A c \in Cleaners : AttemptEnd(c) => cleaner[c].task # <<o, k>>
    BY <1>4, <2>1
  <2>4. tasks'[<<o, k>>] \in Outstanding
    BY <1>4, <2>1, <2>2, <2>3, TaskStep DEF Outstanding
  <2> QED
    BY <1>4, <2>4 DEF KnownBut
<1> QED
  BY <1>1, <1>2, <1>3, <1>4 DEF KnownBut

\* An attempt that ends has the lock of its key.
LEMMA AttemptHolds ==
  ASSUME TypeOK, LocksHeld, NEW c \in Cleaners, cleaner[c].pc = "locked"
  PROVE  keyLock[KeyOf(cleaner[c].task)] = <<"task", c>>
<1>1. KeyOf(cleaner[c].task) \in Keys /\ <<"task", c>> \in Holders
  BY TaskShape, WhoTypes DEF TypeOK
<1> QED
  BY <1>1 DEF LocksHeld, Claims, TaskClaim

LEMMA UploadKnown ==
  ASSUME TypeOK, LocksHeld, MemosKept, KeptKnown, [Next]_vars,
         NEW u \in Uploads, upload[u] = "keep"
  PROVE  KnownBut(RawKey[u], <<"rejected", RawKey[u]>>)'
<1>1. RawKey[u] \in Keys /\ keyLock[RawKey[u]] = <<"upload", u>>
  BY StorageConstants, WhoTypes DEF LocksHeld, Claims, UploadClaim
<1>2. \A c \in Cleaners : AttemptEnd(c) => KeyOf(cleaner[c].task) # RawKey[u]
  BY <1>1, AttemptHolds DEF AttemptEnd
<1>3. /\ <<"rejected", RawKey[u]>> \in TaskIds
      /\ <<"rejected", RawKey[u]>>[1] \notin account
  BY <1>1, TaskShape, StorageConstants DEF TypeOK
<1> QED
  BY <1>1, <1>2, <1>3, KnownStep DEF KeptKnown

LEMMA CleanerKnown ==
  ASSUME TypeOK, LocksHeld, MemosKept, TasksRight, KeptKnown, [Next]_vars,
         NEW c \in Cleaners, cleaner[c].pc = "locked", cleaner[c].needed,
         NEW t \in TaskIds, t = cleaner[c].task
  PROVE  KnownBut(KeyOf(t), t)'
<1>1. KeyOf(t) \in Keys /\ keyLock[KeyOf(t)] = <<"task", c>>
  BY AttemptHolds, TaskShape
<1>2. ASSUME NEW d \in Cleaners, AttemptEnd(d), KeyOf(cleaner[d].task) = KeyOf(t)
      PROVE  cleaner[d].task = t
  BY <1>1, <1>2, AttemptHolds DEF AttemptEnd
<1>3. t[1] \notin account
  BY <1>1, TaskShape, StorageConstants DEF TypeOK, TasksRight
<1> QED
  BY <1>1, <1>2, <1>3, KnownStep DEF KeptKnown

LEMMA KnownFrame ==
  ASSUME UNCHANGED <<leaked, jobs, docs, memory, tasks>>, NEW k, NEW t
  PROVE  KnownBut(k, t) => KnownBut(k, t)'
  BY DEF KnownBut, Owned

LEMMA KeptKnownStep ==
  ASSUME TypeOK, RejectedEmpty, LocksHeld, RowsAgree, MemosKept, TasksRight, KeptKnown,
         [Next]_vars
  PROVE  KeptKnown'
<1>0. DOMAIN upload = Uploads /\ DOMAIN cleaner = Cleaners
  BY DEF TypeOK
<1>1. ASSUME NEW u \in Uploads, upload'[u] = "keep"
      PROVE  KnownBut(RawKey[u], <<"rejected", RawKey[u]>>)'
  <2>1. CASE CheckRejected(u)
    <3>1. RawKey[u] = EmptyKey /\ Referenced(EmptyKey)
      BY <1>0, <1>1, <2>1 DEF CheckRejected, RejectedEmpty, Step, At
    <3>2. UNCHANGED <<leaked, jobs, docs, memory, tasks>>
      BY <2>1 DEF CheckRejected, rows
    <3> QED
      BY <3>1, <3>2, ReferencedKnown, KnownFrame
  <2>2. CASE ~CheckRejected(u)
    <3>1. \A v \in Uploads : Accept(v) \/ Uploading(v) \/ KillUpload(v) => upload[u] = "keep"
      BY <1>0, <1>1, <2>2 DEF Accept, Uploading, WriteUpload, CheckRejected,
         DeleteRejected, ReturnDuplicate, LockUpload, CommitUpload, KillUpload,
         EndUpload, Step, At
    <3>2. upload[u] = "keep"
      BY <1>1, <3>1 DEF Next, vars, ClaimJob, Importing, CreateDoc, StoreFile, LockFile,
         CommitFile, RetainFile, FinishJob, KillImport, LapseImport, clients, WriteMemo,
         Remembering, LockMemo, CommitMemo, RetainMemo, PurgeSource, Purging, PurgeCheck,
         PurgeBlob, KillPurge, Erase, Cleaning, ClaimTask, AttemptCheck, AttemptEnd,
         KillCleaner
    <3> QED
      BY <3>2, UploadKnown
  <2> QED
    BY <2>1, <2>2
<1>2. ASSUME NEW c \in Cleaners, cleaner'[c].pc = "locked", cleaner'[c].needed,
             NEW t \in TaskIds, t = cleaner'[c].task
      PROVE  KnownBut(KeyOf(t), t)'
  <2>1. CASE cleaner'[c] = cleaner[c]
    BY <1>2, <2>1, CleanerKnown
  <2>2. CASE AttemptCheck(c)
    <3>1. t = cleaner[c].task /\ UNCHANGED <<leaked, jobs, docs, memory, tasks>>
      BY <1>2, <2>2 DEF AttemptCheck, TypeOK, NoTask, rows
    <3>2. Referenced(KeyOf(t))
      <4>1. CASE tasks[t] \in Outstanding
        <5>1. cleaner' = [cleaner EXCEPT ![c].pc = "locked",
                                        ![c].needed = Referenced(KeyOf(t))]
          BY <2>2, <3>1, <4>1 DEF AttemptCheck
        <5>2. cleaner'[c].needed = Referenced(KeyOf(t))
          BY <5>1 DEF TypeOK
        <5> QED
          BY <1>2, <5>2
      <4>2. CASE tasks[t] \notin Outstanding
        BY <1>0, <1>2, <2>2, <3>1, <4>2 DEF AttemptCheck, NoTask
      <4> QED
        BY <4>1, <4>2
    <3> QED
      BY <3>1, <3>2, ReferencedKnown, KnownFrame
  <2>3. ASSUME NEW d \in Cleaners, d # c \/ ~AttemptCheck(c), Cleaning(d) \/ KillCleaner(d)
        PROVE  cleaner'[c] = cleaner[c]
    <3>1. \A s \in TaskIds : [pc |-> "claimed", task |-> s, needed |-> FALSE].pc # "locked"
      OBVIOUS
    <3> QED
      BY <1>0, <1>2, <2>3, <3>1 DEF Cleaning, ClaimTask, AttemptCheck, AttemptEnd,
         KillCleaner, NoTask
  <2>4. CASE UNCHANGED cleaner
    BY <2>1, <2>4
  <2> QED
    BY <2>1, <2>2, <2>3, <2>4 DEF Next, vars, Accept, Uploading, WriteUpload,
       CheckRejected, DeleteRejected, ReturnDuplicate, LockUpload, CommitUpload,
       KillUpload, ClaimJob, Importing, CreateDoc, StoreFile, LockFile, CommitFile,
       RetainFile, FinishJob, KillImport, LapseImport, clients, WriteMemo, Remembering,
       LockMemo, CommitMemo, RetainMemo, PurgeSource, Purging, PurgeCheck, PurgeBlob,
       KillPurge, Erase
<1>3. ASSUME NEW c \in Cleaners, cleaner'[c].pc = "locked", cleaner'[c].needed
      PROVE  cleaner'[c].task \in TaskIds
  BY TypeStep DEF TypeOK
<1> QED
  BY <1>1, <1>2, <1>3 DEF KeptKnown

\* The same keys as InFlight, as a predicate.
InHand(k) ==
  \/ \E u \in Uploads :
       /\ RawKey[u] = k
       /\ upload[u] \in {"written", "reject", "keep", "delete", "locked"}
  \/ \E u \in Uploads : FileKey[u] = k /\ import[u] \in {"lock", "commit"}
  \/ \E m \in Memos : MemoKey[m] = k /\ memo[m] \in {"lock", "commit"}

\* Everything by which a key is accounted for.
Accounted(k) ==
  \/ k \in leaked \/ InHand(k) \/ Owned(k)
  \/ \E m \in memory : MemoKey[m] = k
  \/ \E t \in TaskIds : KeyOf(t) = k /\ tasks[t] \in Outstanding

LEMMA AccountedFor ==
  /\ EveryBlobAccounted <=> \A k \in blob : Accounted(k)
  /\ EveryBlobAccounted' <=> \A k \in blob' : Accounted(k)'
<1>1. \A k : k \in InFlight <=> InHand(k)
  BY DEF InFlight, InHand
<1>2. \A k : k \in InFlight' <=> InHand(k)'
  BY DEF InFlight, InHand
<1> QED
  BY <1>1, <1>2, InventoryOwned DEF EveryBlobAccounted, Accounted

LEMMA KnownAccounted ==
  ASSUME NEW k \in Keys, NEW t, KnownBut(k, t)'
  PROVE  Accounted(k)'
  BY TaskShape DEF KnownBut, Accounted

\* Whoever writes bytes has them in hand.
LEMMA NewBlobInHand ==
  ASSUME TypeOK, [Next]_vars, NEW k \in blob', k \notin blob
  PROVE  InHand(k)'
<1>0. DOMAIN upload = Uploads /\ DOMAIN import = Uploads /\ DOMAIN memo = Memos
  BY DEF TypeOK
<1>1. ASSUME NEW u \in Uploads, WriteUpload(u) PROVE InHand(k)'
  BY <1>0, <1>1 DEF WriteUpload, Publish, Step, InHand
<1>2. ASSUME NEW u \in Uploads, StoreFile(u) \/ LockFile(u) PROVE InHand(k)'
  BY <1>0, <1>2 DEF StoreFile, LockFile, Publish, ImportStep, InHand
<1>3. ASSUME NEW m \in Memos, WriteMemo(m) \/ LockMemo(m) PROVE InHand(k)'
  BY <1>0, <1>3 DEF WriteMemo, LockMemo, Publish, MemoStep, InHand
<1> QED
  BY <1>1, <1>2, <1>3 DEF Next, vars, Accept, Uploading, CheckRejected, DeleteRejected,
     ReturnDuplicate, LockUpload, CommitUpload, KillUpload, ClaimJob, Importing,
     CreateDoc, CommitFile, RetainFile, FinishJob, KillImport, LapseImport, Remembering,
     CommitMemo, RetainMemo, PurgeSource, Purging, PurgeCheck, PurgeBlob, KillPurge,
     Erase, Cleaning, ClaimTask, AttemptCheck, AttemptEnd, KillCleaner

\* Nobody lets go of bytes that are not accounted for otherwise.
LEMMA InHandStep ==
  ASSUME TypeOK, RejectedEmpty, LocksHeld, MemosKept, KeptKnown, [Next]_vars,
         NEW k \in Keys, k \in blob, k \in blob', InHand(k)
  PROVE  Accounted(k)'
<1>0. DOMAIN upload = Uploads /\ DOMAIN import = Uploads /\ DOMAIN memo = Memos
  BY DEF TypeOK
<1>1. CASE InHand(k)'
  BY <1>1 DEF Accounted
<1>2. ASSUME NEW u \in Uploads, Accept(u) \/ Uploading(u) \/ KillUpload(u)
      PROVE  Accounted(k)'
  <2> DEFINE busy == {"written", "reject", "keep", "delete", "locked"}
  <2>1. UNCHANGED <<import, memo>> /\ \A v \in Uploads \ {u} : UNCHANGED upload[v]
    BY <1>0, <1>2 DEF Accept, Uploading, WriteUpload, CheckRejected, DeleteRejected,
       ReturnDuplicate, LockUpload, CommitUpload, KillUpload, EndUpload, Step, At
  <2>2. CASE RawKey[u] # k \/ upload[u] \notin busy \/ upload'[u] \in busy
    BY <1>1, <2>1, <2>2 DEF InHand
  <2>3. CASE RawKey[u] = k /\ upload[u] \in busy /\ upload'[u] \notin busy
    <3>1. CASE CheckRejected(u) \/ Accept(u) \/ WriteUpload(u)
      BY <1>0, <2>3, <3>1 DEF CheckRejected, Accept, WriteUpload, Step, At
    <3>2. CASE DeleteRejected(u)
      <4>1. k = EmptyKey
        BY <2>3, <3>2 DEF DeleteRejected, RejectedEmpty, At
      <4>2. CASE At(u, "keep")
        <5>1. KnownBut(k, <<"rejected", k>>)'
          BY <2>3, <4>2, UploadKnown DEF At
        <5> QED
          BY <5>1, KnownAccounted
      <4>3. CASE k \in leaked'
        BY <4>3 DEF Accounted
      <4>4. CASE tasks' = [tasks EXCEPT ![<<"rejected", EmptyKey>>] =
                             IF @ \in Outstanding THEN @ ELSE "pending"]
        <5>1. <<"rejected", k>> \in TaskIds /\ KeyOf(<<"rejected", k>>) = k
          BY TaskShape
        <5>2. tasks'[<<"rejected", k>>] \in Outstanding
          BY <4>1, <4>4, <5>1 DEF TypeOK, Outstanding
        <5> QED
          BY <5>1, <5>2 DEF Accounted
      <4> QED
        BY <3>2, <4>1, <4>2, <4>3, <4>4 DEF DeleteRejected
    <3>3. CASE ReturnDuplicate(u)
      <4>1. Owned(k)'
        BY <2>3, <3>3 DEF ReturnDuplicate, Duplicate, Owned, rows
      <4> QED
        BY <4>1 DEF Accounted
    <3>4. CASE LockUpload(u)
      BY <1>0, <2>3, <3>4 DEF LockUpload, Step
    <3>5. CASE CommitUpload(u)
      <4>1. Owned(k)'
        BY <2>3, <3>5 DEF CommitUpload, Owned, TypeOK, ImportJobRows
      <4> QED
        BY <4>1 DEF Accounted
    <3>6. CASE KillUpload(u)
      BY <2>3, <3>6 DEF KillUpload, Accounted
    <3> QED
      BY <1>2, <3>1, <3>2, <3>3, <3>4, <3>5, <3>6 DEF Uploading
  <2> QED
    BY <2>2, <2>3
<1>3. ASSUME NEW u \in Uploads,
             ClaimJob(u) \/ Importing(u) \/ KillImport(u) \/ LapseImport(u)
      PROVE  Accounted(k)'
  <2>1. UNCHANGED <<upload, memo>> /\ \A v \in Uploads \ {u} : UNCHANGED import[v]
    BY <1>0, <1>3 DEF ClaimJob, Importing, CreateDoc, StoreFile, LockFile, CommitFile,
       RetainFile, FinishJob, KillImport, LapseImport, clients, ImportStep
  <2>2. CASE \/ FileKey[u] # k \/ import[u] \notin {"lock", "commit"}
             \/ import'[u] \in {"lock", "commit"}
    BY <1>1, <2>1, <2>2 DEF InHand
  <2>3. CASE /\ FileKey[u] = k /\ import[u] \in {"lock", "commit"}
             /\ import'[u] \notin {"lock", "commit"}
    <3>1. CASE CommitFile(u)
      <4>1. CASE docs[u].status # "none"
        <5>1. Owned(k)'
          BY <2>3, <3>1, <4>1 DEF CommitFile, Owned, TypeOK, DocumentRows
        <5> QED
          BY <5>1 DEF Accounted
      <4>2. CASE docs[u].status = "none"
        BY <2>3, <3>1, <4>2 DEF CommitFile, Accounted
      <4> QED
        BY <4>1, <4>2
    <3>2. CASE KillImport(u)
      BY <2>3, <3>2 DEF KillImport, Accounted
    <3> QED
      BY <1>0, <1>3, <2>3, <3>1, <3>2 DEF ClaimJob, Importing, CreateDoc, StoreFile,
         LockFile, RetainFile, FinishJob, LapseImport, clients, ImportStep
  <2> QED
    BY <2>2, <2>3
<1>4. ASSUME NEW m \in Memos, WriteMemo(m) \/ Remembering(m)
      PROVE  Accounted(k)'
  <2>1. UNCHANGED <<upload, import>> /\ \A n \in Memos \ {m} : UNCHANGED memo[n]
    BY <1>0, <1>4 DEF WriteMemo, Remembering, LockMemo, CommitMemo, RetainMemo, MemoStep
  <2>2. CASE \/ MemoKey[m] # k \/ memo[m] \notin {"lock", "commit"}
             \/ memo'[m] \in {"lock", "commit"}
    BY <1>1, <2>1, <2>2 DEF InHand
  <2>3. CASE /\ MemoKey[m] = k /\ memo[m] \in {"lock", "commit"}
             /\ memo'[m] \notin {"lock", "commit"}
    <3>1. m \in memory'
      BY <1>0, <1>4, <2>3 DEF WriteMemo, Remembering, LockMemo, CommitMemo, RetainMemo,
         MemoStep
    <3> QED
      BY <2>3, <3>1 DEF Accounted
  <2> QED
    BY <2>2, <2>3
<1> QED
  BY <1>1, <1>2, <1>3, <1>4 DEF Next, vars, PurgeSource, Purging, PurgeCheck, PurgeBlob,
     KillPurge, Erase, clients, Cleaning, ClaimTask, AttemptCheck, AttemptEnd,
     KillCleaner, InHand

\* No task is settled unless its blob is gone or known otherwise.
LEMMA TaskAccounted ==
  ASSUME TypeOK, LocksHeld, RowsAgree, MemosKept, TasksRight, KeptKnown, [Next]_vars,
         NEW t \in TaskIds, tasks[t] \in Outstanding, KeyOf(t) \in blob'
  PROVE  Accounted(KeyOf(t))'
<1> DEFINE k == KeyOf(t)
<1>0. k \in Keys
  BY TaskShape
<1>1. CASE tasks'[t] \in Outstanding
  BY <1>1 DEF Accounted
<1>2. ASSUME NEW u \in Uploads, RetainFile(u), t = <<"rejected", FileKey[u]>>
      PROVE  Accounted(k)'
  <2>1. k = FileKey[u]
    BY <1>2 DEF KeyOf
  <2>2. CASE docs[u].status = "none"
    BY <1>2, <2>1, <2>2 DEF RetainFile, Accounted
  <2>3. CASE docs[u].status # "none"
    <3>1. Owned(k)'
      BY <1>2, <2>1, <2>3 DEF RetainFile, RowsAgree, RowAgrees, Owned
    <3> QED
      BY <3>1 DEF Accounted
  <2> QED
    BY <2>2, <2>3
<1>3. ASSUME NEW m \in Memos, RetainMemo(m), t = <<"rejected", MemoKey[m]>>
      PROVE  Accounted(k)'
  BY <1>3 DEF RetainMemo, MemosKept, Accounted, KeyOf
<1>4. ASSUME NEW c \in Cleaners, AttemptEnd(c), cleaner[c].task = t
      PROVE  Accounted(k)'
  <2>1. CASE cleaner[c].needed
    BY <1>0, <1>4, <2>1, CleanerKnown, KnownAccounted DEF AttemptEnd
  <2>2. CASE ~cleaner[c].needed
    <3>1. k \notin blob' \/ tasks' = [tasks EXCEPT ![t] = "failed"]
      BY <1>4, <2>2 DEF AttemptEnd
    <3> QED
      BY <1>1, <3>1 DEF TypeOK, Outstanding
  <2> QED
    BY <2>1, <2>2
<1> QED
  BY <1>1, <1>2, <1>3, <1>4, TaskStep DEF Outstanding

LEMMA EveryBlobAccountedStep ==
  ASSUME TypeOK, RejectedEmpty, LocksHeld, RowsAgree, MemosKept, TasksRight, KeptKnown,
         EveryBlobAccounted, [Next]_vars
  PROVE  EveryBlobAccounted'
<1> SUFFICES ASSUME NEW k \in blob' PROVE Accounted(k)'
  BY AccountedFor
<1>1. k \in Keys
  BY TypeStep DEF TypeOK
<1>2. CASE k \notin blob
  BY <1>2, NewBlobInHand DEF Accounted
<1>3. CASE k \in blob
  <2>0. Accounted(k)
    BY <1>3, AccountedFor
  <2>1. CASE k \in leaked
    BY <2>1, LeakedGrows DEF Accounted
  <2>2. CASE InHand(k)
    BY <1>1, <1>3, <2>2, InHandStep
  <2>3. CASE Owned(k)
    <3>1. CASE Owned(k)'
      BY <3>1 DEF Accounted
    <3>2. ASSUME NEW o \in Owners, tasks'[<<o, k>>] = "pending"
          PROVE  Accounted(k)'
      BY <1>1, <3>2, TaskShape DEF Accounted, Outstanding
    <3> QED
      BY <1>1, <2>3, <3>1, <3>2, OwnedStep
  <2>4. CASE \E m \in memory : MemoKey[m] = k
    BY <2>4, MemosKeptStep DEF Accounted
  <2>5. CASE \E t \in TaskIds : KeyOf(t) = k /\ tasks[t] \in Outstanding
    BY <2>5, TaskAccounted
  <2> QED
    BY <2>0, <2>1, <2>2, <2>3, <2>4, <2>5 DEF Accounted
<1> QED
  BY <1>2, <1>3

-----------------------------------------------------------------------------
(* The inductive invariant and the theorems                                *)

StoreInv ==
  /\ TypeOK
  /\ RejectedEmpty /\ LocksHeld /\ OwnersHeld /\ RowsAgree
  /\ RegisteredExist /\ DeletersRight /\ ReferencedBlobsExist
  /\ MemosKept /\ TasksRight /\ KeptKnown /\ EveryBlobAccounted

LEMMA StoreInvInit == Init => StoreInv
<1> SUFFICES ASSUME Init PROVE StoreInv
  OBVIOUS
<1>1. TypeOK
  BY InitTyped
<1>2. RejectedEmpty /\ OwnersHeld /\ MemosKept
  BY DEF Init, RejectedEmpty, OwnersHeld, MemosKept
<1>3. RowsAgree
  BY StorageConstants DEF Init, RowsAgree, RowAgrees, NoJob, NoDoc, LiveDoc
<1>4. LocksHeld
  BY DEF Init, LocksHeld, Claims, UploadClaim, ImportClaim, PurgeClaim, MemoClaim,
     TaskClaim, NoTask
<1>5. \A k : ~Registering(k) /\ ~Deleting(k) /\ ~Referenced(k)
  BY DEF Init, Registering, Deleting, Referenced, LiveDoc, NoTask, NoJob, NoDoc
<1>6. TasksRight
  BY TaskShape DEF Init, TasksRight, NoTask
<1>7. KeptKnown
  BY DEF Init, KeptKnown, NoTask
<1>8. EveryBlobAccounted
  BY DEF Init, EveryBlobAccounted
<1> QED
  BY <1>1, <1>2, <1>3, <1>4, <1>5, <1>6, <1>7, <1>8
     DEF StoreInv, RegisteredExist, DeletersRight, ReferencedBlobsExist

LEMMA StoreInvStep == StoreInv /\ [Next]_vars => StoreInv'
<1> SUFFICES ASSUME StoreInv, [Next]_vars PROVE StoreInv'
  OBVIOUS
<1> USE DEF StoreInv
<1>1. TypeOK'
  BY TypeStep
<1>2. RejectedEmpty' /\ LocksHeld'
  BY RejectedEmptyStep, LocksHeldStep
<1>3. OwnersHeld' /\ RowsAgree'
  BY OwnersHeldStep, RowsAgreeStep
<1>4. DeletersRight'
  BY DeletersRightStep
<1>5. RegisteredExist' /\ ReferencedBlobsExist'
  BY BlobsKept
<1>6. MemosKept' /\ TasksRight'
  BY MemosKeptStep, TasksRightStep
<1>7. KeptKnown'
  BY KeptKnownStep
<1>8. EveryBlobAccounted'
  BY EveryBlobAccountedStep
<1> QED
  BY <1>1, <1>2, <1>3, <1>4, <1>5, <1>6, <1>7, <1>8

LEMMA StoreInvariant == Spec => []StoreInv
<1> QED
  BY StoreInvInit, StoreInvStep, PTL DEF Spec

\* No interleaving of uploads, imports, ingestions, purges, erasures and retries
\* deletes a blob that a row still needs: the key's lock is held from the look
\* for references to the delete, and from the look at the blob to the commit of
\* the row that refers to it (delete_if_unreferenced, purge_source,
\* attempt_storage_deletion_task; _store_bytes_with_reference_lock).
THEOREM UsedBlobsStay == Spec => []ReferencedBlobsExist
<1>1. StoreInv => ReferencedBlobsExist
  BY DEF StoreInv
<1> QED
  BY <1>1, StoreInvariant, PTL

\* The store's states are typed, an erased account leaves no row and none comes
\* back (erase_account_data under the owner's lock), and every blob on disk is
\* known to a row, to a deletion task, to whoever just wrote it or to the
\* failures that lose one.
THEOREM StoreSettled == Spec => []StorageInv
<1>1. StoreInv => StorageInv
  BY DEF StoreInv, StorageInv, ErasedStaysErased, RowsAgree, RowAgrees
<1> QED
  BY <1>1, StoreInvariant, PTL

=============================================================================
