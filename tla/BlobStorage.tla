----------------------------- MODULE BlobStorage -----------------------------
(***************************************************************************)
(* Content-addressed blobs and everything that adds or removes one: the    *)
(* two upload endpoints, the worker that stores the files of a package,    *)
(* project memory, source purge, account erasure and the deletion tasks.   *)
(*                                                                         *)
(* Bytes are durable before any row refers to them, and one blob may serve *)
(* several owners.  Two advisory locks keep the parties apart, both freed  *)
(* when the transaction of their holder ends: one per owner (uploads,      *)
(* claims, erasure) and one per storage key (whoever registers or deletes  *)
(* a blob).  A write takes neither: the key is the hash of what was        *)
(* written.                                                                *)
(*                                                                         *)
(* Upload u creates job u, and document u is the file of that job.  A job  *)
(* is "done" in each of its final statuses; ImportJobs tells them apart.   *)
(***************************************************************************)
EXTENDS Naturals, FiniteSets

CONSTANTS
  Owners,       \* accounts
  Keys,         \* contents, named by their hash
  EmptyKey,     \* the hash of no bytes
  Uploads,      \* upload requests
  OwnerOf,      \* OwnerOf[u]
  RawKey,       \* RawKey[u]: the bytes uploaded
  FileKey,      \* FileKey[u]: the file inside the package
  Legacy,       \* uploads through /api/documents/upload
  Memos,        \* documents ingested into project memory
  MemoKey,      \* MemoKey[m]
  Workers,      \* worker processes retrying deletion tasks
  MaxDeletes,   \* bound: sources purged and accounts erased
  MaxFaults     \* bound: requests and workers killed, StorageErrors, and leases
                \* that run out on a live worker

ASSUME StorageConstants ==
  /\ EmptyKey \in Keys
  /\ OwnerOf \in [Uploads -> Owners]
  /\ RawKey \in [Uploads -> Keys] /\ FileKey \in [Uploads -> Keys]
  /\ MemoKey \in [Memos -> Keys]
  /\ Legacy \subseteq Uploads
  /\ \A u \in Legacy : RawKey[u] # EmptyKey /\ FileKey[u] = RawKey[u]
  /\ MaxDeletes \in Nat /\ MaxFaults \in Nat
  /\ "rejected" \notin Owners /\ "free" \notin Uploads

VARIABLES
  blob,       \* keys with bytes on disk
  account,    \* owners whose account exists
  jobs,       \* jobs[u]: the import job
  docs,       \* docs[u]: the document
  memory,     \* memos with a row
  tasks,      \* tasks[t]: status of a storage_deletion_tasks row
  ownerLock,  \* ownerLock[o]: the upload holding it, or "free"
  keyLock,    \* keyLock[k]: who holds it, or <<>>
  upload,     \* upload[u]: where the request is
  import,     \* import[u]: where the worker importing job u is
  purge,      \* purge[u]: where the request deleting document u is
  memo,       \* memo[m]: where the ingestion is
  cleaner,    \* cleaner[c]: the deletion task being attempted
  leaked,     \* history: keys somebody wrote and lost track of
  deletes,    \* bounded counters
  faults

vars == <<blob, account, jobs, docs, memory, tasks, ownerLock, keyLock, upload,
          import, purge, memo, cleaner, leaked, deletes, faults>>

rows == <<account, jobs, docs, memory, tasks>>
clients == <<upload, import, purge, memo, cleaner>>

\* An erasure request attempts its own tasks before it answers.
Cleaners == Workers \cup Owners

\* A task belongs to the erasure of an account or to a rejected upload.
TaskIds == (Owners \cup {"rejected"}) \X Keys
KeyOf(t) == t[2]

JobStatuses == {"none", "pending", "running", "done", "cancelled"}
Outstanding == {"pending", "processing", "failed"}

NoJob == [status |-> "none", lease |-> FALSE]
NoDoc == [status |-> "none", key |-> FALSE, deleted |-> FALSE, deletion |-> "none"]
NoTask == [pc |-> "idle", task |-> CHOOSE t \in TaskIds : TRUE, needed |-> FALSE]

-----------------------------------------------------------------------------
(* References                                                              *)

LiveDoc(u) == docs[u].status # "none" /\ ~docs[u].deleted

\* storage_key_still_referenced_global: a live document, a job that may still
\* read its upload, or project memory.
Referenced(k) ==
  \/ \E u \in Uploads :
       \/ LiveDoc(u) /\ docs[u].key /\ FileKey[u] = k
       \/ /\ RawKey[u] = k
          /\ \/ jobs[u].status \in {"pending", "running"}
             \/ LiveDoc(u) /\ docs[u].status = "open"
  \/ \E m \in memory : MemoKey[m] = k

\* Keys of the owner's rows, the deleted and the finished ones included.
Inventory(o) ==
  {RawKey[u] : u \in {v \in Uploads : OwnerOf[v] = o /\ jobs[v].status # "none"}}
    \cup {FileKey[u] : u \in {v \in Uploads : OwnerOf[v] = o /\ docs[v].key}}

LockKey(k, who) == keyLock[k] = <<>> /\ keyLock' = [keyLock EXCEPT ![k] = who]
UnlockKey(k) == keyLock' = [keyLock EXCEPT ![k] = <<>>]

\* A transaction that is killed gives its locks back.
UnlockAll(who) ==
  keyLock' = [k \in Keys |-> IF keyLock[k] = who THEN <<>> ELSE keyLock[k]]

\* write_stream and its publication: whatever is there, the bytes are after it.
Publish(k) == blob' = blob \cup {k}

MayDelete == deletes < MaxDeletes /\ deletes' = deletes + 1

MayFail == faults < MaxFaults /\ faults' = faults + 1

\* retain_pending_rejected_upload_cleanup_tasks.  The UPDATE waits for an
\* attempt that has the row.
Retain(k) ==
  /\ ~ \E c \in Cleaners :
         cleaner[c].pc = "locked" /\ cleaner[c].task = <<"rejected", k>>
  /\ tasks' = [tasks EXCEPT ![<<"rejected", k>>] =
                 IF @ \in Outstanding THEN "retained_shared" ELSE @]

-----------------------------------------------------------------------------
Init ==
  /\ blob = {} /\ account = Owners /\ memory = {} /\ leaked = {}
  /\ jobs = [u \in Uploads |-> NoJob]
  /\ docs = [u \in Uploads |-> NoDoc]
  /\ tasks = [t \in TaskIds |-> "none"]
  /\ ownerLock = [o \in Owners |-> "free"]
  /\ keyLock = [k \in Keys |-> <<>>]
  /\ upload = [u \in Uploads |-> "none"]
  /\ import = [u \in Uploads |-> "idle"]
  /\ purge = [u \in Uploads |-> "none"]
  /\ memo = [m \in Memos |-> "none"]
  /\ cleaner = [c \in Cleaners |-> NoTask]
  /\ deletes = 0 /\ faults = 0

-----------------------------------------------------------------------------
(* import_package and upload_document                                      *)

At(u, pc) == upload[u] = pc
Step(u, pc) == upload' = [upload EXCEPT ![u] = pc]

\* The request ends: both its locks go with the transaction.
EndUpload(u) ==
  /\ Step(u, "end")
  /\ ownerLock' = [ownerLock EXCEPT ![OwnerOf[u]] = "free"]

\* The owner's lock first, then a look whether the account is still there.
Accept(u) ==
  /\ At(u, "none") /\ ownerLock[OwnerOf[u]] = "free"
  /\ \/ /\ OwnerOf[u] \in account
        /\ ownerLock' = [ownerLock EXCEPT ![OwnerOf[u]] = u]
        /\ Step(u, "write")
     \/ /\ OwnerOf[u] \notin account
        /\ Step(u, "end")
        /\ UNCHANGED ownerLock
  /\ UNCHANGED <<blob, rows, keyLock, import, purge, memo, cleaner, leaked, faults, deletes>>

WriteUpload(u) ==
  /\ At(u, "write")
  /\ Publish(RawKey[u])
  /\ Step(u, IF RawKey[u] = EmptyKey THEN "reject" ELSE "written")
  /\ UNCHANGED <<rows, ownerLock, keyLock, import, purge, memo, cleaner, leaked,
                 faults, deletes>>

\* delete_if_unreferenced for an empty upload: the lock and the check ...
CheckRejected(u) ==
  /\ At(u, "reject")
  /\ LockKey(EmptyKey, <<"upload", u>>)
  /\ Step(u, IF Referenced(EmptyKey) THEN "keep" ELSE "delete")
  /\ UNCHANGED <<blob, rows, ownerLock, import, purge, memo, cleaner, leaked, faults, deletes>>

\* ... and the delete.  If it fails a task is queued, and if that fails too
\* only an audit record tells of the blob.
DeleteRejected(u) ==
  /\ upload[u] \in {"keep", "delete"}
  /\ \/ /\ At(u, "keep")
        /\ UNCHANGED <<blob, tasks, leaked, faults>>
     \/ /\ At(u, "delete")
        /\ blob' = blob \ {EmptyKey}
        /\ UNCHANGED <<tasks, leaked, faults>>
     \/ /\ At(u, "delete") /\ MayFail
        /\ \/ /\ tasks' = [tasks EXCEPT ![<<"rejected", EmptyKey>>] =
                             IF @ \in Outstanding THEN @ ELSE "pending"]
              /\ UNCHANGED leaked
           \/ leaked' = leaked \cup {EmptyKey} /\ UNCHANGED tasks
        /\ UNCHANGED blob
  /\ EndUpload(u) /\ UnlockKey(EmptyKey)
  /\ UNCHANGED <<account, jobs, docs, memory, import, purge, memo, cleaner, deletes>>

\* A finished job of the owner for the same bytes that still has a document.
Duplicate(u) ==
  \E v \in Uploads : /\ OwnerOf[v] = OwnerOf[u] /\ RawKey[v] = RawKey[u]
                     /\ jobs[v].status = "done" /\ LiveDoc(v)

ReturnDuplicate(u) ==
  /\ At(u, "written") /\ Duplicate(u)
  /\ EndUpload(u)
  /\ UNCHANGED <<blob, rows, keyLock, import, purge, memo, cleaner, leaked, faults, deletes>>

\* Mutant: the row is added without the key's lock.
LockUploadUnlocked(u) ==
  /\ At(u, "written") /\ ~Duplicate(u) /\ RawKey[u] \in blob
  /\ Step(u, "locked")
  /\ UNCHANGED <<blob, rows, ownerLock, keyLock, import, purge, memo, cleaner,
                 leaked, faults, deletes>>

\* The key's lock, then a look whether a deletion came first (409).
LockUpload(u) ==
  /\ At(u, "written") /\ ~Duplicate(u)
  /\ \/ /\ RawKey[u] \in blob
        /\ LockKey(RawKey[u], <<"upload", u>>)
        /\ Step(u, "locked")
        /\ UNCHANGED ownerLock
     \/ /\ RawKey[u] \notin blob /\ keyLock[RawKey[u]] = <<>>
        /\ EndUpload(u)
        /\ UNCHANGED keyLock
  /\ UNCHANGED <<blob, rows, import, purge, memo, cleaner, leaked, faults, deletes>>

\* The job, and for the legacy endpoint its document, in one commit.  The
\* retention that follows finds nothing: only empty uploads leave such tasks.
CommitUpload(u) ==
  /\ At(u, "locked")
  /\ jobs' = [jobs EXCEPT ![u].status = "pending"]
  /\ docs' = IF u \in Legacy
             THEN [docs EXCEPT ![u].status = "open", ![u].key = TRUE] ELSE docs
  /\ UnlockKey(RawKey[u])
  /\ EndUpload(u)
  /\ UNCHANGED <<blob, account, memory, tasks, import, purge, memo, cleaner, leaked,
                 faults, deletes>>

KillUpload(u) ==
  /\ upload[u] \in {"write", "written", "locked", "reject", "keep", "delete"}
  /\ MayFail
  /\ Step(u, "end")
  /\ ownerLock' = [o \in Owners |-> IF ownerLock[o] = u THEN "free" ELSE ownerLock[o]]
  /\ UnlockAll(<<"upload", u>>)
  /\ leaked' = IF upload[u] \in {"written", "locked", "reject", "keep", "delete"}
               THEN leaked \cup {RawKey[u]} ELSE leaked
  /\ UNCHANGED <<blob, rows, import, purge, memo, cleaner, deletes>>

-----------------------------------------------------------------------------
(* The worker: _import_one_file                                            *)

ImportStep(u, pc) == import' = [import EXCEPT ![u] = pc]

\* claim_next_job takes the owner's lock before it touches the row.
ClaimJob(u) ==
  /\ import[u] = "idle" /\ ownerLock[OwnerOf[u]] = "free"
  /\ \/ jobs[u].status = "pending"
     \/ jobs[u].status = "running" /\ ~jobs[u].lease
  /\ jobs' = [jobs EXCEPT ![u] = [status |-> "running", lease |-> TRUE]]
  /\ ImportStep(u, "create")
  /\ UNCHANGED <<blob, account, docs, memory, tasks, ownerLock, keyLock, upload, purge,
                 memo, cleaner, leaked, faults, deletes>>

\* The Document row is committed before its original is stored.  A document
\* that is already there is resumed, and its original never stored again.
CreateDoc(u) ==
  /\ import[u] = "create"
  /\ \/ /\ jobs[u].status # "none" /\ docs[u].status = "none"
        /\ docs' = [docs EXCEPT ![u].status = "open"]
        /\ ImportStep(u, "store")
     \/ /\ jobs[u].status # "none" /\ docs[u].status # "none"
        /\ ImportStep(u, "finish")
        /\ UNCHANGED docs
     \/ /\ jobs[u].status = "none"
        /\ ImportStep(u, "idle")
        /\ UNCHANGED docs
  /\ UNCHANGED <<blob, account, jobs, memory, tasks, ownerLock, keyLock, upload, purge,
                 memo, cleaner, leaked, faults, deletes>>

StoreFile(u) ==
  /\ import[u] = "store"
  /\ Publish(FileKey[u])
  /\ ImportStep(u, "lock")
  /\ UNCHANGED <<rows, ownerLock, keyLock, upload, purge, memo, cleaner, leaked, faults, deletes>>

\* _store_bytes_with_reference_lock: the lock, and the bytes again if a
\* deletion came in between.
LockFile(u) ==
  /\ import[u] = "lock"
  /\ LockKey(FileKey[u], <<"import", u>>)
  /\ Publish(FileKey[u])
  /\ ImportStep(u, "commit")
  /\ UNCHANGED <<rows, ownerLock, upload, purge, memo, cleaner, leaked, faults, deletes>>

\* Document.storage_key, unless the rows went with the account meanwhile.
CommitFile(u) ==
  /\ import[u] = "commit"
  /\ \/ /\ docs[u].status # "none"
        /\ docs' = [docs EXCEPT ![u].key = TRUE, ![u].status = "open"]
        /\ ImportStep(u, "retain")
        /\ UNCHANGED leaked
     \/ /\ docs[u].status = "none"
        /\ leaked' = leaked \cup {FileKey[u]}
        /\ ImportStep(u, "idle")
        /\ UNCHANGED docs
  /\ UnlockKey(FileKey[u])
  /\ UNCHANGED <<blob, account, jobs, memory, tasks, ownerLock, upload, purge, memo,
                 cleaner, faults, deletes>>

\* The cleanup task is dropped because a document has the key.  A worker that
\* outlived its lease drops it too when that document went with the account.
RetainFile(u) ==
  /\ import[u] = "retain"
  /\ Retain(FileKey[u])
  /\ leaked' = IF docs[u].status = "none" /\ tasks[<<"rejected", FileKey[u]>>] \in Outstanding
               THEN leaked \cup {FileKey[u]} ELSE leaked
  /\ ImportStep(u, "finish")
  /\ UNCHANGED <<blob, account, jobs, docs, memory, ownerLock, keyLock, upload, purge,
                 memo, cleaner, faults, deletes>>

\* The text is extracted and embedded, and the job ends.
FinishJob(u) ==
  /\ import[u] = "finish"
  /\ docs' = IF docs[u].status = "open"
             THEN [docs EXCEPT ![u].status = "indexed"] ELSE docs
  /\ jobs' = IF jobs[u].status = "none" THEN jobs
             ELSE [jobs EXCEPT ![u] = [status |-> "done", lease |-> FALSE]]
  /\ ImportStep(u, "idle")
  /\ UNCHANGED <<blob, account, memory, tasks, ownerLock, keyLock, upload, purge, memo,
                 cleaner, leaked, faults, deletes>>

KillImport(u) ==
  /\ import[u] # "idle"
  /\ MayFail
  /\ ImportStep(u, "idle")
  /\ UnlockAll(<<"import", u>>)
  /\ leaked' = IF import[u] \in {"lock", "commit"} THEN leaked \cup {FileKey[u]}
               ELSE leaked
  /\ jobs' = [jobs EXCEPT ![u].lease = FALSE]
  /\ UNCHANGED <<blob, account, docs, memory, tasks, ownerLock, upload, purge, memo,
                 cleaner, deletes>>

\* The lease runs out while its worker is alive.
LapseImport(u) ==
  /\ jobs[u].status = "running" /\ jobs[u].lease /\ import[u] # "idle"
  /\ MayFail
  /\ jobs' = [jobs EXCEPT ![u].lease = FALSE]
  /\ UNCHANGED <<blob, account, docs, memory, tasks, ownerLock, keyLock, clients, leaked, deletes>>

-----------------------------------------------------------------------------
(* Project memory: ingest_doc, ingest_system_map, create_checkpoint        *)

MemoStep(m, pc) == memo' = [memo EXCEPT ![m] = pc]

WriteMemo(m) ==
  /\ memo[m] = "none"
  /\ Publish(MemoKey[m])
  /\ MemoStep(m, "lock")
  /\ UNCHANGED <<rows, ownerLock, keyLock, upload, import, purge, cleaner, leaked, faults, deletes>>

\* store_content_with_reference_lock.
LockMemo(m) ==
  /\ memo[m] = "lock"
  /\ LockKey(MemoKey[m], <<"memo", m>>)
  /\ Publish(MemoKey[m])
  /\ MemoStep(m, "commit")
  /\ UNCHANGED <<rows, ownerLock, upload, import, purge, cleaner, leaked, faults, deletes>>

CommitMemo(m) ==
  /\ memo[m] = "commit"
  /\ memory' = memory \cup {m}
  /\ UnlockKey(MemoKey[m])
  /\ MemoStep(m, "retain")
  /\ UNCHANGED <<blob, account, jobs, docs, tasks, ownerLock, upload, import, purge,
                 cleaner, leaked, faults, deletes>>

RetainMemo(m) ==
  /\ memo[m] = "retain"
  /\ Retain(MemoKey[m])
  /\ MemoStep(m, "end")
  /\ UNCHANGED <<blob, account, jobs, docs, memory, ownerLock, keyLock, upload, import,
                 purge, cleaner, leaked, faults, deletes>>

-----------------------------------------------------------------------------
(* purge_source and retry_source_blob_purge                                *)

PurgeStep(u, pc) == purge' = [purge EXCEPT ![u] = pc]

\* Phase A: one commit, of rows only.
PurgeSource(u) ==
  /\ purge[u] = "none" /\ LiveDoc(u)
  /\ MayDelete
  /\ docs' = [docs EXCEPT
       ![u].deleted = TRUE,
       ![u].status = IF docs[u].status = "indexed" THEN "indexed" ELSE "cancelled",
       ![u].deletion = IF docs[u].key THEN "pending" ELSE "purged"]
  /\ jobs' = IF u \in Legacy /\ jobs[u].status \in {"pending", "running"}
             THEN [jobs EXCEPT ![u].status = "cancelled"] ELSE jobs
  /\ PurgeStep(u, IF docs[u].key THEN "lock" ELSE "end")
  /\ UNCHANGED <<blob, account, memory, tasks, ownerLock, keyLock, upload, import, memo,
                 cleaner, leaked, faults>>

\* Phase B: the row and the key are locked, the references looked up ...
PurgeCheck(u) ==
  /\ purge[u] = "lock"
  /\ \/ /\ docs[u].status # "none"
        /\ LockKey(FileKey[u], <<"purge", u>>)
        /\ PurgeStep(u, IF Referenced(FileKey[u]) THEN "keep" ELSE "delete")
     \/ /\ docs[u].status = "none"
        /\ PurgeStep(u, "end")
        /\ UNCHANGED keyLock
  /\ UNCHANGED <<blob, rows, ownerLock, upload, import, memo, cleaner, leaked, faults, deletes>>

\* ... and the blob deleted, in one commit with the status of the document.
PurgeBlob(u) ==
  /\ purge[u] \in {"keep", "delete"}
  /\ \/ purge[u] = "keep" /\ UNCHANGED <<blob, docs, faults>>
     \/ /\ purge[u] = "delete"
        /\ blob' = blob \ {FileKey[u]}
        /\ docs' = [docs EXCEPT ![u].deletion = "purged"]
        /\ UNCHANGED faults
     \/ /\ purge[u] = "delete" /\ MayFail
        /\ docs' = [docs EXCEPT ![u].deletion = "failed"]
        /\ UNCHANGED blob
  /\ UnlockKey(FileKey[u])
  /\ PurgeStep(u, "end")
  /\ UNCHANGED <<account, jobs, memory, tasks, ownerLock, upload, import, memo, cleaner,
                 leaked, deletes>>

KillPurge(u) ==
  /\ purge[u] \in {"lock", "keep", "delete"}
  /\ MayFail
  /\ UnlockAll(<<"purge", u>>)
  /\ PurgeStep(u, "end")
  /\ UNCHANGED <<blob, rows, ownerLock, upload, import, memo, cleaner, leaked, deletes>>

-----------------------------------------------------------------------------
(* erase_account_data and the deletion tasks                               *)

Mine(o) == {u \in Uploads : OwnerOf[u] = o}

\* Mutant: only the documents the owner can still see are inventoried.
EraseLiveOnly(o) ==
  /\ o \in account /\ ownerLock[o] = "free"
  /\ \A u \in Mine(o) : ~(jobs[u].status = "running" /\ jobs[u].lease)
  /\ \A u \in Mine(o) : purge[u] \notin {"keep", "delete"}
  /\ MayDelete
  /\ tasks' = [t \in TaskIds |->
                 IF t[1] = o /\ \E u \in Mine(o) : LiveDoc(u) /\ KeyOf(t) = FileKey[u]
                 THEN "pending" ELSE tasks[t]]
  /\ jobs' = [u \in Uploads |-> IF u \in Mine(o) THEN NoJob ELSE jobs[u]]
  /\ docs' = [u \in Uploads |-> IF u \in Mine(o) THEN NoDoc ELSE docs[u]]
  /\ account' = account \ {o}
  /\ UNCHANGED <<blob, memory, ownerLock, keyLock, clients, leaked, faults>>

\* One transaction under the owner's lock, refused while a worker has a job of
\* the owner under a live lease: a task for every key, then the rows.
Erase(o) ==
  /\ o \in account /\ ownerLock[o] = "free"
  /\ \A u \in Mine(o) : ~(jobs[u].status = "running" /\ jobs[u].lease)
  /\ \A u \in Mine(o) : purge[u] \notin {"keep", "delete"}
  /\ MayDelete
  /\ tasks' = [t \in TaskIds |-> IF t[1] = o /\ KeyOf(t) \in Inventory(o)
                                 THEN "pending" ELSE tasks[t]]
  /\ jobs' = [u \in Uploads |-> IF u \in Mine(o) THEN NoJob ELSE jobs[u]]
  /\ docs' = [u \in Uploads |-> IF u \in Mine(o) THEN NoDoc ELSE docs[u]]
  /\ account' = account \ {o}
  /\ UNCHANGED <<blob, memory, ownerLock, keyLock, clients, leaked, faults>>

Held(t) == \E c \in Cleaners : cleaner[c].pc # "idle" /\ cleaner[c].task = t

\* Mutant: a task whose claimer died stays claimed.
EligibleNotExpired(c, t) ==
  \/ tasks[t] = "pending" /\ (c \in Workers \/ t[1] = c)
  \/ tasks[t] = "failed" /\ c \in Workers

\* A worker retries what failed; the erasure request only tries its own tasks
\* once.  A task in processing is free again when its lease has run out.
Eligible(c, t) ==
  \/ tasks[t] = "pending" /\ (c \in Workers \/ t[1] = c)
  \/ tasks[t] = "failed" /\ c \in Workers
  \/ tasks[t] = "processing" /\ ~Held(t) /\ (c \in Workers \/ t[1] = c)

ClaimTask(c, t) ==
  /\ cleaner[c].pc = "idle"
  /\ Eligible(c, t)
  /\ tasks' = [tasks EXCEPT ![t] = "processing"]
  /\ cleaner' = [cleaner EXCEPT ![c] = [pc |-> "claimed", task |-> t, needed |-> FALSE]]
  /\ UNCHANGED <<blob, account, jobs, docs, memory, ownerLock, keyLock, upload, import,
                 purge, memo, leaked, faults, deletes>>

\* attempt_storage_deletion_task: the lock, the status again, the references ...
AttemptCheck(c) ==
  LET t == cleaner[c].task IN
  /\ cleaner[c].pc = "claimed"
  /\ \/ /\ tasks[t] \in Outstanding
        /\ LockKey(KeyOf(t), <<"task", c>>)
        /\ cleaner' = [cleaner EXCEPT ![c].pc = "locked",
                                      ![c].needed = Referenced(KeyOf(t))]
     \/ /\ tasks[t] \notin Outstanding
        /\ cleaner' = [cleaner EXCEPT ![c] = NoTask]
        /\ UNCHANGED keyLock
  /\ UNCHANGED <<blob, rows, ownerLock, upload, import, purge, memo, leaked, faults, deletes>>

\* ... and what they call for.
AttemptEnd(c) ==
  LET t == cleaner[c].task IN
  /\ cleaner[c].pc = "locked"
  /\ \/ /\ cleaner[c].needed
        /\ tasks' = [tasks EXCEPT ![t] = "retained_shared"]
        /\ UNCHANGED <<blob, faults>>
     \/ /\ ~cleaner[c].needed
        /\ blob' = blob \ {KeyOf(t)}
        /\ tasks' = [tasks EXCEPT ![t] = "purged"]
        /\ UNCHANGED faults
     \/ /\ ~cleaner[c].needed /\ MayFail
        /\ tasks' = [tasks EXCEPT ![t] = "failed"]
        /\ UNCHANGED blob
  /\ cleaner' = [cleaner EXCEPT ![c] = NoTask]
  /\ UnlockKey(KeyOf(t))
  /\ UNCHANGED <<account, jobs, docs, memory, ownerLock, upload, import, purge, memo,
                 leaked, deletes>>

KillCleaner(c) ==
  /\ cleaner[c].pc # "idle"
  /\ MayFail
  /\ cleaner' = [cleaner EXCEPT ![c] = NoTask]
  /\ UnlockAll(<<"task", c>>)
  /\ UNCHANGED <<blob, rows, ownerLock, upload, import, purge, memo, leaked, deletes>>

-----------------------------------------------------------------------------
Uploading(u) ==
  \/ WriteUpload(u) \/ CheckRejected(u) \/ DeleteRejected(u) \/ ReturnDuplicate(u)
  \/ LockUpload(u) \/ CommitUpload(u)

Importing(u) ==
  \/ CreateDoc(u) \/ StoreFile(u) \/ LockFile(u) \/ CommitFile(u) \/ RetainFile(u)
  \/ FinishJob(u)

Purging(u) == PurgeCheck(u) \/ PurgeBlob(u)

Remembering(m) == LockMemo(m) \/ CommitMemo(m) \/ RetainMemo(m)

Cleaning(c) == AttemptCheck(c) \/ AttemptEnd(c) \/ \E t \in TaskIds : ClaimTask(c, t)

Next ==
  \/ \E u \in Uploads :
       \/ Accept(u) \/ Uploading(u) \/ KillUpload(u)
       \/ ClaimJob(u) \/ Importing(u) \/ KillImport(u) \/ LapseImport(u)
       \/ PurgeSource(u) \/ Purging(u) \/ KillPurge(u)
  \/ \E m \in Memos : WriteMemo(m) \/ Remembering(m)
  \/ \E o \in Owners : Erase(o)
  \/ \E c \in Cleaners : Cleaning(c) \/ KillCleaner(c)

Spec == Init /\ [][Next]_vars

\* A request that has begun goes on unless it is killed, and the workers keep
\* polling.  Nobody has to upload, purge or erase anything.
Fairness ==
  /\ \A u \in Uploads : /\ WF_vars(Uploading(u)) /\ WF_vars(Importing(u))
                        /\ WF_vars(Purging(u))
  /\ \A m \in Memos : WF_vars(Remembering(m))
  /\ \A c \in Workers : WF_vars(Cleaning(c))
  /\ \A o \in Owners : WF_vars(AttemptCheck(o) \/ AttemptEnd(o))

FairSpec == Spec /\ Fairness

-----------------------------------------------------------------------------
Holders == {"upload", "import", "purge", "memo", "task"} \X
             (Uploads \cup Memos \cup Cleaners)

\* The rows of knowledge_import_jobs, documents and storage_deletion_tasks.
ImportJobRows == [status : JobStatuses, lease : BOOLEAN]
DocumentRows ==
  [status : {"none", "open", "indexed", "cancelled"}, key : BOOLEAN,
   deleted : BOOLEAN, deletion : {"none", "pending", "purged", "failed"}]
DeletionTaskRows == Outstanding \cup {"none", "purged", "retained_shared"}

TypeOK ==
  /\ blob \subseteq Keys /\ account \subseteq Owners /\ memory \subseteq Memos
  /\ leaked \subseteq Keys
  /\ jobs \in [Uploads -> ImportJobRows]
  /\ docs \in [Uploads -> DocumentRows]
  /\ tasks \in [TaskIds -> DeletionTaskRows]
  /\ ownerLock \in [Owners -> Uploads \cup {"free"}]
  /\ keyLock \in [Keys -> Holders \cup {<<>>}]
  /\ upload \in [Uploads -> {"none", "write", "written", "reject", "keep", "delete",
                             "locked", "end"}]
  /\ import \in [Uploads -> {"idle", "create", "store", "lock", "commit", "retain",
                             "finish"}]
  /\ purge \in [Uploads -> {"none", "lock", "keep", "delete", "end"}]
  /\ memo \in [Memos -> {"none", "lock", "commit", "retain", "end"}]
  /\ cleaner \in [Cleaners -> [pc : {"idle", "claimed", "locked"}, task : TaskIds,
                               needed : BOOLEAN]]
  /\ deletes \in Nat /\ faults \in Nat

\* No interleaving of uploads, imports, purges, erasures and retries deletes a
\* blob that some row still needs, whoever owns the row.
ReferencedBlobsExist == \A k \in Keys : Referenced(k) => k \in blob

\* An erased account leaves no job and no document, and no upload or worker
\* that was under way at the time brings one back.
ErasedStaysErased ==
  \A u \in Uploads : OwnerOf[u] \notin account =>
                       jobs[u].status = "none" /\ docs[u].status = "none"

\* Keys some actor has written and still has in hand.
InFlight ==
  {RawKey[u] : u \in {v \in Uploads :
     upload[v] \in {"written", "reject", "keep", "delete", "locked"}}}
    \cup {FileKey[u] : u \in {v \in Uploads : import[v] \in {"lock", "commit"}}}
    \cup {MemoKey[m] : m \in {n \in Memos : memo[n] \in {"lock", "commit"}}}

\* Bytes on disk are known to a row (which an erasure would inventory), to an
\* unfinished deletion task or to whoever just wrote them.  Only a kill, a
\* worker that outlived its lease and a cleanup task that could not be queued
\* leave bytes nobody knows of.
EveryBlobAccounted ==
  \A k \in blob : \/ k \in leaked \/ k \in InFlight
                  \/ \E o \in Owners : k \in Inventory(o)
                  \/ \E m \in memory : MemoKey[m] = k
                  \/ \E t \in TaskIds : KeyOf(t) = k /\ tasks[t] \in Outstanding

\* Again and again no deletion task is left to do, whatever was killed on the
\* way: every task is retried until its blob is gone or needed by another.
TasksSettle == []<>(\A t \in TaskIds : tasks[t] \notin Outstanding)

\* The states of the store: typed, nothing of an erased account left or come
\* back, and no bytes forgotten.
StorageInv == TypeOK /\ ErasedStaysErased /\ EveryBlobAccounted
=============================================================================
