--------------------------- MODULE MessageBackfill ---------------------------
(***************************************************************************)
(* The two message backfills of the durable job runtime, running while the *)
(* owner keeps chatting:                                                   *)
(*                                                                         *)
(*   message_sequence_backfill numbers the messages that predate           *)
(*   messages.sequence_number, one conversation per transaction;           *)
(*   message_source_backfill creates the missing source unit of every      *)
(*   message, one batch per transaction.                                   *)
(*                                                                         *)
(* A new message is numbered by the BEFORE INSERT trigger of migration     *)
(* 0030.  The trigger and the numbering transaction take the same advisory *)
(* lock, per conversation, and keep it until they commit.  The partial     *)
(* unique index on ordinals is left out on purpose: the properties say it  *)
(* is never needed.                                                        *)
(***************************************************************************)
EXTENDS MainAIJob, FiniteSetsExt, Sequences

CONSTANTS
  Jobs,           \* ids of the jobs in creation order
  JobType,        \* JobType[j]: "sequence" or "source"
  Conversations,  \* ids of the conversations in creation order
  History,        \* History[c]: messages older than migration 0030
  Writers,        \* chat requests inserting messages
  MaxInserts,     \* bound: messages inserted
  Procs,          \* worker processes
  WorkerId,       \* WorkerId[p]: locked_by identity
  RunCap,         \* MAX_CONVERSATIONS_PER_RUN and MAX_MESSAGES_PER_RUN
  BatchSize,      \* _BATCH_SIZE
  MaxRetries,     \* max_retries column
  MaxFaults,      \* bound: crashes, and lapses of a lease whose holder is alive
  MaxErrors       \* bound: unexpected errors raised by a handler

ASSUME BackfillConstants ==
  /\ Jobs \subseteq Nat /\ Jobs # {}
  /\ JobType \in [Jobs -> {"sequence", "source"}]
  /\ Conversations \subseteq Nat \ {0} /\ IsFiniteSet(Conversations)
  /\ History \in [Conversations -> Nat]
  /\ WorkerId \in [Procs -> STRING]
  /\ RunCap \in Nat \ {0} /\ BatchSize \in Nat \ {0}
  /\ MaxInserts \in Nat /\ MaxRetries \in Nat
  /\ MaxFaults \in Nat /\ MaxErrors \in Nat

VARIABLES
  jobs,      \* jobs[j]: the row of mainai_jobs
  messages,  \* messages[c]: the ordinals of c's messages: the history by
             \* (created_at, id), then the later ones in commit order
  sourced,   \* <<c, i>>: message i of c has a source unit
  open,      \* conversations not deleted
  lock,      \* lock[c]: who holds c's advisory lock
  insert,    \* insert[w]: an uncommitted insert and the ordinal it was given
  run,       \* run[p]: the local state of process p
  done,      \* history: work committed for j since it was last queued
  count      \* bounded counters: inserts, faults, errors

vars == <<jobs, messages, sourced, open, lock, insert, run, done, count>>

\* sequence_number IS NULL.
Unnumbered == 0

PCs == {"idle", "dispatch", "unavailable", "start", "loop", "candidate",
        "locked", "progress", "finish", "fail"}

Runs == [pc : PCs, job : Jobs, gen : Nat, total : Nat, processed : Nat,
         conflicted : SUBSET Conversations, conv : Conversations \cup {0}]

IdleRun == [pc |-> "idle", job |-> CHOOSE j \in Jobs : TRUE, gen |-> 0,
            total |-> 0, processed |-> 0, conflicted |-> {}, conv |-> 0]

IdleInsert == [conv |-> 0, number |-> 0]

-----------------------------------------------------------------------------
(* Ordinals                                                                *)

\* The trigger's GREATEST(COALESCE(max(sequence_number), 0), count(*)) + 1.
NextOrdinal(s) == Max({Len(s)} \cup {s[i] : i \in DOMAIN s}) + 1

UnnumberedIn(s) == {i \in DOMAIN s : s[i] = Unnumbered}

\* Mutant: the UPDATE forgets WHERE sequence_number IS NULL.
WithOrdinalsRenumbered(s) ==
  [i \in DOMAIN s |-> IF s[i] = Unnumbered THEN i ELSE s[i] + 1]

\* The numbers row_number() OVER (ORDER BY created_at, id) gives the NULLs.
WithOrdinals(s) ==
  [i \in DOMAIN s |->
     IF s[i] = Unnumbered
     THEN Cardinality({k \in UnnumberedIn(s) : k <= i}) ELSE s[i]]

\* min_assigned <= unnumbered: an ordinal inside the range to be assigned.
Conflicting(s) ==
  \E i \in DOMAIN s : s[i] # Unnumbered /\ s[i] <= Cardinality(UnnumberedIn(s))

\* Conversations with an unnumbered message.
Pending == {c \in Conversations : UnnumberedIn(messages[c]) # {}}

\* Messages without a source unit.
Unsourced ==
  UNION {{<<c, i>> : i \in DOMAIN messages[c]} : c \in open} \ sourced

-----------------------------------------------------------------------------
(* Local state and the fenced write                                        *)

Fenced(p) == Holds(jobs[run[p].job], WorkerId[p], run[p].gen)

Goto(p, pc) == run' = [run EXCEPT ![p].pc = pc]

Release(p) == lock' = [c \in Conversations |->
                         IF lock[c] = <<"proc", p>> THEN <<>> ELSE lock[c]]

Stop(p) == run' = [run EXCEPT ![p] = IdleRun]

\* One fenced statement and the commit that follows it: nothing is kept of
\* the transaction when the lease is lost or the database refuses it.
Write(p, new, Effect) ==
  LET j == run[p].job IN
  /\ Release(p)
  /\ \/ /\ ~Fenced(p)
        /\ Stop(p)
        /\ UNCHANGED <<jobs, messages, sourced, done>>
     \/ /\ Fenced(p) /\ ~Accepts(jobs[j], new)
        /\ Goto(p, "fail")
        /\ UNCHANGED <<jobs, messages, sourced, done>>
     \/ /\ Fenced(p) /\ Accepts(jobs[j], new)
        /\ jobs' = [jobs EXCEPT ![j] = new]
        /\ Effect
  /\ UNCHANGED <<open, insert>>

NoWork == UNCHANGED <<messages, sourced, done>>

-----------------------------------------------------------------------------
Init ==
  /\ jobs = [j \in Jobs |-> NewJobRow]
  /\ messages = [c \in Conversations |-> [i \in 1..History[c] |-> Unnumbered]]
  /\ sourced = {}
  /\ open = Conversations
  /\ lock = [c \in Conversations |-> <<>>]
  /\ insert = [w \in Writers |-> IdleInsert]
  /\ run = [p \in Procs |-> IdleRun]
  /\ done = [j \in Jobs |-> 0]
  /\ count = [inserts |-> 0, faults |-> 0, errors |-> 0]

-----------------------------------------------------------------------------
(* The worker, for both types                                              *)

Claim(p, j) ==
  /\ run[p].pc = "idle"
  /\ Claimable(jobs[j])
  /\ \A k \in Jobs : Claimable(jobs[k]) => j <= k
  /\ jobs' = [jobs EXCEPT ![j] = Claimed(jobs[j], WorkerId[p])]
  /\ run' = [run EXCEPT ![p] = [IdleRun EXCEPT !.pc = "dispatch", !.job = j,
                                               !.gen = jobs[j].gen + 1]]
  /\ UNCHANGED <<messages, sourced, open, lock, insert, done, count>>

Dispatch(p) ==
  /\ run[p].pc = "dispatch"
  /\ \/ /\ Write(p, jobs[run[p].job], Goto(p, "start") /\ NoWork)
        /\ UNCHANGED count
     \/ /\ count.errors < MaxErrors
        /\ Write(p, jobs[run[p].job], Goto(p, "unavailable") /\ NoWork)
        /\ count' = [count EXCEPT !.errors = @ + 1]

MarkUnavailable(p) ==
  /\ run[p].pc = "unavailable"
  /\ Write(p, Failed(jobs[run[p].job], "capability_unavailable"),
           Stop(p) /\ NoWork)
  /\ UNCHANGED count

\* The snapshot total, and progress 0 at the start of EVERY run.
Start(p) ==
  /\ run[p].pc = "start"
  /\ LET j == run[p].job
         total == IF JobType[j] = "sequence" THEN Cardinality(Pending)
                  ELSE Cardinality(Unsourced)
     IN  Write(p, Progressed(jobs[j], 0, total),
               /\ run' = [run EXCEPT ![p].pc = "loop", ![p].total = total]
               /\ NoWork)
  /\ UNCHANGED count

\* An exception no handler expects: rolled back, then mark_failed(unexpected).
Raise(p) ==
  /\ run[p].pc \in {"start", "loop", "candidate", "locked", "progress", "finish"}
  /\ count.errors < MaxErrors
  /\ count' = [count EXCEPT !.errors = @ + 1]
  /\ Goto(p, "fail")
  /\ Release(p)
  /\ UNCHANGED <<jobs, messages, sourced, open, insert, done>>

MarkFailed(p) ==
  /\ run[p].pc = "fail"
  /\ Write(p, Failed(jobs[run[p].job], "unexpected"), Stop(p) /\ NoWork)
  /\ UNCHANGED count

\* The end of both handlers; a job found no longer running is left alone.
Finish(p) ==
  /\ run[p].pc = "finish"
  /\ IF jobs[run[p].job].status = "running"
     THEN Write(p, Completed(jobs[run[p].job]), Stop(p) /\ NoWork)
     ELSE /\ Stop(p)
          /\ UNCHANGED <<jobs, messages, sourced, open, lock, insert, done>>
  /\ UNCHANGED count

\* The check for a cancel request at the top of both loops.
HonourCancel(p) ==
  /\ jobs[run[p].job].cancelRequested
  /\ Write(p, Cancelled(jobs[run[p].job]), Stop(p) /\ NoWork)

-----------------------------------------------------------------------------
(* message_sequence_backfill                                               *)

Sequencing(p, pc) == run[p].pc = pc /\ JobType[run[p].job] = "sequence"

SequenceCheckpoint(p) ==
  /\ Sequencing(p, "loop")
  /\ IF run[p].processed >= RunCap
     THEN /\ Goto(p, "finish")
          /\ UNCHANGED <<jobs, messages, sourced, open, lock, insert, done>>
     ELSE \/ HonourCancel(p)
          \/ /\ ~jobs[run[p].job].cancelRequested
             /\ Write(p, Renewed(jobs[run[p].job]),
                      Goto(p, "candidate") /\ NoWork)
  /\ UNCHANGED count

\* candidate_conversation_ids, and the advisory lock of the first candidate;
\* the snapshot total is raised when it turns out to be too small.
PickCandidate(p) ==
  /\ Sequencing(p, "candidate")
  /\ LET r == run[p]
         candidates == Pending \ r.conflicted
     IN  IF candidates = {}
         THEN Goto(p, "finish") /\ UNCHANGED lock
         ELSE LET c == Min(candidates) IN
              /\ lock[c] = <<>>
              /\ lock' = [lock EXCEPT ![c] = <<"proc", p>>]
              /\ run' = [run EXCEPT ![p].pc = "locked", ![p].conv = c,
                                    ![p].total = Max({@, r.processed + 1})]
  /\ UNCHANGED <<jobs, messages, sourced, open, insert, done, count>>

\* backfill_conversation: state read, numbering, on_outcome's fenced progress
\* and the commit, all under the advisory lock taken before.
NumberConversation(p) ==
  /\ Sequencing(p, "locked")
  /\ LET r == run[p]
         s == messages[r.conv]
     IN  Write(p, Progressed(jobs[r.job], r.processed + 1, r.total),
               /\ messages' = [messages EXCEPT
                                 ![r.conv] = IF Conflicting(s) THEN s
                                             ELSE WithOrdinals(s)]
               /\ done' = [done EXCEPT ![r.job] = @ + 1]
               /\ run' = [run EXCEPT
                            ![p].pc = "loop", ![p].processed = @ + 1,
                            ![p].conv = 0,
                            ![p].conflicted =
                               IF Conflicting(s) THEN @ \cup {r.conv} ELSE @]
               /\ UNCHANGED sourced)
  /\ UNCHANGED count

-----------------------------------------------------------------------------
(* message_source_backfill                                                 *)

Sourcing(p, pc) == run[p].pc = pc /\ JobType[run[p].job] = "source"

\* candidate_message_ids: a batch of messages without a source unit.
Batches(p) ==
  LET size == Min({BatchSize, RunCap - run[p].processed, Cardinality(Unsourced)})
  IN  {B \in SUBSET Unsourced : Cardinality(B) = size}

\* One turn of the loop: the lease renewal stays uncommitted, and keeps the
\* row locked, until the batch commits.
SourceBatch(p) ==
  /\ Sourcing(p, "loop")
  /\ IF run[p].processed >= Min({run[p].total, RunCap})
     THEN /\ Goto(p, "finish")
          /\ UNCHANGED <<jobs, messages, sourced, open, lock, insert, done>>
     ELSE \/ HonourCancel(p)
          \/ /\ ~jobs[run[p].job].cancelRequested
             /\ \E B \in Batches(p) :
                  Write(p, Renewed(jobs[run[p].job]),
                        /\ sourced' = sourced \cup B
                        /\ done' = [done EXCEPT
                                      ![run[p].job] = @ + Cardinality(B)]
                        /\ run' = [run EXCEPT
                             ![p].pc = IF B = {} THEN "finish" ELSE "progress",
                             ![p].processed = @ + Cardinality(B)]
                        /\ UNCHANGED messages)
  /\ UNCHANGED count

\* Mutant: the progress reported is that of the batch still to come.
SourceProgressAhead(p) ==
  /\ Sourcing(p, "progress")
  /\ LET r == run[p]
     IN  Write(p, Progressed(jobs[r.job], r.processed + 1, r.total + 1),
               Goto(p, "loop") /\ NoWork)
  /\ UNCHANGED count

\* The progress of the batch, in a transaction of its own.
SourceProgress(p) ==
  /\ Sourcing(p, "progress")
  /\ LET r == run[p]
     IN  Write(p, Progressed(jobs[r.job], Min({r.processed, r.total}),
                             Max({r.total, r.processed})),
               Goto(p, "loop") /\ NoWork)
  /\ UNCHANGED count

-----------------------------------------------------------------------------
(* The owner                                                               *)

\* Mutant: the trigger takes no advisory lock.
InsertMessageUnlocked(w, c) ==
  /\ insert[w] = IdleInsert
  /\ c \in open
  /\ count.inserts < MaxInserts
  /\ insert' = [insert EXCEPT ![w] = [conv |-> c,
                                      number |-> NextOrdinal(messages[c])]]
  /\ count' = [count EXCEPT !.inserts = @ + 1]
  /\ UNCHANGED <<jobs, messages, sourced, open, lock, run, done>>

\* INSERT INTO messages: the trigger locks the conversation and numbers the
\* row; the row is seen, and the lock released, when the request commits.
InsertMessage(w, c) ==
  /\ insert[w] = IdleInsert
  /\ c \in open
  /\ lock[c] = <<>>
  /\ count.inserts < MaxInserts
  /\ lock' = [lock EXCEPT ![c] = <<"writer", w>>]
  /\ insert' = [insert EXCEPT ![w] = [conv |-> c,
                                      number |-> NextOrdinal(messages[c])]]
  /\ count' = [count EXCEPT !.inserts = @ + 1]
  /\ UNCHANGED <<jobs, messages, sourced, open, run, done>>

\* The request commits, or fails and is rolled back.
EndInsert(w) ==
  /\ insert[w] # IdleInsert
  /\ LET c == insert[w].conv IN
     /\ \/ messages' = [messages EXCEPT ![c] = Append(@, insert[w].number)]
        \/ UNCHANGED messages
     /\ lock' = [d \in Conversations |->
                   IF lock[d] = <<"writer", w>> THEN <<>> ELSE lock[d]]
  /\ insert' = [insert EXCEPT ![w] = IdleInsert]
  /\ UNCHANGED <<jobs, sourced, open, run, done, count>>

\* delete_conversation: messages, then the conversation.  It waits for an
\* uncommitted insert (foreign key) but not for the advisory lock, and is
\* refused once a message has a source unit (message_source_units.message_id).
DeleteConversation(c) ==
  /\ c \in open
  /\ \A w \in Writers : insert[w].conv # c
  /\ \A x \in sourced : x[1] # c
  /\ open' = open \ {c}
  /\ messages' = [messages EXCEPT ![c] = <<>>]
  /\ UNCHANGED <<jobs, sourced, lock, insert, run, done, count>>

RequestCancel(j) ==
  /\ Cancellable(jobs[j]) /\ ~jobs[j].cancelRequested
  /\ jobs' = [jobs EXCEPT ![j] = CancelRequested(@)]
  /\ UNCHANGED <<messages, sourced, open, lock, insert, run, done, count>>

RetryJob(j) ==
  /\ Retryable(jobs[j], MaxRetries)
  /\ jobs' = [jobs EXCEPT ![j] = Retried(@, @)]
  /\ done' = [done EXCEPT ![j] = 0]
  /\ UNCHANGED <<messages, sourced, open, lock, insert, run, count>>

-----------------------------------------------------------------------------
(* Faults                                                                  *)

HeldByLiveProcess(j) ==
  \E p \in Procs : run[p].pc # "idle" /\ run[p].job = j
                   /\ Holds(jobs[j], WorkerId[p], run[p].gen)

\* A process dies; its transaction and its locks go with the connection.
Crash(p) ==
  /\ run[p].pc # "idle"
  /\ count.faults < MaxFaults
  /\ count' = [count EXCEPT !.faults = @ + 1]
  /\ Stop(p)
  /\ Release(p)
  /\ UNCHANGED <<jobs, messages, sourced, open, insert, done>>

LapseLease(j) ==
  /\ jobs[j].status = "running" /\ jobs[j].lease = "live"
  /\ \/ ~HeldByLiveProcess(j) /\ UNCHANGED count
     \/ /\ HeldByLiveProcess(j) /\ count.faults < MaxFaults
        /\ count' = [count EXCEPT !.faults = @ + 1]
  /\ jobs' = [jobs EXCEPT ![j].lease = "expired"]
  /\ UNCHANGED <<messages, sourced, open, lock, insert, run, done>>

-----------------------------------------------------------------------------
Work(p) ==
  \/ Dispatch(p) \/ MarkUnavailable(p) \/ Start(p) \/ MarkFailed(p) \/ Finish(p)
  \/ SequenceCheckpoint(p) \/ PickCandidate(p) \/ NumberConversation(p)
  \/ SourceBatch(p) \/ SourceProgress(p)

Next ==
  \/ \E p \in Procs : Work(p) \/ Raise(p) \/ Crash(p)
                      \/ \E j \in Jobs : Claim(p, j)
  \/ \E w \in Writers : EndInsert(w) \/ \E c \in Conversations : InsertMessage(w, c)
  \/ \E c \in Conversations : DeleteConversation(c)
  \/ \E j \in Jobs : RequestCancel(j) \/ RetryJob(j) \/ LapseLease(j)

Spec == Init /\ [][Next]_vars

\* Workers keep working, requests end, and time passes.
Fairness ==
  /\ \A p \in Procs : SF_vars(Work(p) \/ \E j \in Jobs : Claim(p, j))
  /\ \A w \in Writers : WF_vars(EndInsert(w))
  /\ \A j \in Jobs : WF_vars(LapseLease(j) /\ ~HeldByLiveProcess(j))

FairSpec == Spec /\ Fairness
-----------------------------------------------------------------------------
(* What the backfills promise                                              *)

\* Rows, ordinals, locks, uncommitted inserts and the local states of both
\* handlers are well formed.
TypeOK ==
  /\ jobs \in [Jobs -> JobRows({WorkerId[p] : p \in Procs})]
  /\ messages \in [Conversations -> Seq(Nat)]
  /\ sourced \subseteq Conversations \X Nat
  /\ open \subseteq Conversations
  /\ lock \in [Conversations -> {<<>>} \cup ({"proc"} \X Procs)
                                  \cup ({"writer"} \X Writers)]
  /\ insert \in [Writers -> [conv : Conversations \cup {0}, number : Nat]]
  /\ run \in [Procs -> Runs]
  /\ done \in [Jobs -> Nat]
  /\ count \in [inserts : Nat, faults : Nat, errors : Nat]

\* Ordinals are unique and follow the order of the conversation, the history
\* by (created_at, id) and then the later messages as they committed,
\* although new messages are numbered while old ones are not yet, and both
\* go on at once: the trigger's range always lies above the backfill's.
OrdinalsFollowCreation ==
  \A c \in Conversations : \A i, k \in DOMAIN messages[c] :
    /\ i < k /\ messages[c][i] # Unnumbered /\ messages[c][k] # Unnumbered
    => messages[c][i] < messages[c][k]

\* "An ordinal inside the range" is the state backfill_conversation guards
\* against and never meets.
NoConflict == \A c \in Conversations : ~Conflicting(messages[c])

\* An ordinal, once visible, is never changed or taken away, except with its
\* conversation.
OrdinalsAreImmutable ==
  [][\A c \in Conversations : c \in open' =>
       \A i \in DOMAIN messages[c] :
          messages[c][i] # Unnumbered => messages'[c][i] = messages[c][i]]_vars

\* "Progress is only ever durable together with the work it describes, never
\* ahead of it"; for the numbering it is never behind either.
ProgressIsWork ==
  \A j \in Jobs :
    /\ jobs[j].current <= done[j]
    /\ JobType[j] = "sequence" => jobs[j].current = done[j]

\* A completed numbering job that did not stop at its cap has left no
\* message of the owner unnumbered, and no later message will be.
CompletedMeansNumbered ==
  \A j \in Jobs :
    JobType[j] = "sequence" /\ jobs[j].status = "completed"
      /\ jobs[j].current < RunCap => Pending = {}

\* Every backfill job reaches a terminal state (its loop ends at the cap or
\* when nothing is pending), however crashes, lapses and errors fall.
JobsTerminate ==
  \A j \in Jobs : (jobs[j].status \in {"queued", "running"})
                    ~> (jobs[j].status \in TerminalStatuses)

\* The states of both backfills: typed, without the conflict the numbering
\* guards against, and with progress and completion that tell the truth.
BackfillInv == TypeOK /\ NoConflict /\ ProgressIsWork /\ CompletedMeansNumbered
=============================================================================
