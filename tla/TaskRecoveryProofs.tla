------------------------- MODULE TaskRecoveryProofs -------------------------
(***************************************************************************)
(* Proofs about TaskRecovery, for any number of attempts and faults: one   *)
(* live job, completed only with verified work on GitHub, no completion    *)
(* undone, no takeover of visible work without approval.  They are of      *)
(* takeovers that nothing disturbs between their two commits (~Disturb);   *)
(* with Disturb TLC shows OneLiveJob and two of the steps false.  That a   *)
(* governed goal is never taken over is proved without the condition.      *)
(*                                                                         *)
(* The invariant RecoveryRight says of every job where its runner, its     *)
(* tree, its checkpoints and its record can be: what a checkpoint or a     *)
(* record promises is recorded in the job's tree or on GitHub (RunnerAt,   *)
(* PushedAt, RecordAt), a tree is its maker's until that is superseded     *)
(* (TreeAt), and only the task's job, or its replacement, is active        *)
(* (ActiveAt, TakeoverRight).  Kinds of steps share a frame lemma:         *)
(* RunnerFrame, TreeFrame, ConcludeFrame, TaskFrame, CreateFrame,          *)
(* LookFrame; a salvage cannot fail (SalvageAlwaysHolds).                  *)
(***************************************************************************)
EXTENDS TaskRecovery, FiniteSetTheorems, WellFoundedInduction, TLAPS

\* Worktree rows: a directory carries its row's marker, what is recorded is
\* committed, and a tree leaves the job that made it only when that is superseded.
TreeAt(t) ==
  /\ tree[t].row = 0 => tree[t] = NoTree
  /\ tree[t].row # 0 =>
       /\ tree[t].marker = tree[t].row /\ tree[t].disk # "none"
       /\ tree[t].recorded => tree[t].disk = "committed"
       /\ job[tree[t].row].status # "none"
       /\ rx.pc = "salvage" => tree[t].row # rx.new
  /\ tree[t].row \in {0, t} \/ job[t].status = "superseded"

\* No two rows name a job.
RowsDiffer ==
  \A t, u \in Trees : tree[t].row # 0 /\ tree[t].row = tree[u].row => t = u

\* What a runner or a checkpoint says of the branch on GitHub and of the verified
\* tree is right.
PushedAt(j) ==
  /\ pc[j] \in {"pushed", "finish"} \/ "finalized" \in ckpt[j] => remote # 0
  /\ "work" \in ckpt[j] => work[j] # 0
  /\ work[j] # 0 => tree[work[j]].recorded
  /\ pc[j] \in {"verify", "verified", "push"} => work[j] # 0
  /\ pc[j] \in {"verified", "push"} => work[j] \in passed

RemoteRight == remote # 0 => remote \in passed /\ tree[remote].recorded

\* Where a runner is, given its tree and its checkpoints.
RunnerAt(j) ==
  /\ job[j].status \in {"none", "queued"} => pc[j] = "none"
  /\ job[j].status = "none" \/ (rx.pc = "salvage" /\ j = rx.new) => ckpt[j] = {}
  /\ "work" \in ckpt[j] => pc[j] \notin {"tree", "agent", "commit", "work"}
  /\ pc[j] = "work" /\ job[j].status = "running" =>
       \E t \in Trees : tree[t].row = j /\ tree[t].recorded
  /\ pc[j] = "agent" => \A t \in Trees : tree[t].row = j => ~tree[t].recorded
  /\ "work" \in ckpt[j] /\ job[j].status # "superseded" =>
       /\ \A t \in Trees : tree[t].row = j => tree[t].recorded
       /\ (\A t \in Trees : tree[t].row # j) => "finalized" \in ckpt[j]

\* What a recovery record says stays true.
RecordAt(j) ==
  /\ rec[j].hadWork =>
       /\ "work" \in ckpt[j]
       /\ rec[j].class \in {"pushed", "conflicted", "local_committed"}
       /\ rec[j].sha # 0 => rec[j].class # "local_committed"
  /\ rec[j].class = "pushed" => remote # 0 /\ rec[j].sha = remote
  /\ rec[j].class \in {"local_committed", "local_uncommitted"}
       /\ job[j].status # "superseded" => \E t \in Trees : tree[t].row = j

\* The task's own job is the one that may be active, also while it is replaced.
ActiveAt(j) ==
  /\ job[j].status \in {"queued", "running"} =>
       /\ j = task.job \/ (rx.pc = "salvage" /\ j = rx.new)
       /\ task.status = "running"
  /\ pc[j] = "incapable" =>
       j = task.job /\ task.status = "running" /\ job[j].status = "failed"

\* A takeover is of the task's dead job, which stays dead.
TakeoverRight ==
  /\ rx.pc # "idle" =>
       /\ rx.dead = task.job /\ rx.dead # 0 /\ task.status = "running"
       /\ Supersedable(rx.dead) /\ MayTakeOver(rx.dead)
       /\ pc[rx.dead] # "incapable"
  /\ rx.pc = "salvage" =>
       rx.new # 0 /\ rx.new # rx.dead /\ job[rx.new].status = "queued"

CompletedRight ==
  task.status = "completed" =>
    task.job # 0 /\ ~job[task.job].cancel /\ remote # 0

\* The types, without the count of the attempts.
RowsTyped ==
  /\ task.status \in {"ready", "running", "retryable", "failed", "completed",
                      "cancelled"}
  /\ task.job \in Jobs \cup {0}
  /\ task = [status |-> task.status, attempts |-> task.attempts,
             job |-> task.job]
  /\ job \in [Jobs -> JobRows]
  /\ pc \in [Jobs -> {"none", "start", "incapable", "tree", "agent", "commit",
                      "work", "verify", "verified", "unverified", "push",
                      "pushed", "finish", "error", "cancel", "end", "dead"}]
  /\ ckpt \in [Jobs -> CheckpointRows]
  /\ work \in [Jobs -> Trees \cup {0}]
  /\ tree \in [Trees -> WorktreeRows]
  /\ remote \in Trees \cup {0}
  /\ passed \subseteq Trees
  /\ rec \in [Jobs -> RecoveryRows]
  /\ rx \in [pc : {"idle", "locked", "salvage"}, dead : Jobs \cup {0},
             new : Jobs \cup {0}]
  /\ governed \in BOOLEAN /\ adv \in BOOLEAN
  /\ faults \in 0..MaxFaults

AttemptsRight == task.attempts = Cardinality(Jobs \ Fresh)

RecoveryRight ==
  /\ RowsTyped /\ AttemptsRight
  /\ RowsDiffer /\ RemoteRight /\ TakeoverRight /\ CompletedRight
  /\ \A t \in Trees : TreeAt(t)
  /\ \A j \in Jobs : PushedAt(j) /\ RunnerAt(j) /\ RecordAt(j) /\ ActiveAt(j)

-----------------------------------------------------------------------------
(* Constants and operators                                                 *)

LEMMA JobsAreNumbers ==
  /\ Jobs \subseteq Nat /\ 0 \notin Jobs /\ IsFiniteSet(Jobs) /\ Trees = Jobs
<1>1. MaxAttempts + MaxFaults \in Nat
  BY MaxAttemptsAssumption, MaxFaultsAssumption
<1> QED
  BY <1>1, FS_Interval DEF Jobs, Trees

\* TreeOf finds the one row that names a job.
LEMMA TreeOfRow ==
  ASSUME RowsDiffer, NEW j \in Jobs
  PROVE  /\ TreeOf(j) \in Trees \cup {0}
         /\ TreeOf(j) = 0 => \A t \in Trees : tree[t].row # j
         /\ TreeOf(j) # 0 => tree[TreeOf(j)].row = j
         /\ \A t \in Trees : tree[t].row = j => TreeOf(j) = t
<1>1. j # 0 /\ 0 \notin Trees
  BY JobsAreNumbers
<1>2. CASE \E t \in Trees : tree[t].row = j
  <2>1. TreeOf(j) = CHOOSE t \in Trees : tree[t].row = j
    BY <1>2 DEF TreeOf
  <2>2. TreeOf(j) \in Trees /\ tree[TreeOf(j)].row = j
    BY <1>2, <2>1
  <2> QED
    BY <1>1, <2>2 DEF RowsDiffer
<1>3. CASE ~\E t \in Trees : tree[t].row = j
  BY <1>3 DEF TreeOf
<1> QED
  BY <1>2, <1>3

\* There is a first job that has not been created.
LEMMA NewJobFresh ==
  ASSUME Fresh # {}
  PROVE  NewJob \in Fresh
<1> DEFINE R == {s \in Nat \X Nat : s[1] < s[2]}
<1>1. IsWellFoundedOn(R, Nat)
  BY NatLessThanWellFounded DEF OpToRel
<1>2. Fresh \subseteq Nat
  BY JobsAreNumbers DEF Fresh
<1>3. PICK x \in Fresh : \A y \in Fresh : <<y, x>> \notin R
  BY <1>1, <1>2, WFMin
<1>4. ASSUME NEW y \in Fresh
      PROVE  x <= y
  <2>1. <<y, x>> \notin R /\ x \in Nat /\ y \in Nat
    BY <1>2, <1>3
  <2>2. ~(y < x)
    BY <2>1
  <2> QED
    BY <2>1, <2>2
<1> QED
  BY <1>3, <1>4 DEF NewJob

\* A job created counts.
LEMMA OneMoreJob ==
  ASSUME NEW n \in Fresh, Fresh' = Fresh \ {n}
  PROVE  Cardinality(Jobs \ Fresh') = Cardinality(Jobs \ Fresh) + 1
<1>1. IsFiniteSet(Jobs \ Fresh)
  BY JobsAreNumbers, FS_Difference
<1>2. Jobs \ Fresh' = (Jobs \ Fresh) \cup {n} /\ n \notin Jobs \ Fresh
  BY DEF Fresh
<1> QED
  BY <1>1, <1>2, FS_AddElement

-----------------------------------------------------------------------------
(* Frames                                                                  *)

\* A job never comes back from superseded, nor is one uncreated.
StatusesGo ==
  \A j \in Jobs :
    /\ job[j].status # "none" => job'[j].status # "none"
    /\ job[j].status = "superseded" <=> job'[j].status = "superseded"

LEMMA FreshKept ==
  ASSUME \A j \in Jobs : job[j].status = "none" <=> job'[j].status = "none",
         AttemptsRight, task'.attempts = task.attempts
  PROVE  AttemptsRight'
<1>1. Fresh' = Fresh
  BY DEF Fresh
<1> QED
  BY <1>1 DEF AttemptsRight

LEMMA TreesFrame ==
  ASSUME RowsTyped, RowsDiffer, \A t \in Trees : TreeAt(t),
         tree' = tree, StatusesGo, rx'.pc = "salvage" => rx' = rx
  PROVE  RowsDiffer' /\ \A t \in Trees : TreeAt(t)'
<1>1. RowsDiffer'
  BY DEF RowsDiffer
<1>2. ASSUME NEW t \in Trees
      PROVE  TreeAt(t)'
  <2>1. TreeAt(t)
    OBVIOUS
  <2>2. tree[t].row # 0 => tree[t].row \in Jobs
    BY DEF RowsTyped, WorktreeRows
  <2>3. t \in Jobs
    BY JobsAreNumbers
  <2> QED
    BY <2>1, <2>2, <2>3 DEF TreeAt, StatusesGo
<1> QED
  BY <1>1, <1>2

LEMMA RecordFrame ==
  ASSUME NEW j \in Jobs, RecordAt(j), tree' = tree, StatusesGo,
         rec'[j] = rec[j], ckpt[j] \subseteq ckpt'[j],
         remote # 0 => remote' = remote
  PROVE  RecordAt(j)'
BY DEF RecordAt, StatusesGo

\* A step of the runner of job j that leaves task, trees and records alone.
RunnerMoves(j) ==
  /\ task' = task /\ tree' = tree /\ rec' = rec /\ rx' = rx /\ rx.pc = "idle"
  /\ remote # 0 => remote' = remote
  /\ passed \subseteq passed'
  /\ \A k \in Jobs \ {j} : /\ job'[k] = job[k] /\ pc'[k] = pc[k]
                           /\ ckpt'[k] = ckpt[k] /\ work'[k] = work[k]
  /\ job'[j].cancel = job[j].cancel
  /\ ckpt[j] \subseteq ckpt'[j]
  /\ \/ job'[j].status = job[j].status
     \/ job[j].status = "running" /\ job'[j].status = "failed"
     \/ job[j].status = "queued" /\ job'[j].status = "running"

LEMMA RunnerFrame ==
  ASSUME RecoveryRight, NEW j \in Jobs, RunnerMoves(j),
         RowsTyped', RemoteRight', PushedAt(j)', RunnerAt(j)',
         pc'[j] = "incapable" =>
           /\ j = task.job /\ task.status = "running"
           /\ job'[j].status = "failed"
  PROVE  RecoveryRight'
<1>1. /\ RowsTyped /\ AttemptsRight /\ RowsDiffer
      /\ \A t \in Trees : TreeAt(t)
      /\ \A k \in Jobs : PushedAt(k) /\ RunnerAt(k) /\ RecordAt(k) /\ ActiveAt(k)
  BY DEF RecoveryRight
<1>2. StatusesGo
  BY DEF StatusesGo, RunnerMoves
<1>3. \A k \in Jobs : job[k].status = "none" <=> job'[k].status = "none"
  BY DEF RunnerMoves
<1>4. AttemptsRight'
  BY <1>1, <1>3, FreshKept DEF RunnerMoves
<1>5. RowsDiffer' /\ \A t \in Trees : TreeAt(t)'
  BY <1>1, <1>2, TreesFrame DEF RunnerMoves
<1>6. TakeoverRight'
  BY DEF TakeoverRight, RunnerMoves
<1>7. CompletedRight'
  <2>1. \A k \in Jobs : job'[k].cancel = job[k].cancel
    BY DEF RunnerMoves
  <2> QED
    BY <1>1, <2>1 DEF RecoveryRight, CompletedRight, RunnerMoves, RowsTyped
<1>8. ASSUME NEW k \in Jobs
      PROVE  PushedAt(k)' /\ RunnerAt(k)' /\ RecordAt(k)' /\ ActiveAt(k)'
  <2>1. RecordAt(k)'
    <3>1. ckpt[k] \subseteq ckpt'[k] /\ rec'[k] = rec[k]
      BY DEF RunnerMoves
    <3> QED
      BY <1>1, <1>2, <3>1, RecordFrame DEF RunnerMoves
  <2>2. ActiveAt(k)'
    BY <1>1 DEF ActiveAt, RunnerMoves
  <2>3. CASE k = j
    BY <2>1, <2>2, <2>3
  <2>4. CASE k # j
    <3>1. /\ job'[k] = job[k] /\ pc'[k] = pc[k] /\ ckpt'[k] = ckpt[k]
          /\ work'[k] = work[k] /\ tree' = tree /\ rx' = rx
          /\ remote # 0 => remote' # 0
          /\ passed \subseteq passed'
      BY <2>4 DEF RunnerMoves
    <3>2. PushedAt(k)'
      BY <1>1, <3>1 DEF PushedAt
    <3>3. RunnerAt(k)'
      BY <1>1, <3>1 DEF RunnerAt
    <3> QED
      BY <2>1, <2>2, <3>2, <3>3
  <2> QED
    BY <2>3, <2>4
<1> QED
  BY <1>4, <1>5, <1>6, <1>7, <1>8 DEF RecoveryRight

-----------------------------------------------------------------------------
(* The steps of a runner on its own rows                                   *)

LEMMA ClaimRight ==
  ASSUME RecoveryRight, rx.pc = "idle", NEW j \in Jobs, Claim(j)
  PROVE  RecoveryRight'
<1>1. RowsTyped /\ PushedAt(j) /\ RunnerAt(j) /\ RemoteRight /\ ActiveAt(j)
  BY DEF RecoveryRight
<1>2. /\ job[j].status = "queued"
      /\ job'[j].status = "running"
      /\ pc'[j] = "start"
      /\ ckpt' = ckpt
      /\ work' = work
      /\ tree' = tree
      /\ remote' = remote
      /\ passed' = passed
      /\ rx' = rx
  BY <1>1 DEF Claim, RowsTyped, gitVars, recVars, Holds, Renewed
<1>3. RowsTyped'
  <2>1. /\ job[j] \in JobRows /\ job' = [k \in Jobs |-> job'[k]]
        /\ \A k \in Jobs \ {j} : job'[k] = job[k] /\ job[k] \in JobRows
        /\ job'[j] = [job[j] EXCEPT !.status = "running", !.lease = "live"]
    BY <1>1 DEF Claim, RowsTyped
  <2>2. job'[j] \in JobRows
    BY <2>1 DEF JobRows
  <2>3. job' \in [Jobs -> JobRows]
    BY <2>1, <2>2
  <2> QED
    BY <1>1, <2>3 DEF Claim, RowsTyped, gitVars, recVars
<1>4. RunnerMoves(j)
  BY <1>1, <1>2 DEF Claim, RowsTyped, RunnerMoves, gitVars, recVars, Holds, Renewed
<1>5. RemoteRight'
  BY <1>1 DEF Claim, RemoteRight, gitVars
<1>6. PushedAt(j)'
  BY <1>1, <1>2 DEF PushedAt
<1>7. RunnerAt(j)'
  BY <1>1, <1>2 DEF RunnerAt
<1> QED
  BY <1>1, <1>2, <1>3, <1>4, <1>5, <1>6, <1>7, RunnerFrame DEF ActiveAt

LEMMA CapabilityLostRight ==
  ASSUME RecoveryRight, rx.pc = "idle", NEW j \in Jobs, CapabilityLost(j)
  PROVE  RecoveryRight'
<1>1. RowsTyped /\ PushedAt(j) /\ RunnerAt(j) /\ RemoteRight /\ ActiveAt(j)
  BY DEF RecoveryRight
<1>2. /\ job[j].status = "running"
      /\ pc[j] = "start"
      /\ job'[j].status = "failed"
      /\ pc'[j] = "incapable"
      /\ ckpt' = ckpt
      /\ work' = work
      /\ tree' = tree
      /\ remote' = remote
      /\ passed' = passed
      /\ rx' = rx
  BY <1>1 DEF CapabilityLost, RowsTyped, gitVars, recVars, Holds, Renewed
<1>3. RowsTyped'
  BY <1>1 DEF CapabilityLost, RowsTyped, JobRows, CheckpointRows, gitVars, recVars,
       Holds, Renewed
<1>4. RunnerMoves(j)
  BY <1>1, <1>2 DEF CapabilityLost, RowsTyped, RunnerMoves, gitVars, recVars, Holds, Renewed
<1>5. RemoteRight'
  BY <1>1 DEF CapabilityLost, RemoteRight, gitVars
<1>6. PushedAt(j)'
  BY <1>1, <1>2 DEF PushedAt
<1>7. RunnerAt(j)'
  BY <1>1, <1>2 DEF RunnerAt
<1> QED
  BY <1>1, <1>2, <1>3, <1>4, <1>5, <1>6, <1>7, RunnerFrame DEF ActiveAt

LEMMA LoseLeaseRight ==
  ASSUME RecoveryRight, rx.pc = "idle", NEW j \in Jobs, LoseLease(j)
  PROVE  RecoveryRight'
<1>1. RowsTyped /\ PushedAt(j) /\ RunnerAt(j) /\ RemoteRight /\ ActiveAt(j)
  BY DEF RecoveryRight
<1>2. /\ pc'[j] = "end" /\ pc[j] # "none"
      /\ job' = job
      /\ ckpt' = ckpt
      /\ work' = work
      /\ tree' = tree
      /\ remote' = remote
      /\ passed' = passed
      /\ rx' = rx
  BY <1>1 DEF LoseLease, RowsTyped, gitVars, recVars, Holds, Renewed
<1>3. RowsTyped'
  BY <1>1 DEF LoseLease, RowsTyped, JobRows, CheckpointRows, gitVars, recVars,
       Holds, Renewed
<1>4. RunnerMoves(j)
  BY <1>1, <1>2 DEF LoseLease, RowsTyped, RunnerMoves, gitVars, recVars, Holds, Renewed
<1>5. RemoteRight'
  BY <1>1 DEF LoseLease, RemoteRight, gitVars
<1>6. PushedAt(j)'
  BY <1>1, <1>2 DEF PushedAt
<1>7. RunnerAt(j)'
  BY <1>1, <1>2 DEF RunnerAt
<1> QED
  BY <1>1, <1>2, <1>3, <1>4, <1>5, <1>6, <1>7, RunnerFrame DEF ActiveAt

LEMMA StartRight ==
  ASSUME RecoveryRight, rx.pc = "idle", NEW j \in Jobs, Start(j)
  PROVE  RecoveryRight'
<1>1. RowsTyped /\ PushedAt(j) /\ RunnerAt(j) /\ RemoteRight /\ ActiveAt(j)
  BY DEF RecoveryRight
<1>2. /\ pc[j] = "start" /\ job[j].status = "running"
      /\ job'[j].status = job[j].status
      /\ pc'[j] = IF "work" \in ckpt[j] THEN "verify"
                   ELSE IF job[j].cancel THEN "cancel" ELSE "tree"
      /\ ckpt' = ckpt
      /\ work' = work
      /\ tree' = tree
      /\ remote' = remote
      /\ passed' = passed
      /\ rx' = rx
  BY <1>1 DEF Start, RowsTyped, gitVars, recVars, Holds, Renewed
<1>3. RowsTyped'
  BY <1>1 DEF Start, RowsTyped, JobRows, CheckpointRows, gitVars, recVars,
       Holds, Renewed
<1>4. RunnerMoves(j)
  BY <1>1, <1>2 DEF Start, RowsTyped, RunnerMoves, gitVars, recVars, Holds, Renewed
<1>5. RemoteRight'
  BY <1>1 DEF Start, RemoteRight, gitVars
<1>6. PushedAt(j)'
  BY <1>1, <1>2 DEF PushedAt
<1>7. RunnerAt(j)'
  BY <1>1, <1>2 DEF RunnerAt
<1> QED
  BY <1>1, <1>2, <1>3, <1>4, <1>5, <1>6, <1>7, RunnerFrame DEF ActiveAt

LEMMA BeforePushRight ==
  ASSUME RecoveryRight, rx.pc = "idle", NEW j \in Jobs, BeforePush(j)
  PROVE  RecoveryRight'
<1>1. RowsTyped /\ PushedAt(j) /\ RunnerAt(j) /\ RemoteRight /\ ActiveAt(j)
  BY DEF RecoveryRight
<1>2. /\ pc[j] = "verified" /\ job[j].status = "running"
      /\ job'[j].status = job[j].status
      /\ \/ pc'[j] = "cancel" \/ pc'[j] = "push"
         \/ pc'[j] = "finish" /\ "finalized" \in ckpt[j]
      /\ ckpt' = ckpt
      /\ work' = work
      /\ tree' = tree
      /\ remote' = remote
      /\ passed' = passed
      /\ rx' = rx
  BY <1>1 DEF BeforePush, RowsTyped, gitVars, recVars, Holds, Renewed
<1>3. RowsTyped'
  BY <1>1 DEF BeforePush, RowsTyped, JobRows, CheckpointRows, gitVars, recVars,
       Holds, Renewed
<1>4. RunnerMoves(j)
  BY <1>1, <1>2 DEF BeforePush, RowsTyped, RunnerMoves, gitVars, recVars, Holds, Renewed
<1>5. RemoteRight'
  BY <1>1 DEF BeforePush, RemoteRight, gitVars
<1>6. PushedAt(j)'
  BY <1>1, <1>2 DEF PushedAt
<1>7. RunnerAt(j)'
  BY <1>1, <1>2 DEF RunnerAt
<1> QED
  BY <1>1, <1>2, <1>3, <1>4, <1>5, <1>6, <1>7, RunnerFrame DEF ActiveAt

LEMMA CheckpointPushRight ==
  ASSUME RecoveryRight, rx.pc = "idle", NEW j \in Jobs, CheckpointPush(j)
  PROVE  RecoveryRight'
<1>1. RowsTyped /\ PushedAt(j) /\ RunnerAt(j) /\ RemoteRight /\ ActiveAt(j)
  BY DEF RecoveryRight
<1>2. /\ pc[j] = "pushed" /\ job[j].status = "running"
      /\ job'[j].status = job[j].status
      /\ pc'[j] = "finish"
      /\ ckpt'[j] = ckpt[j] \cup {"finalized"}
      /\ work' = work
      /\ tree' = tree
      /\ remote' = remote
      /\ passed' = passed
      /\ rx' = rx
  BY <1>1 DEF CheckpointPush, RowsTyped, gitVars, recVars, Holds, Renewed
<1>3. RowsTyped'
  BY <1>1 DEF CheckpointPush, RowsTyped, JobRows, CheckpointRows, gitVars, recVars,
       Holds, Renewed
<1>4. RunnerMoves(j)
  BY <1>1, <1>2 DEF CheckpointPush, RowsTyped, RunnerMoves, gitVars, recVars, Holds, Renewed
<1>5. RemoteRight'
  BY <1>1 DEF CheckpointPush, RemoteRight, gitVars
<1>6. PushedAt(j)'
  BY <1>1, <1>2 DEF PushedAt
<1>7. RunnerAt(j)'
  BY <1>1, <1>2 DEF RunnerAt
<1> QED
  BY <1>1, <1>2, <1>3, <1>4, <1>5, <1>6, <1>7, RunnerFrame DEF ActiveAt

LEMMA CrashRight ==
  ASSUME RecoveryRight, rx.pc = "idle", NEW j \in Jobs, Crash(j)
  PROVE  RecoveryRight'
<1>1. RowsTyped /\ PushedAt(j) /\ RunnerAt(j) /\ RemoteRight /\ ActiveAt(j)
  BY DEF RecoveryRight
<1>2. /\ job[j].status = "running" /\ pc[j] # "none"
      /\ job'[j].status = "failed"
      /\ pc'[j] = "end"
      /\ ckpt' = ckpt
      /\ work' = work
      /\ tree' = tree
      /\ remote' = remote
      /\ passed' = passed
      /\ rx' = rx
  BY <1>1 DEF Crash, RowsTyped, gitVars, recVars, Holds, Renewed
<1>3. RowsTyped'
  <2>1. job' \in [Jobs -> JobRows]
    BY <1>1 DEF Crash, RowsTyped, JobRows
  <2>2. pc' \in [Jobs -> {"none", "start", "incapable", "tree", "agent",
                         "commit", "work", "verify", "verified", "unverified",
                         "push", "pushed", "finish", "error", "cancel", "end",
                         "dead"}]
    BY <1>1 DEF Crash, RowsTyped
  <2>3. faults' \in 0..MaxFaults
    BY <1>1, MaxFaultsAssumption DEF Crash, RowsTyped
  <2> QED
    BY <1>1, <2>1, <2>2, <2>3 DEF Crash, RowsTyped, gitVars, recVars
<1>4. RunnerMoves(j)
  BY <1>1, <1>2 DEF Crash, RowsTyped, RunnerMoves, gitVars, recVars, Holds, Renewed
<1>5. RemoteRight'
  BY <1>1 DEF Crash, RemoteRight, gitVars
<1>6. PushedAt(j)'
  BY <1>1, <1>2 DEF PushedAt
<1>7. RunnerAt(j)'
  BY <1>1, <1>2 DEF RunnerAt
<1> QED
  BY <1>1, <1>2, <1>3, <1>4, <1>5, <1>6, <1>7, RunnerFrame DEF ActiveAt

LEMMA KillRight ==
  ASSUME RecoveryRight, rx.pc = "idle", NEW j \in Jobs, Kill(j)
  PROVE  RecoveryRight'
<1>1. RowsTyped /\ PushedAt(j) /\ RunnerAt(j) /\ RemoteRight /\ ActiveAt(j)
  BY DEF RecoveryRight
<1>2. /\ pc[j] # "none" /\ pc'[j] = "dead"
      /\ job' = job
      /\ ckpt' = ckpt
      /\ work' = work
      /\ tree' = tree
      /\ remote' = remote
      /\ passed' = passed
      /\ rx' = rx
  BY <1>1 DEF Kill, RowsTyped, gitVars, recVars, Holds, Renewed
<1>3. RowsTyped'
  BY <1>1, MaxFaultsAssumption DEF Kill, RowsTyped, JobRows, CheckpointRows, gitVars, recVars,
       Holds, Renewed
<1>4. RunnerMoves(j)
  BY <1>1, <1>2 DEF Kill, RowsTyped, RunnerMoves, gitVars, recVars, Holds, Renewed
<1>5. RemoteRight'
  BY <1>1 DEF Kill, RemoteRight, gitVars
<1>6. PushedAt(j)'
  BY <1>1, <1>2 DEF PushedAt
<1>7. RunnerAt(j)'
  BY <1>1, <1>2 DEF RunnerAt
<1> QED
  BY <1>1, <1>2, <1>3, <1>4, <1>5, <1>6, <1>7, RunnerFrame DEF ActiveAt

LEMMA LapseRight ==
  ASSUME RecoveryRight, rx.pc = "idle", NEW j \in Jobs, Lapse(j)
  PROVE  RecoveryRight'
<1>1. RowsTyped /\ PushedAt(j) /\ RunnerAt(j) /\ RemoteRight /\ ActiveAt(j)
  BY DEF RecoveryRight
<1>2. /\ job[j].status = "running"
      /\ job'[j].status = job[j].status
      /\ pc' = pc
      /\ ckpt' = ckpt
      /\ work' = work
      /\ tree' = tree
      /\ remote' = remote
      /\ passed' = passed
      /\ rx' = rx
  BY <1>1 DEF Lapse, RowsTyped, gitVars, recVars, Holds, Renewed
<1>3. RowsTyped'
  BY <1>1, MaxFaultsAssumption DEF Lapse, RowsTyped, JobRows, CheckpointRows, gitVars, recVars,
       Holds, Renewed
<1>4. RunnerMoves(j)
  BY <1>1, <1>2 DEF Lapse, RowsTyped, RunnerMoves, gitVars, recVars, Holds, Renewed
<1>5. RemoteRight'
  BY <1>1 DEF Lapse, RemoteRight, gitVars
<1>6. PushedAt(j)'
  BY <1>1, <1>2 DEF PushedAt
<1>7. RunnerAt(j)'
  BY <1>1, <1>2 DEF RunnerAt
<1> QED
  BY <1>1, <1>2, <1>3, <1>4, <1>5, <1>6, <1>7, RunnerFrame DEF ActiveAt

LEMMA ExpireRight ==
  ASSUME RecoveryRight, rx.pc = "idle", NEW j \in Jobs, Expire(j)
  PROVE  RecoveryRight'
<1>1. RowsTyped /\ PushedAt(j) /\ RunnerAt(j) /\ RemoteRight /\ ActiveAt(j)
  BY DEF RecoveryRight
<1>2. /\ job[j].status = "running"
      /\ job'[j].status = job[j].status
      /\ pc' = pc
      /\ ckpt' = ckpt
      /\ work' = work
      /\ tree' = tree
      /\ remote' = remote
      /\ passed' = passed
      /\ rx' = rx
  BY <1>1 DEF Expire, RowsTyped, gitVars, recVars, Holds, Renewed
<1>3. RowsTyped'
  BY <1>1 DEF Expire, RowsTyped, JobRows, CheckpointRows, gitVars, recVars,
       Holds, Renewed
<1>4. RunnerMoves(j)
  BY <1>1, <1>2 DEF Expire, RowsTyped, RunnerMoves, gitVars, recVars, Holds, Renewed
<1>5. RemoteRight'
  BY <1>1 DEF Expire, RemoteRight, gitVars
<1>6. PushedAt(j)'
  BY <1>1, <1>2 DEF PushedAt
<1>7. RunnerAt(j)'
  BY <1>1, <1>2 DEF RunnerAt
<1> QED
  BY <1>1, <1>2, <1>3, <1>4, <1>5, <1>6, <1>7, RunnerFrame DEF ActiveAt

LEMMA CheckpointWorkRight ==
  ASSUME RecoveryRight, rx.pc = "idle", NEW j \in Jobs, CheckpointWork(j)
  PROVE  RecoveryRight'
<1>1. RowsTyped /\ PushedAt(j) /\ RunnerAt(j) /\ RemoteRight /\ RowsDiffer
  BY DEF RecoveryRight
<1>2. PICK t \in Trees : tree[t].row = j /\ tree[t].recorded
  BY <1>1 DEF RunnerAt, CheckpointWork, Holds
<1>3. TreeOf(j) = t /\ t # 0
  BY <1>1, <1>2, TreeOfRow, JobsAreNumbers
<1>4. /\ pc[j] = "work" /\ job[j].status = "running"
      /\ job'[j].status = job[j].status /\ pc'[j] = "verify"
      /\ ckpt'[j] = ckpt[j] \cup {"work"} /\ work'[j] = t
      /\ tree' = tree /\ remote' = remote /\ passed' = passed /\ rx' = rx
  BY <1>1, <1>3 DEF CheckpointWork, RowsTyped, gitVars, recVars, Holds, Renewed
<1>5. RowsTyped'
  <2>1. job' \in [Jobs -> JobRows]
    BY <1>1 DEF CheckpointWork, RowsTyped, JobRows, Renewed
  <2>2. ckpt' \in [Jobs -> CheckpointRows] /\ work' \in [Jobs -> Trees \cup {0}]
    BY <1>1, <1>3 DEF CheckpointWork, RowsTyped, CheckpointRows
  <2> QED
    BY <1>1, <2>1, <2>2 DEF CheckpointWork, RowsTyped, gitVars, recVars
<1>6. RunnerMoves(j)
  BY <1>1, <1>4 DEF CheckpointWork, RowsTyped, RunnerMoves, gitVars, recVars,
       Holds, Renewed
<1>7. RemoteRight'
  BY <1>1, <1>4 DEF RemoteRight
<1>8. PushedAt(j)'
  BY <1>1, <1>2, <1>3, <1>4 DEF PushedAt
<1>9. RunnerAt(j)'
  <2>1. \A u \in Trees : tree[u].row = j => u = t
    BY <1>1, <1>2, JobsAreNumbers DEF RowsDiffer
  <2> QED
    BY <1>1, <1>2, <1>4, <2>1 DEF RunnerAt
<1> QED
  BY <1>4, <1>5, <1>6, <1>7, <1>8, <1>9, RunnerFrame

LEMMA VerifyRight ==
  ASSUME RecoveryRight, rx.pc = "idle", NEW j \in Jobs, Verify(j)
  PROVE  RecoveryRight'
<1>1. RowsTyped /\ PushedAt(j) /\ RunnerAt(j) /\ RemoteRight
  BY DEF RecoveryRight
<1>2. /\ pc[j] = "verify"
      /\ job'[j].status = job[j].status
      /\ \/ pc'[j] \in {"cancel", "unverified"} /\ ckpt' = ckpt /\ passed' = passed
         \/ /\ pc'[j] = "verified" /\ passed' = passed \cup {work[j]}
            /\ ckpt'[j] = ckpt[j] \cup {"verification"}
      /\ work' = work /\ tree' = tree /\ remote' = remote /\ rx' = rx
  <2>1. /\ pc[j] = "verify" /\ work' = work /\ tree' = tree /\ remote' = remote
        /\ rx' = rx
    BY DEF Verify, recVars
  <2>2. CASE /\ job' = Renewed(j)
             /\ ckpt' = [ckpt EXCEPT ![j] = @ \cup {"verification"}]
             /\ passed' = passed \cup {work[j]}
             /\ pc' = [pc EXCEPT ![j] = "verified"]
    <3>1. job'[j].status = job[j].status /\ pc'[j] = "verified"
            /\ ckpt'[j] = ckpt[j] \cup {"verification"}
      BY <1>1, <2>2 DEF RowsTyped, Renewed
    <3> QED
      BY <2>1, <2>2, <3>1
  <2>3. CASE /\ job' = job /\ ckpt' = ckpt /\ passed' = passed
             /\ \/ pc' = [pc EXCEPT ![j] = "cancel"]
                \/ pc' = [pc EXCEPT ![j] = "unverified"]
    BY <1>1, <2>1, <2>3 DEF RowsTyped
  <2> QED
    BY <2>2, <2>3 DEF Verify
<1>3. work[j] \in Trees
  BY <1>1, <1>2 DEF PushedAt, RowsTyped
<1>4. RowsTyped'
  <2>1. job' \in [Jobs -> JobRows]
    BY <1>1 DEF Verify, RowsTyped, JobRows, Renewed
  <2>2. ckpt' \in [Jobs -> CheckpointRows]
    BY <1>1 DEF Verify, RowsTyped, CheckpointRows
  <2>3. passed' \subseteq Trees
    BY <1>1, <1>2, <1>3 DEF RowsTyped
  <2>4. pc' \in [Jobs -> {"none", "start", "incapable", "tree", "agent",
                         "commit", "work", "verify", "verified", "unverified",
                         "push", "pushed", "finish", "error", "cancel", "end",
                         "dead"}]
    BY <1>1 DEF Verify, RowsTyped
  <2> QED
    BY <1>1, <2>1, <2>2, <2>3, <2>4 DEF Verify, RowsTyped, recVars
<1>5. RunnerMoves(j)
  <2>1. /\ task' = task /\ rec' = rec
        /\ \A k \in Jobs \ {j} : pc'[k] = pc[k] /\ ckpt'[k] = ckpt[k]
        /\ ckpt[j] \subseteq ckpt'[j] /\ passed \subseteq passed'
    BY <1>1 DEF Verify, RowsTyped, recVars
  <2>2. /\ \A k \in Jobs \ {j} : job'[k] = job[k]
        /\ job'[j].cancel = job[j].cancel
    <3>1. CASE job' = job
      BY <3>1
    <3>2. CASE job' = Renewed(j)
      BY <1>1, <3>2 DEF RowsTyped, JobRows, Renewed
    <3> QED
      BY <3>1, <3>2 DEF Verify
  <2> QED
    BY <1>2, <2>1, <2>2 DEF RunnerMoves
<1>6. RemoteRight'
  BY <1>1, <1>2 DEF RemoteRight
<1>7. PushedAt(j)'
  BY <1>1, <1>2 DEF PushedAt
<1>8. RunnerAt(j)'
  BY <1>1, <1>2 DEF RunnerAt
<1> QED
  BY <1>2, <1>4, <1>5, <1>6, <1>7, <1>8, RunnerFrame

\* What is pushed was verified; a branch that is there is not replaced.
LEMMA PushRight ==
  ASSUME RecoveryRight, rx.pc = "idle", NEW j \in Jobs, Push(j)
  PROVE  RecoveryRight'
<1>1. RowsTyped /\ PushedAt(j) /\ RunnerAt(j) /\ RemoteRight
  BY DEF RecoveryRight
<1>2. /\ pc[j] = "push"
      /\ \/ remote' = work[j] /\ remote \in {0, work[j]} /\ pc'[j] = "pushed"
         \/ remote' = remote /\ pc'[j] = "error"
      /\ job' = job /\ ckpt' = ckpt
      /\ work' = work /\ tree' = tree /\ passed' = passed /\ rx' = rx
  BY <1>1 DEF Push, RowsTyped, recVars
<1>3. work[j] \in passed /\ work[j] # 0 /\ tree[work[j]].recorded
        /\ work[j] \in Trees
  BY <1>1, <1>2 DEF PushedAt, RowsTyped
<1>4. RowsTyped'
  BY <1>1, <1>2, <1>3 DEF Push, RowsTyped, recVars
<1>5. RunnerMoves(j)
  BY <1>1, <1>2 DEF Push, RowsTyped, RunnerMoves, recVars
<1>6. RemoteRight'
  BY <1>1, <1>2, <1>3 DEF RemoteRight
<1>7. PushedAt(j)'
  BY <1>1, <1>2, <1>3 DEF PushedAt
<1>8. RunnerAt(j)'
  BY <1>1, <1>2 DEF RunnerAt
<1> QED
  BY <1>2, <1>4, <1>5, <1>6, <1>7, <1>8, RunnerFrame

-----------------------------------------------------------------------------
(* The steps of a runner on its tree                                       *)

TreeMoves(j, t) ==
  /\ task' = task /\ rec' = rec /\ rx' = rx /\ rx.pc = "idle"
  /\ remote' = remote /\ passed' = passed /\ ckpt' = ckpt /\ work' = work
  /\ \A u \in Trees \ {t} : tree'[u] = tree[u]
  /\ tree'[t].row = j /\ tree'[t].marker = j /\ tree'[t].disk # "none"
  /\ tree'[t].recorded => tree'[t].disk = "committed"
  /\ tree[t].recorded => tree'[t].recorded
  /\ \/ tree[t].row = j
     \/ t = j /\ tree[t].row = 0 /\ \A u \in Trees : tree[u].row # j
  /\ \A k \in Jobs \ {j} : job'[k] = job[k] /\ pc'[k] = pc[k]
  /\ job'[j].cancel = job[j].cancel /\ job'[j].status = job[j].status
  /\ job[j].status # "none" /\ pc'[j] # "incapable"

LEMMA TreeFrame ==
  ASSUME RecoveryRight, NEW j \in Jobs, NEW t \in Trees, TreeMoves(j, t),
         RowsTyped', PushedAt(j)', RunnerAt(j)'
  PROVE  RecoveryRight'
<1>1. /\ RowsTyped /\ AttemptsRight /\ RowsDiffer /\ RemoteRight
      /\ \A u \in Trees : TreeAt(u)
      /\ \A k \in Jobs : PushedAt(k) /\ RunnerAt(k) /\ RecordAt(k) /\ ActiveAt(k)
  BY DEF RecoveryRight
<1>2. \A k \in Jobs : /\ job'[k].status = job[k].status
                      /\ job'[k].cancel = job[k].cancel
  BY DEF TreeMoves
<1>3. AttemptsRight'
  BY <1>1, <1>2, FreshKept DEF TreeMoves
<1>4. \A u \in Trees : /\ tree[u].row # 0 => tree'[u].row = tree[u].row
                       /\ tree[u].recorded => tree'[u].recorded
                       /\ tree'[u].row = tree[u].row \/ (u = t /\ t = j)
  BY DEF TreeMoves
<1>5. RowsDiffer'
  BY <1>1 DEF TreeMoves, RowsDiffer
<1>6. ASSUME NEW u \in Trees
      PROVE  TreeAt(u)'
  <2>1. TreeAt(u) /\ u \in Jobs
    BY <1>1, JobsAreNumbers
  <2>2. CASE u = t
    <3>1. j # 0
      BY JobsAreNumbers
    <3> QED
      BY <1>2, <2>1, <2>2, <3>1 DEF TreeMoves, TreeAt
  <2>3. CASE u # t
    <3>1. tree'[u] = tree[u] /\ rx' = rx
      BY <2>3 DEF TreeMoves
    <3>2. tree[u].row # 0 => tree[u].row \in Jobs
      BY <1>1 DEF RowsTyped, WorktreeRows
    <3> QED
      BY <1>2, <2>1, <3>1, <3>2 DEF TreeAt
  <2> QED
    BY <2>2, <2>3
<1>7. RemoteRight'
  BY <1>1, <1>4 DEF TreeMoves, RemoteRight, RowsTyped
<1>8. TakeoverRight'
  BY DEF TreeMoves, TakeoverRight
<1>9. CompletedRight'
  BY <1>1, <1>2 DEF RecoveryRight, TreeMoves, CompletedRight, RowsTyped
<1>10. ASSUME NEW k \in Jobs
       PROVE  PushedAt(k)' /\ RunnerAt(k)' /\ RecordAt(k)' /\ ActiveAt(k)'
  <2>1. RecordAt(k)'
    <3>1. rec'[k] = rec[k] /\ ckpt'[k] = ckpt[k] /\ remote' = remote
      BY DEF TreeMoves
    <3>2. RecordAt(k) /\ k # 0
      BY <1>1, JobsAreNumbers
    <3> QED
      BY <1>2, <1>4, <3>1, <3>2 DEF RecordAt
  <2>2. ActiveAt(k)'
    BY <1>1, <1>2 DEF TreeMoves, ActiveAt
  <2>3. ASSUME k # j
        PROVE  PushedAt(k)' /\ RunnerAt(k)'
    <3>1. /\ job'[k] = job[k] /\ pc'[k] = pc[k] /\ ckpt' = ckpt /\ work' = work
          /\ remote' = remote /\ passed' = passed /\ rx' = rx
      BY <2>3 DEF TreeMoves
    <3>2. PushedAt(k)'
      <4>1. work[k] # 0 => work[k] \in Trees
        BY <1>1 DEF RowsTyped
      <4> QED
        BY <1>1, <1>4, <3>1, <4>1 DEF PushedAt
    <3>3. \A u \in Trees : /\ tree'[u].row = k <=> tree[u].row = k
                           /\ tree[u].row = k => tree'[u] = tree[u]
      <4>1. k # 0
        BY JobsAreNumbers
      <4> QED
        BY <2>3, <4>1 DEF TreeMoves
    <3>4. RunnerAt(k)'
      BY <1>1, <3>1, <3>3 DEF RunnerAt
    <3> QED
      BY <3>2, <3>4
  <2> QED
    BY <2>1, <2>2, <2>3
<1> QED
  BY <1>3, <1>5, <1>6, <1>7, <1>8, <1>9, <1>10 DEF RecoveryRight

\* A row that names a job is owned.
LEMMA OwnedTree ==
  ASSUME RowsTyped, NEW t \in Trees, TreeAt(t), tree[t].row # 0
  PROVE  Owned(t)
BY JobsAreNumbers DEF Owned, TreeAt

LEMMA AskAgentRight ==
  ASSUME RecoveryRight, rx.pc = "idle", NEW j \in Jobs, AskAgent(j)
  PROVE  RecoveryRight'
<1>1. /\ RowsTyped /\ PushedAt(j) /\ RunnerAt(j) /\ RemoteRight /\ RowsDiffer
      /\ ActiveAt(j)
  BY DEF RecoveryRight
<1>2. /\ pc[j] = "agent" /\ job' = job /\ ckpt' = ckpt /\ work' = work
      /\ remote' = remote /\ passed' = passed /\ rx' = rx /\ task' = task
      /\ rec' = rec
  BY DEF AskAgent, recVars
<1>3. CASE tree' = tree /\ pc' = [pc EXCEPT ![j] = "error"]
  <2>1. RowsTyped'
    BY <1>1, <1>2, <1>3 DEF AskAgent, RowsTyped, recVars
  <2>2. pc'[j] = "error"
    BY <1>1, <1>3 DEF RowsTyped
  <2>3. RunnerMoves(j)
    BY <1>1, <1>2, <1>3 DEF RowsTyped, RunnerMoves
  <2>4. RemoteRight' /\ PushedAt(j)' /\ RunnerAt(j)'
    BY <1>1, <1>2, <1>3, <2>2 DEF RemoteRight, PushedAt, RunnerAt
  <2> QED
    BY <2>1, <2>2, <2>3, <2>4, RunnerFrame
<1>4. CASE /\ TreeOf(j) # 0
           /\ tree' = [tree EXCEPT ![TreeOf(j)].disk = "edited"]
           /\ pc' = [pc EXCEPT ![j] = "commit"]
  <2>1. PICK t \in Trees : t = TreeOf(j) /\ tree[t].row = j
    BY <1>1, <1>4, TreeOfRow
  <2>2. ~tree[t].recorded /\ TreeAt(t) /\ j # 0
    BY <1>1, <1>2, <2>1, JobsAreNumbers DEF RunnerAt, RecoveryRight
  <2>3. tree' = [tree EXCEPT ![t].disk = "edited"]
    BY <1>4, <2>1
  <2>4. RowsTyped'
    <3>1. tree' \in [Trees -> WorktreeRows]
      BY <1>1, <2>3 DEF RowsTyped, WorktreeRows
    <3> QED
      BY <1>1, <1>2, <1>4, <3>1 DEF AskAgent, RowsTyped, recVars
  <2>5. /\ pc'[j] = "commit"
        /\ \A u \in Trees \ {t} : tree'[u] = tree[u]
        /\ tree'[t].row = j /\ tree'[t].marker = tree[t].marker
        /\ tree'[t].disk = "edited" /\ tree'[t].recorded = tree[t].recorded
    BY <1>1, <1>4, <2>1, <2>3 DEF RowsTyped, WorktreeRows
  <2>6. TreeMoves(j, t)
    BY <1>1, <1>2, <1>4, <2>1, <2>2, <2>5 DEF TreeMoves, TreeAt, RunnerAt, RowsTyped
  <2>7. PushedAt(j)'
    BY <1>1, <1>2, <2>2, <2>5 DEF PushedAt, RowsTyped
  <2>8. RunnerAt(j)'
    <3>1. \A u \in Trees : tree'[u].row = tree[u].row
            /\ tree'[u].recorded = tree[u].recorded
      BY <2>1, <2>5
    <3> QED
      BY <1>1, <1>2, <2>5, <3>1 DEF RunnerAt
  <2> QED
    BY <2>4, <2>6, <2>7, <2>8, TreeFrame
<1> QED
  BY <1>3, <1>4 DEF AskAgent

LEMMA CommitEditRight ==
  ASSUME RecoveryRight, rx.pc = "idle", NEW j \in Jobs, CommitEdit(j)
  PROVE  RecoveryRight'
<1>1. /\ RowsTyped /\ PushedAt(j) /\ RunnerAt(j) /\ RemoteRight /\ RowsDiffer
      /\ ActiveAt(j)
  BY DEF RecoveryRight
<1>2. /\ pc[j] = "commit" /\ job[j].status = "running" /\ job' = Renewed(j)
      /\ ckpt' = ckpt /\ work' = work
      /\ remote' = remote /\ passed' = passed /\ rx' = rx /\ task' = task
      /\ rec' = rec
  BY DEF CommitEdit, recVars, Holds
<1>3. /\ job' \in [Jobs -> JobRows]
      /\ \A k \in Jobs \ {j} : job'[k] = job[k]
      /\ job'[j].cancel = job[j].cancel /\ job'[j].status = job[j].status
  BY <1>1, <1>2 DEF RowsTyped, JobRows, Renewed
<1>4. CASE tree' = tree /\ pc' = [pc EXCEPT ![j] = "error"]
  <2>1. RowsTyped'
    BY <1>1, <1>2, <1>3, <1>4 DEF CommitEdit, RowsTyped, recVars
  <2>2. pc'[j] = "error"
    BY <1>1, <1>4 DEF RowsTyped
  <2>3. RunnerMoves(j)
    BY <1>1, <1>2, <1>3, <1>4 DEF RowsTyped, RunnerMoves
  <2>4. RemoteRight' /\ PushedAt(j)' /\ RunnerAt(j)'
    BY <1>1, <1>2, <1>3, <1>4, <2>2 DEF RemoteRight, PushedAt, RunnerAt
  <2> QED
    BY <2>1, <2>2, <2>3, <2>4, RunnerFrame
<1>5. CASE /\ Owned(TreeOf(j))
           /\ tree' = [tree EXCEPT ![TreeOf(j)].disk = "committed",
                                   ![TreeOf(j)].recorded = TRUE]
           /\ pc' = [pc EXCEPT ![j] = "work"]
  <2>1. PICK t \in Trees : t = TreeOf(j) /\ tree[t].row = j
    BY <1>1, <1>5, TreeOfRow DEF Owned
  <2>2. TreeAt(t) /\ j # 0
    BY <2>1, JobsAreNumbers DEF RecoveryRight
  <2>3. tree' = [tree EXCEPT ![t].disk = "committed", ![t].recorded = TRUE]
    BY <1>5, <2>1
  <2>4. /\ pc'[j] = "work" /\ tree' = [u \in Trees |-> tree'[u]]
        /\ \A u \in Trees \ {t} : tree'[u] = tree[u]
        /\ tree'[t] = [tree[t] EXCEPT !.disk = "committed", !.recorded = TRUE]
    BY <1>1, <1>5, <2>3 DEF RowsTyped
  <2>5. /\ tree'[t] \in WorktreeRows
        /\ tree'[t].row = j /\ tree'[t].marker = tree[t].marker
        /\ tree'[t].disk = "committed" /\ tree'[t].recorded
    <3>1. tree[t] \in WorktreeRows
      BY <1>1 DEF RowsTyped
    <3> QED
      BY <2>1, <2>4, <3>1 DEF WorktreeRows
  <2>6. RowsTyped'
    <3>1. tree' \in [Trees -> WorktreeRows]
      BY <1>1, <2>4, <2>5 DEF RowsTyped
    <3> QED
      BY <1>1, <1>2, <1>3, <1>5, <3>1 DEF CommitEdit, RowsTyped, recVars
  <2>7. TreeMoves(j, t)
    BY <1>1, <1>2, <1>3, <1>5, <2>1, <2>2, <2>4, <2>5
    DEF TreeMoves, TreeAt, RowsTyped
  <2>8. PushedAt(j)'
    <3>1. \A u \in Trees : tree[u].recorded => tree'[u].recorded
      BY <2>4, <2>5
    <3> QED
      BY <1>1, <1>2, <2>4, <3>1 DEF PushedAt, RowsTyped
  <2>9. RunnerAt(j)'
    BY <1>1, <1>2, <1>3, <2>4, <2>5 DEF RunnerAt
  <2> QED
    BY <2>6, <2>7, <2>8, <2>9, TreeFrame
<1> QED
  BY <1>4, <1>5 DEF CommitEdit

LEMMA KilledInCommitRight ==
  ASSUME RecoveryRight, rx.pc = "idle", NEW j \in Jobs, KilledInCommit(j)
  PROVE  RecoveryRight'
<1>1. /\ RowsTyped /\ PushedAt(j) /\ RunnerAt(j) /\ RowsDiffer
  BY DEF RecoveryRight
<1>2. /\ pc[j] = "commit" /\ job[j].status = "running" /\ job' = job
      /\ ckpt' = ckpt /\ work' = work
      /\ remote' = remote /\ passed' = passed /\ rx' = rx /\ task' = task
      /\ rec' = rec /\ TreeOf(j) # 0 /\ pc' = [pc EXCEPT ![j] = "dead"]
      /\ tree' = [tree EXCEPT ![TreeOf(j)].disk = "committed"]
  BY DEF KilledInCommit, recVars, Holds
<1>3. PICK t \in Trees : t = TreeOf(j) /\ tree[t].row = j
  BY <1>1, <1>2, TreeOfRow
<1>4. TreeAt(t) /\ j # 0
  BY <1>3, JobsAreNumbers DEF RecoveryRight
<1>5. tree' = [tree EXCEPT ![t].disk = "committed"]
  BY <1>2, <1>3
<1>6. RowsTyped'
  <2>1. tree' \in [Trees -> WorktreeRows]
    BY <1>1, <1>5 DEF RowsTyped, WorktreeRows
  <2>2. faults' \in 0..MaxFaults
    BY <1>1, MaxFaultsAssumption DEF KilledInCommit, RowsTyped
  <2> QED
    BY <1>1, <1>2, <2>1, <2>2 DEF KilledInCommit, RowsTyped, recVars
<1>7. /\ pc'[j] = "dead"
      /\ \A u \in Trees \ {t} : tree'[u] = tree[u]
      /\ tree'[t].row = j /\ tree'[t].marker = tree[t].marker
      /\ tree'[t].disk = "committed" /\ tree'[t].recorded = tree[t].recorded
  BY <1>1, <1>2, <1>3, <1>5 DEF RowsTyped, WorktreeRows
<1>8. TreeMoves(j, t)
  BY <1>1, <1>2, <1>3, <1>4, <1>7 DEF TreeMoves, TreeAt, RowsTyped
<1>9. \A u \in Trees : /\ tree'[u].row = tree[u].row
                       /\ tree'[u].recorded = tree[u].recorded
  BY <1>3, <1>7
<1>10. PushedAt(j)'
  BY <1>1, <1>2, <1>7, <1>9 DEF PushedAt, RowsTyped
<1>11. RunnerAt(j)'
  BY <1>1, <1>2, <1>7, <1>9 DEF RunnerAt
<1> QED
  BY <1>6, <1>8, <1>10, <1>11, TreeFrame

\* A directory an earlier attempt left is taken up as it is, or its edit is
\* committed; without one the job makes its own.
LEMMA PrepareTreeRight ==
  ASSUME RecoveryRight, rx.pc = "idle", NEW j \in Jobs, PrepareTree(j)
  PROVE  RecoveryRight'
<1>1. /\ RowsTyped /\ PushedAt(j) /\ RunnerAt(j) /\ RemoteRight /\ RowsDiffer
      /\ ActiveAt(j)
  BY DEF RecoveryRight
<1>2. /\ pc[j] = "tree" /\ job[j].status = "running" /\ job' = Renewed(j)
      /\ ckpt' = ckpt /\ work' = work
      /\ remote' = remote /\ passed' = passed /\ rx' = rx /\ task' = task
      /\ rec' = rec
  BY DEF PrepareTree, recVars, Holds
<1>3. /\ job' \in [Jobs -> JobRows]
      /\ \A k \in Jobs \ {j} : job'[k] = job[k]
      /\ job'[j].cancel = job[j].cancel /\ job'[j].status = job[j].status
  BY <1>1, <1>2 DEF RowsTyped, JobRows, Renewed
<1>4. j # 0 /\ 0 \notin Jobs /\ j \in Trees
  BY JobsAreNumbers
<1>5. ASSUME NEW t \in Trees, tree' \in [Trees -> WorktreeRows],
             pc' \in [Jobs -> {"none", "start", "incapable", "tree", "agent",
                               "commit", "work", "verify", "verified",
                               "unverified", "push", "pushed", "finish",
                               "error", "cancel", "end", "dead"}],
             \A k \in Jobs \ {j} : pc'[k] = pc[k],
             pc'[j] = IF tree'[t].recorded THEN "work" ELSE "agent",
             \A u \in Trees \ {t} : tree'[u] = tree[u],
             tree'[t].row = j, tree'[t].marker = j, tree'[t].disk # "none",
             tree'[t].recorded => tree'[t].disk = "committed",
             tree[t].recorded => tree'[t].recorded,
             \/ tree[t].row = j
             \/ t = j /\ tree[t].row = 0 /\ \A u \in Trees : tree[u].row # j
      PROVE  RecoveryRight'
  <2>1. RowsTyped'
    BY <1>1, <1>2, <1>3, <1>5 DEF PrepareTree, RowsTyped, recVars
  <2>2. TreeMoves(j, t)
    BY <1>1, <1>2, <1>3, <1>5 DEF TreeMoves, RowsTyped
  <2>3. \A u \in Trees : tree[u].recorded => tree'[u].recorded
    BY <1>5
  <2>4. PushedAt(j)'
    BY <1>1, <1>2, <1>5, <2>3 DEF PushedAt, RowsTyped
  <2>5. \A u \in Trees : tree'[u].row = j => u = t
    BY <1>1, <1>4, <1>5 DEF RowsDiffer
  <2>6. RunnerAt(j)'
    BY <1>1, <1>2, <1>3, <1>5, <2>5 DEF RunnerAt
  <2> QED
    BY <2>1, <2>2, <2>4, <2>6, TreeFrame
<1>6. CASE TreeOf(j) = 0
  <2>1. /\ tree' = [tree EXCEPT ![j] =
                      [row |-> j, marker |-> j, disk |-> "clean",
                       recorded |-> FALSE]]
        /\ pc' = [pc EXCEPT ![j] = "agent"]
    BY <1>6 DEF PrepareTree
  <2>2. \A u \in Trees : tree[u].row # j
    BY <1>1, <1>6, TreeOfRow
  <2>3. TreeAt(j)
    BY <1>4 DEF RecoveryRight
  <2>4. tree[j].row = 0 /\ tree[j] = NoTree
    BY <1>2, <1>4, <2>2, <2>3 DEF TreeAt
  <2>5. /\ tree' \in [Trees -> WorktreeRows]
        /\ \A u \in Trees \ {j} : tree'[u] = tree[u]
        /\ tree'[j] = [row |-> j, marker |-> j, disk |-> "clean",
                       recorded |-> FALSE]
    BY <1>1, <1>4, <2>1 DEF RowsTyped, WorktreeRows
  <2>6. ~tree[j].recorded
    BY <2>4 DEF NoTree
  <2>7. /\ pc' \in [Jobs -> {"none", "start", "incapable", "tree", "agent",
                            "commit", "work", "verify", "verified",
                            "unverified", "push", "pushed", "finish",
                            "error", "cancel", "end", "dead"}]
        /\ \A k \in Jobs \ {j} : pc'[k] = pc[k]
        /\ pc'[j] = "agent"
    BY <1>1, <2>1 DEF RowsTyped
  <2> QED
    BY <1>4, <1>5, <2>2, <2>4, <2>5, <2>6, <2>7
<1>7. CASE TreeOf(j) # 0
  <2>1. PICK t \in Trees : t = TreeOf(j) /\ tree[t].row = j
    BY <1>1, <1>7, TreeOfRow
  <2>2. TreeAt(t)
    BY <2>1 DEF RecoveryRight
  <2>3. Owned(t)
    BY <1>1, <1>4, <2>1, <2>2, OwnedTree
  <2>4. /\ tree' = [tree EXCEPT ![t] =
                      IF Owned(t) /\ tree[t].disk = "edited"
                      THEN [tree[t] EXCEPT !.disk = "committed",
                                           !.recorded = TRUE]
                      ELSE tree[t]]
        /\ pc' = [pc EXCEPT ![j] =
                    IF ~Owned(t) THEN "error"
                    ELSE IF tree'[t].recorded THEN "work" ELSE "agent"]
    BY <1>7, <2>1 DEF PrepareTree
  <2>5. /\ tree' = [u \in Trees |-> tree'[u]]
        /\ \A u \in Trees \ {t} : tree'[u] = tree[u]
        /\ \/ tree'[t] = [tree[t] EXCEPT !.disk = "committed",
                                         !.recorded = TRUE]
           \/ tree'[t] = tree[t]
    BY <1>1, <2>4 DEF RowsTyped
  <2>6. tree[t] \in WorktreeRows
    BY <1>1 DEF RowsTyped
  <2>7. /\ tree'[t] \in WorktreeRows
        /\ tree'[t].row = j /\ tree'[t].marker = tree[t].marker
        /\ \/ tree'[t].disk = "committed" /\ tree'[t].recorded
           \/ tree'[t] = tree[t]
    BY <2>1, <2>5, <2>6 DEF WorktreeRows
  <2>8. tree' \in [Trees -> WorktreeRows]
    BY <1>1, <2>5, <2>7 DEF RowsTyped
  <2>9. /\ pc' \in [Jobs -> {"none", "start", "incapable", "tree", "agent",
                            "commit", "work", "verify", "verified",
                            "unverified", "push", "pushed", "finish",
                            "error", "cancel", "end", "dead"}]
        /\ \A k \in Jobs \ {j} : pc'[k] = pc[k]
        /\ pc'[j] = IF tree'[t].recorded THEN "work" ELSE "agent"
    BY <1>1, <2>3, <2>4 DEF RowsTyped
  <2>10. /\ tree'[t].marker = j /\ tree'[t].disk # "none"
         /\ tree'[t].recorded => tree'[t].disk = "committed"
         /\ tree[t].recorded => tree'[t].recorded
    BY <1>4, <2>1, <2>2, <2>7 DEF TreeAt
  <2> QED
    BY <1>5, <2>1, <2>5, <2>7, <2>8, <2>9, <2>10
<1> QED
  BY <1>6, <1>7

-----------------------------------------------------------------------------
(* Outcomes                                                                *)

\* The runner of job j gives the task its outcome and ends.
Concludes(j) ==
  /\ rx.pc = "idle" /\ rx' = rx /\ rec' = rec /\ tree' = tree
  /\ remote' = remote /\ passed' = passed /\ ckpt' = ckpt /\ work' = work
  /\ job[j].status = "running" \/ pc[j] = "incapable"
  /\ job'[j].status \in {"completed", "failed", "cancelled"}
  /\ job'[j].cancel = job[j].cancel
  /\ pc'[j] = "end"
  /\ \A k \in Jobs \ {j} : job'[k] = job[k] /\ pc'[k] = pc[k]
  /\ task'.attempts = task.attempts /\ task'.job = task.job
  /\ task'.status = "completed" =>
       task.job # 0 /\ ~job[task.job].cancel /\ remote # 0

LEMMA ConcludeFrame ==
  ASSUME RecoveryRight, NEW j \in Jobs, Concludes(j), RowsTyped'
  PROVE  RecoveryRight'
<1>1. /\ RowsTyped /\ AttemptsRight /\ RowsDiffer /\ RemoteRight
      /\ \A t \in Trees : TreeAt(t)
      /\ \A k \in Jobs : PushedAt(k) /\ RunnerAt(k) /\ RecordAt(k) /\ ActiveAt(k)
  BY DEF RecoveryRight
<1>2. j = task.job /\ job[j].status \notin {"none", "queued", "superseded"}
  BY <1>1 DEF Concludes, ActiveAt
<1>3. StatusesGo
  BY <1>2 DEF StatusesGo, Concludes
<1>4. \A k \in Jobs : job[k].status = "none" <=> job'[k].status = "none"
  BY <1>2 DEF Concludes
<1>5. AttemptsRight'
  BY <1>1, <1>4, FreshKept DEF Concludes
<1>6. RowsDiffer' /\ \A t \in Trees : TreeAt(t)'
  BY <1>1, <1>3, TreesFrame DEF Concludes
<1>7. RemoteRight' /\ TakeoverRight'
  BY <1>1 DEF Concludes, RemoteRight, TakeoverRight
<1>8. CompletedRight'
  <2>1. \A k \in Jobs : job'[k].cancel = job[k].cancel
    BY DEF Concludes
  <2> QED
    BY <1>1, <2>1 DEF CompletedRight, Concludes, RowsTyped
<1>9. ASSUME NEW k \in Jobs
      PROVE  PushedAt(k)' /\ RunnerAt(k)' /\ RecordAt(k)' /\ ActiveAt(k)'
  <2>1. RecordAt(k)'
    <3>1. ckpt[k] \subseteq ckpt'[k] /\ rec'[k] = rec[k]
      BY DEF Concludes
    <3> QED
      BY <1>1, <1>3, <3>1, RecordFrame DEF Concludes
  <2>2. ActiveAt(k)'
    BY <1>1, <1>2 DEF ActiveAt, Concludes
  <2>3. pc'[k] = pc[k] \/ pc'[k] = "end"
    BY DEF Concludes
  <2>4. PushedAt(k)'
    BY <1>1, <2>3 DEF PushedAt, Concludes
  <2>5. RunnerAt(k)'
    BY <1>1, <1>2 DEF RunnerAt, Concludes
  <2> QED
    BY <2>1, <2>2, <2>4, <2>5
<1> QED
  BY <1>5, <1>6, <1>7, <1>8, <1>9 DEF RecoveryRight

LEMMA FinalizeIncapableRight ==
  ASSUME RecoveryRight, rx.pc = "idle", NEW j \in Jobs, FinalizeIncapable(j)
  PROVE  RecoveryRight'
<1>1. RowsTyped /\ ActiveAt(j)
  BY DEF RecoveryRight
<1>2. /\ pc[j] = "incapable" /\ task.status = "running" /\ j = task.job
      /\ job[j].status = "failed" /\ job' = job
      /\ rx' = rx /\ rec' = rec /\ tree' = tree
      /\ remote' = remote /\ passed' = passed /\ ckpt' = ckpt /\ work' = work
      /\ pc' = [pc EXCEPT ![j] = "end"] /\ task' = TaskFailed
  BY <1>1 DEF FinalizeIncapable, ActiveAt, gitVars, recVars
<1>3. /\ task'.status \in {"retryable", "failed"} /\ task'.job = task.job
      /\ task'.attempts = task.attempts
      /\ task' = [status |-> task'.status, attempts |-> task'.attempts,
                  job |-> task'.job]
  BY <1>1, <1>2 DEF RowsTyped, TaskFailed
<1>4. Concludes(j)
  BY <1>1, <1>2, <1>3 DEF Concludes, RowsTyped
<1>5. RowsTyped'
  BY <1>1, <1>2, <1>3 DEF FinalizeIncapable, RowsTyped, recVars
<1> QED
  BY <1>4, <1>5, ConcludeFrame

\* The outcome of a task goes with the fenced outcome of its job.
LEMMA OutcomeRight ==
  ASSUME RecoveryRight, rx.pc = "idle", NEW j \in Jobs,
         NEW from, NEW outcome, NEW jobOutcome,
         jobOutcome \in {"completed", "failed", "cancelled"},
         Conclude(j, from, outcome, jobOutcome),
         outcome.status \in {"ready", "running", "retryable", "failed",
                             "completed", "cancelled"},
         outcome.job = task.job, outcome.attempts = task.attempts,
         outcome = [status |-> outcome.status, attempts |-> outcome.attempts,
                    job |-> outcome.job],
         outcome.status = "completed" =>
           task.job # 0 /\ ~job[task.job].cancel /\ remote # 0
  PROVE  RecoveryRight'
<1>1. RowsTyped
  BY DEF RecoveryRight
<1>2. /\ job[j].status = "running" /\ task' = outcome
      /\ job' = [job EXCEPT ![j].status = jobOutcome]
      /\ pc' = [pc EXCEPT ![j] = "end"]
      /\ rx' = rx /\ rec' = rec /\ tree' = tree
      /\ remote' = remote /\ passed' = passed /\ ckpt' = ckpt /\ work' = work
      /\ governed' = governed /\ adv' = adv /\ faults' = faults
  BY DEF Conclude, Holds, gitVars, recVars
<1>3. /\ job' \in [Jobs -> JobRows]
      /\ \A k \in Jobs \ {j} : job'[k] = job[k]
      /\ job'[j].cancel = job[j].cancel /\ job'[j].status = jobOutcome
  BY <1>1, <1>2 DEF RowsTyped, JobRows
<1>4. Concludes(j)
  BY <1>1, <1>2, <1>3 DEF Concludes, RowsTyped
<1>5. RowsTyped'
  BY <1>1, <1>2, <1>3 DEF RowsTyped
<1> QED
  BY <1>4, <1>5, ConcludeFrame

LEMMA FinishRight ==
  ASSUME RecoveryRight, rx.pc = "idle", NEW j \in Jobs, Finish(j)
  PROVE  RecoveryRight'
<1>1. RowsTyped /\ ActiveAt(j) /\ PushedAt(j)
  BY DEF RecoveryRight
<1>2. /\ j = task.job /\ task.status = "running" /\ j # 0 /\ remote # 0
      /\ Conclude(j, "finish", TaskPassed, "completed")
  BY <1>1, JobsAreNumbers DEF Finish, Conclude, Holds, ActiveAt, PushedAt
<1>3. /\ TaskPassed.status \in {"cancelled", "completed"}
      /\ TaskPassed.job = task.job /\ TaskPassed.attempts = task.attempts
      /\ TaskPassed = [status |-> TaskPassed.status,
                       attempts |-> TaskPassed.attempts, job |-> TaskPassed.job]
      /\ TaskPassed.status = "completed" => ~job[task.job].cancel
  BY <1>1, <1>2 DEF RowsTyped, TaskPassed
<1> QED
  BY <1>2, <1>3, OutcomeRight

LEMMA FailedOutcome ==
  ASSUME RecoveryRight, rx.pc = "idle", NEW j \in Jobs,
         FinishUnverified(j) \/ FinishError(j) \/ FinishCancelled(j)
  PROVE  RecoveryRight'
<1>1. RowsTyped
  BY DEF RecoveryRight
<1>2. /\ TaskFailed.status \in {"retryable", "failed"}
      /\ TaskFailed.job = task.job /\ TaskFailed.attempts = task.attempts
      /\ TaskFailed = [status |-> TaskFailed.status,
                       attempts |-> TaskFailed.attempts, job |-> TaskFailed.job]
  BY <1>1 DEF RowsTyped, TaskFailed
<1>3. PICK c : c = [task EXCEPT !.status = "cancelled"]
  OBVIOUS
<1>4. /\ c.status = "cancelled" /\ c.job = task.job /\ c.attempts = task.attempts
      /\ c = [status |-> c.status, attempts |-> c.attempts, job |-> c.job]
  BY <1>1, <1>3 DEF RowsTyped
<1>5. CASE FinishUnverified(j)
  <2>1. Conclude(j, "unverified", TaskFailed, "completed")
    BY <1>5 DEF FinishUnverified
  <2> QED
    BY <1>2, <2>1, OutcomeRight
<1>6. CASE FinishError(j)
  <2>1. Conclude(j, "error", TaskFailed, "failed")
    BY <1>6 DEF FinishError
  <2> QED
    BY <1>2, <2>1, OutcomeRight
<1>7. CASE FinishCancelled(j)
  <2>1. Conclude(j, "cancel", c, "cancelled")
    BY <1>3, <1>7 DEF FinishCancelled
  <2> QED
    BY <1>4, <2>1, OutcomeRight
<1> QED
  BY <1>5, <1>6, <1>7

-----------------------------------------------------------------------------
(* The task's own steps                                                    *)

\* A step of the task alone while none of its jobs is active.
LEMMA TaskFrame ==
  ASSUME RecoveryRight, RowsTyped', rx.pc = "idle", rx' = rx,
         task.status # "running", task'.status # "completed",
         task'.attempts = task.attempts,
         job' = job, pc' = pc, ckpt' = ckpt, work' = work, tree' = tree,
         remote' = remote, passed' = passed, rec' = rec
  PROVE  RecoveryRight'
<1>1. AttemptsRight'
  BY FreshKept DEF RecoveryRight
<1>2. RowsDiffer' /\ RemoteRight' /\ TakeoverRight' /\ CompletedRight'
  BY DEF RecoveryRight, RowsDiffer, RemoteRight, TakeoverRight, CompletedRight
<1>3. \A t \in Trees : TreeAt(t)'
  BY DEF RecoveryRight, TreeAt
<1>4. ASSUME NEW k \in Jobs
      PROVE  PushedAt(k)' /\ RunnerAt(k)' /\ RecordAt(k)' /\ ActiveAt(k)'
  <2>1. PushedAt(k) /\ RunnerAt(k) /\ RecordAt(k) /\ ActiveAt(k)
    BY DEF RecoveryRight
  <2>2. PushedAt(k)' /\ RunnerAt(k)'
    BY <2>1 DEF PushedAt, RunnerAt
  <2>3. RecordAt(k)' /\ ActiveAt(k)'
    BY <2>1 DEF RecordAt, ActiveAt
  <2> QED
    BY <2>2, <2>3
<1> QED
  BY <1>1, <1>2, <1>3, <1>4 DEF RecoveryRight

LEMMA RetryTaskRight ==
  ASSUME RecoveryRight, rx.pc = "idle", RetryTask
  PROVE  RecoveryRight'
<1>1. RowsTyped
  BY DEF RecoveryRight
<1>2. /\ task.status = "retryable" /\ task' = [task EXCEPT !.status = "ready"]
      /\ job' = job /\ pc' = pc /\ ckpt' = ckpt /\ work' = work /\ tree' = tree
      /\ remote' = remote /\ passed' = passed /\ rec' = rec /\ rx' = rx
  BY DEF RetryTask, gitVars, recVars
<1>3. task'.status = "ready" /\ task'.attempts = task.attempts
  BY <1>1, <1>2 DEF RowsTyped
<1>4. RowsTyped'
  BY <1>1, <1>2 DEF RetryTask, RowsTyped, recVars
<1> QED
  BY <1>2, <1>3, <1>4, TaskFrame

\* A cancel asked of the job that works is asked before any outcome.
LEMMA CancelTaskRight ==
  ASSUME RecoveryRight, CancelTask
  PROVE  RecoveryRight'
<1>1. /\ RowsTyped /\ AttemptsRight /\ RowsDiffer /\ RemoteRight
      /\ TakeoverRight
      /\ \A t \in Trees : TreeAt(t)
      /\ \A k \in Jobs : PushedAt(k) /\ RunnerAt(k) /\ RecordAt(k) /\ ActiveAt(k)
  BY DEF RecoveryRight
<1>2. /\ pc' = pc /\ ckpt' = ckpt /\ work' = work /\ tree' = tree
      /\ remote' = remote /\ passed' = passed /\ rec' = rec /\ rx' = rx
  BY DEF CancelTask, gitVars, recVars
<1>3. faults' \in 0..MaxFaults
  BY <1>1, MaxFaultsAssumption DEF CancelTask, RowsTyped
<1>4. CASE /\ task.status \in {"ready", "retryable"}
           /\ task' = [task EXCEPT !.status = "cancelled"]
           /\ job' = job
  <2>1. rx.pc = "idle"
    BY <1>1, <1>4 DEF TakeoverRight
  <2>2. task'.status = "cancelled" /\ task'.attempts = task.attempts
    BY <1>1, <1>4 DEF RowsTyped
  <2>3. RowsTyped'
    BY <1>1, <1>2, <1>3, <1>4 DEF CancelTask, RowsTyped, recVars
  <2> QED
    BY <1>2, <1>4, <2>1, <2>2, <2>3, TaskFrame
<1>5. CASE /\ task.status = "running" /\ task.job # 0
           /\ job' = [job EXCEPT ![task.job].cancel = TRUE]
           /\ task' = task
  <2>1. PICK j \in Jobs : j = task.job
    BY <1>1, <1>5 DEF RowsTyped
  <2>2. /\ job' = [k \in Jobs |-> job'[k]]
        /\ \A k \in Jobs \ {j} : job'[k] = job[k]
        /\ job'[j] = [job[j] EXCEPT !.cancel = TRUE]
        /\ \A k \in Jobs : job[k] \in JobRows
    BY <1>1, <1>5, <2>1 DEF RowsTyped
  <2>3. /\ job'[j] \in JobRows /\ job'[j].status = job[j].status
        /\ job'[j].lease = job[j].lease
    BY <2>2 DEF JobRows
  <2>4. job' \in [Jobs -> JobRows]
    BY <2>2, <2>3
  <2>5. RowsTyped'
    BY <1>1, <1>2, <1>3, <1>5, <2>4 DEF CancelTask, RowsTyped, recVars
  <2>6. \A k \in Jobs : job'[k].status = job[k].status
                          /\ job'[k].lease = job[k].lease
    BY <2>2, <2>3
  <2>7. AttemptsRight'
    BY <1>1, <1>5, <2>6, FreshKept
  <2>8. StatusesGo
    BY <2>6 DEF StatusesGo
  <2>9. RowsDiffer' /\ \A t \in Trees : TreeAt(t)'
    BY <1>1, <1>2, <2>8, TreesFrame
  <2>10. RemoteRight' /\ CompletedRight'
    BY <1>1, <1>2, <1>5 DEF RemoteRight, CompletedRight
  <2>11. TakeoverRight'
    BY <1>1, <1>2, <1>5, <2>6
    DEF TakeoverRight, RowsTyped, Supersedable, MayTakeOver
  <2>12. ASSUME NEW k \in Jobs
         PROVE  PushedAt(k)' /\ RunnerAt(k)' /\ RecordAt(k)' /\ ActiveAt(k)'
    <3>1. PushedAt(k)' /\ RunnerAt(k)'
      BY <1>1, <1>2, <2>6 DEF PushedAt, RunnerAt
    <3>2. RecordAt(k)' /\ ActiveAt(k)'
      BY <1>1, <1>2, <1>5, <2>6 DEF RecordAt, ActiveAt
    <3> QED
      BY <3>1, <3>2
  <2> QED
    BY <2>5, <2>7, <2>9, <2>10, <2>11, <2>12 DEF RecoveryRight
<1> QED
  BY <1>4, <1>5 DEF CancelTask

\* A job that has not been created has no runner, no checkpoint and no tree.
LEMMA NewJobBlank ==
  ASSUME RecoveryRight, NEW n \in Fresh
  PROVE  /\ n \in Jobs /\ n # 0 /\ job[n].status = "none" /\ pc[n] = "none"
         /\ ckpt[n] = {} /\ \A t \in Trees : tree[t].row # n
<1>1. /\ n \in Jobs /\ n # 0 /\ job[n].status = "none" /\ RunnerAt(n)
      /\ \A t \in Trees : TreeAt(t)
  BY JobsAreNumbers DEF Fresh, RecoveryRight
<1> QED
  BY <1>1 DEF RunnerAt, TreeAt

\* Job n is created, while any active job is the task's own.
LEMMA CreateFrame ==
  ASSUME RecoveryRight, NEW n \in Fresh, RowsTyped', rx.pc # "salvage",
         job' = [job EXCEPT ![n].status = "queued"],
         task'.status = "running", task'.attempts = task.attempts + 1,
         \/ rx'.pc = "idle" /\ task'.job = n /\ task.status # "running"
         \/ rx'.pc = "salvage" /\ rx'.new = n /\ task'.job = task.job
              /\ task.status = "running",
         pc' = pc, ckpt' = ckpt, work' = work, tree' = tree,
         remote' = remote, passed' = passed, rec' = rec, TakeoverRight'
  PROVE  RecoveryRight'
<1>1. /\ RowsTyped /\ AttemptsRight /\ RowsDiffer /\ RemoteRight
      /\ \A t \in Trees : TreeAt(t)
      /\ \A k \in Jobs : PushedAt(k) /\ RunnerAt(k) /\ RecordAt(k) /\ ActiveAt(k)
  BY DEF RecoveryRight
<1>2. /\ n \in Jobs /\ n # 0 /\ job[n].status = "none" /\ pc[n] = "none"
      /\ ckpt[n] = {} /\ \A t \in Trees : tree[t].row # n
  BY NewJobBlank
<1>3. /\ job' = [k \in Jobs |-> job'[k]]
      /\ \A k \in Jobs \ {n} : job'[k] = job[k]
      /\ job'[n].status = "queued"
  <2>1. /\ job' = [k \in Jobs |-> job'[k]] /\ job[n] \in JobRows
        /\ \A k \in Jobs \ {n} : job'[k] = job[k]
        /\ job'[n] = [job[n] EXCEPT !.status = "queued"]
    BY <1>1, <1>2 DEF RowsTyped
  <2> QED
    BY <2>1 DEF JobRows
<1>4. AttemptsRight'
  <2>1. Fresh' = Fresh \ {n}
    BY <1>2, <1>3 DEF Fresh
  <2> QED
    BY <1>1, <2>1, OneMoreJob DEF AttemptsRight
<1>5. RowsDiffer' /\ RemoteRight' /\ CompletedRight'
  BY <1>1 DEF RowsDiffer, RemoteRight, CompletedRight
<1>6. StatusesGo
  BY <1>2, <1>3 DEF StatusesGo
<1>7. ASSUME NEW t \in Trees
      PROVE  TreeAt(t)'
  <2>1. TreeAt(t) /\ tree[t].row # n /\ t \in Jobs
    BY <1>1, <1>2, JobsAreNumbers
  <2>2. tree[t].row # 0 => tree[t].row \in Jobs
    BY <1>1 DEF RowsTyped, WorktreeRows
  <2> QED
    BY <1>6, <2>1, <2>2 DEF TreeAt, StatusesGo
<1>8. ASSUME NEW k \in Jobs
      PROVE  PushedAt(k)' /\ RunnerAt(k)' /\ RecordAt(k)' /\ ActiveAt(k)'
  <2>1. RecordAt(k)'
    BY <1>1, <1>6, RecordFrame
  <2>2. PushedAt(k)'
    BY <1>1 DEF PushedAt
  <2>3. RunnerAt(k) /\ ActiveAt(k)
    BY <1>1
  <2>4. CASE k = n
    BY <1>2, <1>3, <2>1, <2>2, <2>4 DEF RunnerAt, ActiveAt
  <2>5. CASE k # n
    <3>1. job'[k] = job[k]
      BY <1>3, <2>5
    <3>2. RunnerAt(k)'
      BY <2>3, <2>5, <3>1 DEF RunnerAt
    <3>3. ActiveAt(k)'
      BY <2>3, <3>1 DEF ActiveAt
    <3> QED
      BY <2>1, <2>2, <3>2, <3>3
  <2> QED
    BY <2>4, <2>5
<1> QED
  BY <1>4, <1>5, <1>7, <1>8 DEF RecoveryRight

LEMMA AdvanceDispatchRight ==
  ASSUME RecoveryRight, rx.pc = "idle", AdvanceDispatch
  PROVE  RecoveryRight'
<1>1. RowsTyped
  BY DEF RecoveryRight
<1>2. /\ pc' = pc /\ ckpt' = ckpt /\ work' = work /\ tree' = tree
      /\ remote' = remote /\ passed' = passed /\ rec' = rec /\ rx' = rx
      /\ governed' = governed /\ faults' = faults /\ adv' = FALSE
  BY DEF AdvanceDispatch, gitVars, recVars
<1>3. CASE /\ task.status = "ready" /\ Fresh # {}
           /\ task' = [status |-> "running", attempts |-> task.attempts + 1,
                       job |-> NewJob]
           /\ job' = [job EXCEPT ![NewJob].status = "queued"]
  <2>1. PICK n \in Fresh : n = NewJob
    BY <1>3, NewJobFresh
  <2>2. n \in Jobs
    BY DEF Fresh
  <2>3. RowsTyped'
    <3>1. job' \in [Jobs -> JobRows]
      BY <1>1, <1>3, <2>1, <2>2 DEF RowsTyped, JobRows
    <3> QED
      BY <1>1, <1>2, <1>3, <2>1, <2>2, <3>1 DEF RowsTyped
  <2>4. TakeoverRight'
    BY <1>2 DEF TakeoverRight
  <2> QED
    BY <1>2, <1>3, <2>1, <2>3, <2>4, CreateFrame
<1>4. CASE task' = task /\ job' = job
  <2>1. RowsTyped'
    BY <1>1, <1>2, <1>4 DEF RowsTyped
  <2>2. AttemptsRight'
    BY <1>4, FreshKept DEF RecoveryRight
  <2>3. RowsDiffer' /\ RemoteRight' /\ TakeoverRight' /\ CompletedRight'
    BY <1>2, <1>4
    DEF RecoveryRight, RowsDiffer, RemoteRight, TakeoverRight, CompletedRight
  <2>4. \A t \in Trees : TreeAt(t)'
    BY <1>2, <1>4 DEF RecoveryRight, TreeAt
  <2>5. ASSUME NEW k \in Jobs
        PROVE  PushedAt(k)' /\ RunnerAt(k)' /\ RecordAt(k)' /\ ActiveAt(k)'
    BY <1>2, <1>4 DEF RecoveryRight, PushedAt, RunnerAt, RecordAt, ActiveAt
  <2> QED
    BY <2>1, <2>2, <2>3, <2>4, <2>5 DEF RecoveryRight
<1> QED
  BY <1>3, <1>4 DEF AdvanceDispatch

-----------------------------------------------------------------------------
(* Records                                                                 *)

\* A step that looks and writes down, or takes the lock.
LEMMA LookFrame ==
  ASSUME RecoveryRight, RowsTyped', TakeoverRight',
         \A k \in Jobs : RecordAt(k)',
         rx' = rx \/ (rx.pc = "idle" /\ rx'.pc = "locked"),
         task' = task, job' = job, pc' = pc, ckpt' = ckpt, work' = work,
         tree' = tree, remote' = remote, passed' = passed
  PROVE  RecoveryRight'
<1>1. AttemptsRight'
  BY FreshKept DEF RecoveryRight
<1>2. RowsDiffer' /\ RemoteRight' /\ CompletedRight'
  BY DEF RecoveryRight, RowsDiffer, RemoteRight, CompletedRight
<1>3. \A t \in Trees : TreeAt(t)'
  BY DEF RecoveryRight, TreeAt
<1>4. ASSUME NEW k \in Jobs
      PROVE  PushedAt(k)' /\ RunnerAt(k)' /\ ActiveAt(k)'
  BY DEF RecoveryRight, PushedAt, RunnerAt, ActiveAt
<1> QED
  BY <1>1, <1>2, <1>3, <1>4 DEF RecoveryRight

LEMMA AdvanceReadRight ==
  ASSUME RecoveryRight, AdvanceRead \/ Govern
  PROVE  RecoveryRight'
<1>1. RowsTyped /\ TakeoverRight /\ \A k \in Jobs : RecordAt(k)
  BY DEF RecoveryRight
<1>2. /\ task' = task /\ job' = job /\ pc' = pc /\ ckpt' = ckpt /\ work' = work
      /\ tree' = tree /\ remote' = remote /\ passed' = passed /\ rec' = rec
      /\ rx' = rx
  BY DEF AdvanceRead, Govern, gitVars, recVars
<1>3. RowsTyped'
  <2>1. governed' \in BOOLEAN /\ adv' \in BOOLEAN /\ faults' \in 0..MaxFaults
    <3>1. CASE AdvanceRead
      BY <1>1, <3>1 DEF AdvanceRead, recVars, RowsTyped
    <3>2. CASE Govern
      BY <1>1, <3>2, MaxFaultsAssumption DEF Govern, RowsTyped
    <3> QED
      BY <3>1, <3>2
  <2> QED
    BY <1>1, <1>2, <2>1 DEF RowsTyped
<1>4. TakeoverRight' /\ \A k \in Jobs : RecordAt(k)'
  BY <1>1, <1>2 DEF TakeoverRight, RecordAt, Supersedable, MayTakeOver
<1> QED
  BY <1>2, <1>3, <1>4, LookFrame

\* What the recoverer may write of the task's job does not concern a takeover
\* under way: its record is classified.
LEMMA DetectRight ==
  ASSUME RecoveryRight, Detect \/ InspectUnsafe
  PROVE  RecoveryRight'
<1>1. RowsTyped /\ TakeoverRight /\ \A k \in Jobs : RecordAt(k)
  BY DEF RecoveryRight
<1>2. /\ task' = task /\ job' = job /\ pc' = pc /\ ckpt' = ckpt /\ work' = work
      /\ tree' = tree /\ remote' = remote /\ passed' = passed /\ rx' = rx
      /\ governed' = governed /\ adv' = adv
  BY DEF Detect, InspectUnsafe, gitVars
<1>3. PICK j \in Jobs : j = task.job
  BY <1>1 DEF Detect, InspectUnsafe, Recoverable, RowsTyped
<1>4. PICK s \in {"detected", "blocked"} : rec' = [rec EXCEPT ![j].status = s]
  BY <1>3 DEF Detect, InspectUnsafe
<1>5. rec[j].status # "classified"
  BY <1>3 DEF Detect, InspectUnsafe
<1>6. /\ rec' = [k \in Jobs |-> rec'[k]]
      /\ \A k \in Jobs \ {j} : rec'[k] = rec[k]
      /\ rec'[j] = [rec[j] EXCEPT !.status = s]
      /\ \A k \in Jobs : rec[k] \in RecoveryRows
  BY <1>1, <1>4 DEF RowsTyped
<1>7. /\ rec'[j] \in RecoveryRows /\ rec'[j].class = rec[j].class
      /\ rec'[j].hadWork = rec[j].hadWork /\ rec'[j].sha = rec[j].sha
  BY <1>6 DEF RecoveryRows
<1>8. RowsTyped'
  <2>1. rec' \in [Jobs -> RecoveryRows]
    BY <1>6, <1>7
  <2>2. faults' \in 0..MaxFaults
    BY <1>1, MaxFaultsAssumption DEF Detect, InspectUnsafe, RowsTyped
  <2> QED
    BY <1>1, <1>2, <2>1, <2>2 DEF RowsTyped
<1>9. rx.pc = "idle"
  BY <1>1, <1>3, <1>5 DEF TakeoverRight, MayTakeOver
<1>10. TakeoverRight'
  BY <1>2, <1>9 DEF TakeoverRight
<1>11. ASSUME NEW k \in Jobs
       PROVE  RecordAt(k)'
  <2>1. /\ rec'[k].class = rec[k].class /\ rec'[k].hadWork = rec[k].hadWork
        /\ rec'[k].sha = rec[k].sha
    BY <1>6, <1>7
  <2> QED
    BY <1>1, <1>2, <2>1 DEF RecordAt
<1> QED
  BY <1>2, <1>8, <1>10, <1>11, LookFrame

LEMMA ApproveRight ==
  ASSUME RecoveryRight, NEW j \in Jobs, Approve(j)
  PROVE  RecoveryRight'
<1>1. RowsTyped /\ TakeoverRight /\ \A k \in Jobs : RecordAt(k)
  BY DEF RecoveryRight
<1>2. /\ task' = task /\ job' = job /\ pc' = pc /\ ckpt' = ckpt /\ work' = work
      /\ tree' = tree /\ remote' = remote /\ passed' = passed /\ rx' = rx
      /\ governed' = governed /\ adv' = adv /\ faults' = faults
      /\ rec' = [rec EXCEPT ![j].approved = TRUE]
  BY DEF Approve, gitVars
<1>3. /\ rec' = [k \in Jobs |-> rec'[k]]
      /\ \A k \in Jobs \ {j} : rec'[k] = rec[k]
      /\ rec'[j] = [rec[j] EXCEPT !.approved = TRUE]
      /\ \A k \in Jobs : rec[k] \in RecoveryRows
  BY <1>1, <1>2 DEF RowsTyped
<1>4. /\ rec'[j] \in RecoveryRows /\ rec'[j].class = rec[j].class
      /\ rec'[j].hadWork = rec[j].hadWork /\ rec'[j].sha = rec[j].sha
      /\ rec'[j].status = rec[j].status /\ rec'[j].approved
  BY <1>3 DEF RecoveryRows
<1>5. \A k \in Jobs :
        /\ rec'[k].class = rec[k].class /\ rec'[k].hadWork = rec[k].hadWork
        /\ rec'[k].sha = rec[k].sha /\ rec'[k].status = rec[k].status
        /\ rec[k].approved => rec'[k].approved
  BY <1>3, <1>4
<1>6. rec' \in [Jobs -> RecoveryRows]
  BY <1>3, <1>4
<1>7. RowsTyped'
  BY <1>1, <1>2, <1>6 DEF RowsTyped
<1>8. TakeoverRight'
  <2>1. rx.dead # 0 => rx.dead \in Jobs
    BY <1>1 DEF RowsTyped
  <2> QED
    BY <1>1, <1>2, <1>5, <2>1 DEF TakeoverRight, Supersedable, MayTakeOver
<1>9. \A k \in Jobs : RecordAt(k)'
  BY <1>1, <1>2, <1>5 DEF RecordAt
<1> QED
  BY <1>2, <1>7, <1>8, <1>9, LookFrame

\* What an inspection concludes: the work a checkpoint promises is on GitHub or
\* recorded in the job's tree.
LEMMA InspectRight ==
  ASSUME ~Disturb, RecoveryRight, Inspect
  PROVE  RecoveryRight'
<1>1. /\ RowsTyped /\ TakeoverRight /\ \A k \in Jobs : RecordAt(k)
      /\ RowsDiffer
  BY DEF RecoveryRight
<1>2. PICK j \in Jobs : j = task.job
  BY <1>1 DEF Inspect, Recoverable, RowsTyped
<1>3. PICK t : t = TreeOf(j)
  OBVIOUS
<1>4. PICK c : c = Classify(j, t)
  OBVIOUS
<1>5. PICK w : w = ("work" \in ckpt[j])
  OBVIOUS
<1>6. /\ task' = task /\ job' = job /\ pc' = pc /\ ckpt' = ckpt /\ work' = work
      /\ tree' = tree /\ remote' = remote /\ passed' = passed /\ rx' = rx
      /\ governed' = governed /\ adv' = adv /\ faults' = faults
      /\ rec' = [rec EXCEPT ![j].status = "classified", ![j].class = c,
                            ![j].hadWork = w, ![j].sha = remote]
  BY <1>2, <1>3, <1>4, <1>5 DEF Inspect, gitVars
<1>7. /\ Dead(j) /\ rec[j].status = "detected"
      /\ PushedAt(j) /\ RunnerAt(j) /\ \A u \in Trees : TreeAt(u)
  BY <1>2 DEF Inspect, Recoverable, RecoveryRight
<1>8. c \in AutoSalvageable \cup {"conflicted"}
  BY <1>4 DEF Classify, AutoSalvageable
<1>9. /\ rec' = [k \in Jobs |-> rec'[k]]
      /\ \A k \in Jobs \ {j} : rec'[k] = rec[k]
      /\ rec'[j] = [rec[j] EXCEPT !.status = "classified", !.class = c,
                                  !.hadWork = w, !.sha = remote]
      /\ \A k \in Jobs : rec[k] \in RecoveryRows
  BY <1>1, <1>6 DEF RowsTyped
<1>10. /\ rec'[j] \in RecoveryRows /\ rec'[j].class = c
       /\ rec'[j].hadWork = w /\ rec'[j].sha = remote
  <2>1. w \in BOOLEAN /\ remote \in Trees \cup {0}
    BY <1>1, <1>5 DEF RowsTyped
  <2>2. rec[j] \in RecoveryRows
    BY <1>9
  <2> QED
    BY <1>8, <1>9, <2>1, <2>2 DEF RecoveryRows
<1>11. RowsTyped'
  <2>1. rec' \in [Jobs -> RecoveryRows]
    BY <1>9, <1>10
  <2> QED
    BY <1>1, <1>6, <2>1 DEF RowsTyped
<1>12. TakeoverRight'
  <2>1. rx.pc = "idle"
    BY <1>1, <1>2, <1>7 DEF TakeoverRight, MayTakeOver
  <2> QED
    BY <1>6, <2>1 DEF TakeoverRight
<1>13. RecordAt(j)'
  <2>1. CASE t = 0
    <3>1. \A u \in Trees : tree[u].row # j
      BY <1>1, <1>3, <2>1, TreeOfRow
    <3>2. ~Owned(t)
      BY <2>1 DEF Owned
    <3>3. c = IF remote # 0 /\ "finalized" \in ckpt[j] THEN "pushed"
              ELSE IF "work" \in ckpt[j] THEN "checkpointed" ELSE "nothing_done"
      BY <1>4, <2>1, <3>2 DEF Classify
    <3>4. "work" \in ckpt[j] => "finalized" \in ckpt[j] /\ remote # 0
      BY <1>7, <3>1 DEF RunnerAt, Dead, PushedAt
    <3>5. \/ c = "pushed" /\ remote # 0
          \/ c \in {"checkpointed", "nothing_done"} /\ "work" \notin ckpt[j]
      BY <3>3, <3>4
    <3> QED
      BY <1>5, <1>6, <1>10, <3>5 DEF RecordAt
  <2>2. CASE t # 0
    <3>1. t \in Trees /\ tree[t].row = j /\ TreeAt(t) /\ j # 0
      BY <1>1, <1>3, <1>7, <2>2, TreeOfRow, JobsAreNumbers
    <3>2. Owned(t)
      BY <1>1, <3>1, OwnedTree
    <3>3. tree[t].recorded => tree[t].disk = "committed"
      BY <3>1 DEF TreeAt
    <3>4. "work" \in ckpt[j] => tree[t].recorded
      BY <1>7, <3>1 DEF RunnerAt, Dead
    <3>5. \/ c = "conflicted"
          \/ c = "pushed" /\ remote # 0
          \/ c = "local_committed" /\ (remote = 0 \/ ~tree[t].recorded)
          \/ c \in {"local_uncommitted", "checkpointed", "nothing_done"}
               /\ ~tree[t].recorded
      BY <1>4, <2>2, <3>2, <3>3 DEF Classify
    <3>6. \E u \in Trees : tree[u].row = j
      BY <3>1
    <3>7. c = "local_committed" => tree[t].recorded
      BY <1>4, <2>2 DEF Classify
    <3> QED
      BY <1>5, <1>6, <1>10, <3>4, <3>5, <3>6, <3>7 DEF RecordAt
  <2> QED
    BY <2>1, <2>2
<1>14. ASSUME NEW k \in Jobs
       PROVE  RecordAt(k)'
  <2>1. CASE k = j
    BY <1>13, <2>1
  <2>2. CASE k # j
    <3>1. rec'[k] = rec[k] /\ RecordAt(k)
      BY <1>1, <1>9, <2>2
    <3> QED
      BY <1>6, <3>1 DEF RecordAt
  <2> QED
    BY <2>1, <2>2
<1> QED
  BY <1>6, <1>11, <1>12, <1>14, LookFrame

-----------------------------------------------------------------------------
(* Takeover                                                                *)

\* Without interference what is recovered can be fenced.
LEMMA DeadIsSupersedable ==
  ASSUME ~Disturb, NEW j, Recoverable(j)
  PROVE  Supersedable(j) /\ pc[j] # "incapable" /\ j = task.job /\ j # 0
           /\ task.status = "running"
BY DEF Recoverable, Dead, Supersedable

LEMMA TakeoverLockRight ==
  ASSUME ~Disturb, RecoveryRight, TakeoverLock
  PROVE  RecoveryRight'
<1>1. RowsTyped /\ \A k \in Jobs : RecordAt(k)
  BY DEF RecoveryRight
<1>2. PICK j : j = task.job
  OBVIOUS
<1>3. /\ Supersedable(j) /\ pc[j] # "incapable" /\ j # 0
      /\ task.status = "running" /\ MayTakeOver(j)
  BY <1>2, DeadIsSupersedable DEF TakeoverLock
<1>4. /\ task' = task /\ job' = job /\ pc' = pc /\ ckpt' = ckpt /\ work' = work
      /\ tree' = tree /\ remote' = remote /\ passed' = passed /\ rec' = rec
      /\ governed' = governed /\ adv' = adv /\ faults' = faults
      /\ rx.pc = "idle" /\ rx' = [pc |-> "locked", dead |-> j, new |-> 0]
  BY <1>2 DEF TakeoverLock, gitVars
<1>5. RowsTyped'
  BY <1>1, <1>2, <1>4 DEF RowsTyped
<1>6. TakeoverRight'
  BY <1>2, <1>3, <1>4 DEF TakeoverRight, Supersedable, MayTakeOver
<1>7. \A k \in Jobs : RecordAt(k)'
  BY <1>1, <1>4 DEF RecordAt
<1> QED
  BY <1>4, <1>5, <1>6, <1>7, LookFrame

\* A declined takeover fails the job and readies the task at once.
LEMMA TakeoverDeclineRight ==
  ASSUME ~Disturb, RecoveryRight, TakeoverDecline
  PROVE  RecoveryRight'
<1>1. /\ RowsTyped /\ AttemptsRight /\ RowsDiffer /\ RemoteRight
      /\ \A t \in Trees : TreeAt(t)
      /\ \A k \in Jobs : PushedAt(k) /\ RunnerAt(k) /\ RecordAt(k) /\ ActiveAt(k)
  BY DEF RecoveryRight
<1>2. PICK j \in Jobs : j = task.job
  BY <1>1 DEF TakeoverDecline, Recoverable, RowsTyped
<1>3. Supersedable(j) /\ pc[j] # "incapable" /\ task.status = "running"
  BY <1>2, DeadIsSupersedable DEF TakeoverDecline
<1>4. /\ pc' = pc /\ ckpt' = ckpt /\ work' = work
      /\ tree' = tree /\ remote' = remote /\ passed' = passed
      /\ governed' = governed /\ adv' = adv /\ faults' = faults
      /\ rx.pc = "idle" /\ rx' = rx
      /\ task' = [task EXCEPT !.status = "ready"]
      /\ job' = [job EXCEPT ![j].status = "failed"]
      /\ rec' = [rec EXCEPT ![j].status = "completed"]
  BY <1>2 DEF TakeoverDecline, gitVars
<1>5. /\ job' \in [Jobs -> JobRows]
      /\ \A k \in Jobs \ {j} : job'[k] = job[k]
      /\ job'[j].status = "failed"
  BY <1>1, <1>4 DEF RowsTyped, JobRows
<1>6. /\ rec' \in [Jobs -> RecoveryRows]
      /\ \A k \in Jobs : /\ rec'[k].class = rec[k].class
                         /\ rec'[k].hadWork = rec[k].hadWork
                         /\ rec'[k].sha = rec[k].sha
  <2>1. /\ rec' = [k \in Jobs |-> rec'[k]]
        /\ \A k \in Jobs \ {j} : rec'[k] = rec[k]
        /\ rec'[j] = [rec[j] EXCEPT !.status = "completed"]
        /\ \A k \in Jobs : rec[k] \in RecoveryRows
    BY <1>1, <1>4 DEF RowsTyped
  <2>2. /\ rec'[j] \in RecoveryRows /\ rec'[j].class = rec[j].class
        /\ rec'[j].hadWork = rec[j].hadWork /\ rec'[j].sha = rec[j].sha
    BY <2>1 DEF RecoveryRows
  <2> QED
    BY <2>1, <2>2
<1>7. task'.status = "ready" /\ task'.attempts = task.attempts
  BY <1>1, <1>4 DEF RowsTyped
<1>8. RowsTyped'
  BY <1>1, <1>4, <1>5, <1>6 DEF RowsTyped
<1>9. job[j].status \notin {"none", "queued", "superseded"}
  BY <1>3 DEF Supersedable
<1>10. StatusesGo
  BY <1>5, <1>9 DEF StatusesGo
<1>11. AttemptsRight'
  <2>1. \A k \in Jobs : job[k].status = "none" <=> job'[k].status = "none"
    BY <1>5, <1>9
  <2> QED
    BY <1>1, <1>7, <2>1, FreshKept
<1>12. RowsDiffer' /\ \A t \in Trees : TreeAt(t)'
  BY <1>1, <1>4, <1>10, TreesFrame
<1>13. RemoteRight' /\ TakeoverRight' /\ CompletedRight'
  BY <1>1, <1>4, <1>7 DEF RemoteRight, TakeoverRight, CompletedRight
<1>14. ASSUME NEW k \in Jobs
       PROVE  PushedAt(k)' /\ RunnerAt(k)' /\ RecordAt(k)' /\ ActiveAt(k)'
  <2>1. PushedAt(k)'
    BY <1>1, <1>4 DEF PushedAt
  <2>2. RunnerAt(k)'
    BY <1>1, <1>4, <1>5, <1>9 DEF RunnerAt
  <2>3. RecordAt(k)'
    BY <1>1, <1>4, <1>6, <1>10 DEF RecordAt, StatusesGo
  <2>4. ActiveAt(k)'
    BY <1>1, <1>2, <1>3, <1>4, <1>5 DEF ActiveAt
  <2> QED
    BY <2>1, <2>2, <2>3, <2>4
<1> QED
  BY <1>8, <1>11, <1>12, <1>13, <1>14 DEF RecoveryRight

LEMMA TakeoverDispatchRight ==
  ASSUME RecoveryRight, TakeoverDispatch
  PROVE  RecoveryRight'
<1>1. RowsTyped /\ TakeoverRight
  BY DEF RecoveryRight
<1>2. /\ pc' = pc /\ ckpt' = ckpt /\ work' = work /\ tree' = tree
      /\ remote' = remote /\ passed' = passed /\ rec' = rec
      /\ governed' = governed /\ faults' = faults /\ adv' = adv
      /\ rx.pc = "locked"
  BY DEF TakeoverDispatch, gitVars
<1>3. CASE /\ task.status = "running" /\ Fresh # {}
           /\ task' = [task EXCEPT !.attempts = @ + 1]
           /\ job' = [job EXCEPT ![NewJob].status = "queued"]
           /\ rx' = [rx EXCEPT !.pc = "salvage", !.new = NewJob]
  <2>1. PICK n \in Fresh : n = NewJob
    BY <1>3, NewJobFresh
  <2>2. n \in Jobs /\ job[n].status = "none" /\ n # 0
    BY JobsAreNumbers DEF Fresh
  <2>3. /\ task'.status = "running" /\ task'.attempts = task.attempts + 1
        /\ task'.job = task.job
        /\ task' = [status |-> task'.status, attempts |-> task'.attempts,
                    job |-> task'.job]
    BY <1>1, <1>3 DEF RowsTyped
  <2>4. /\ rx' \in [pc : {"idle", "locked", "salvage"}, dead : Jobs \cup {0},
                    new : Jobs \cup {0}]
        /\ rx'.pc = "salvage" /\ rx'.new = n /\ rx'.dead = rx.dead
    BY <1>1, <1>3, <2>1, <2>2 DEF RowsTyped
  <2>5. /\ job' \in [Jobs -> JobRows]
        /\ \A k \in Jobs \ {n} : job'[k] = job[k]
        /\ job'[n].status = "queued"
    <3>1. /\ job' = [k \in Jobs |-> job'[k]]
          /\ \A k \in Jobs \ {n} : job'[k] = job[k]
          /\ job'[n] = [job[n] EXCEPT !.status = "queued"]
          /\ job[n] \in JobRows /\ \A k \in Jobs : job[k] \in JobRows
      BY <1>1, <1>3, <2>1, <2>2 DEF RowsTyped
    <3>2. job'[n] \in JobRows /\ job'[n].status = "queued"
      BY <3>1 DEF JobRows
    <3> QED
      BY <3>1, <3>2
  <2>6. RowsTyped'
    BY <1>1, <1>2, <1>3, <2>3, <2>4, <2>5 DEF RowsTyped
  <2>7. /\ rx.dead = task.job /\ rx.dead # 0 /\ rx.dead \in Jobs
        /\ Supersedable(rx.dead) /\ MayTakeOver(rx.dead)
        /\ pc[rx.dead] # "incapable"
    BY <1>1, <1>2 DEF TakeoverRight, RowsTyped
  <2>8. rx.dead # n
    BY <2>2, <2>7 DEF Supersedable
  <2>9. TakeoverRight'
    <3>1. job'[rx.dead] = job[rx.dead]
      BY <2>5, <2>7, <2>8
    <3> QED
      BY <1>2, <2>2, <2>3, <2>4, <2>5, <2>7, <2>8, <3>1
      DEF TakeoverRight, Supersedable, MayTakeOver
  <2> QED
    BY <1>2, <1>3, <2>1, <2>3, <2>4, <2>6, <2>9, CreateFrame
<1>4. CASE task' = task /\ job' = job /\ rx' = Idle
  <2>1. RowsTyped'
    BY <1>1, <1>2, <1>4 DEF RowsTyped, Idle
  <2>2. AttemptsRight'
    BY <1>4, FreshKept DEF RecoveryRight
  <2>3. RowsDiffer' /\ RemoteRight' /\ TakeoverRight' /\ CompletedRight'
    BY <1>2, <1>4
    DEF RecoveryRight, RowsDiffer, RemoteRight, TakeoverRight, CompletedRight,
        Idle
  <2>4. \A t \in Trees : TreeAt(t)'
    BY <1>2, <1>4 DEF RecoveryRight, TreeAt, Idle
  <2>5. ASSUME NEW k \in Jobs
        PROVE  PushedAt(k)' /\ RunnerAt(k)' /\ RecordAt(k)' /\ ActiveAt(k)'
    BY <1>2, <1>4
    DEF RecoveryRight, PushedAt, RunnerAt, RecordAt, ActiveAt, Idle
  <2> QED
    BY <2>1, <2>2, <2>3, <2>4, <2>5 DEF RecoveryRight
<1> QED
  BY <1>3, <1>4 DEF TakeoverDispatch

\* The dead job's record still holds when the salvage reads it, so a takeover
\* that has dispatched also finishes.
LEMMA SalvageAlwaysHolds ==
  ASSUME RecoveryRight, rx.pc = "salvage"
  PROVE  SalvageHolds(rx.dead, rx.new)
<1>1. /\ TakeoverRight /\ RowsDiffer /\ RowsTyped
      /\ \A t \in Trees : TreeAt(t)
  BY DEF RecoveryRight
<1>2. rx.dead \in Jobs /\ rx.new \in Jobs
  BY <1>1 DEF TakeoverRight, RowsTyped
<1>3. RecordAt(rx.dead)
  BY <1>2 DEF RecoveryRight
<1>4. rec[rx.dead].class = "pushed" => remote = rec[rx.dead].sha
  BY <1>3 DEF RecordAt
<1>5. TreeOf(rx.new) = 0
  <2>1. \A t \in Trees : tree[t].row # rx.new
    BY <1>1, <1>2, JobsAreNumbers DEF TreeAt
  <2> QED
    BY <1>1, <1>2, <2>1, TreeOfRow
<1>6. Supersedable(rx.dead)
  BY <1>1 DEF TakeoverRight
<1> QED
  BY <1>4, <1>5, <1>6 DEF SalvageHolds

\* The trees after the rebinding of the dead job d's tree, if it had to be.
Rebound(d, n) ==
  \/ tree' = tree /\ (\/ rec[d].class \notin {"local_uncommitted",
                                              "local_committed"}
                      \/ \A u \in Trees : tree[u].row # d)
  \/ \E t \in Trees :
       /\ tree[t].row = d
       /\ \A u \in Trees \ {t} : tree'[u] = tree[u]
       /\ tree'[t].row = n /\ tree'[t].marker = n
       /\ tree'[t].disk = tree[t].disk
       /\ tree'[t].recorded = tree[t].recorded

\* What a finished takeover has done.
Salvaged(d, n) ==
  /\ task'.job = n /\ task'.status = task.status
  /\ task'.attempts = task.attempts
  /\ job'[d].status = "superseded" /\ job'[d].cancel = job[d].cancel
  /\ \A k \in Jobs \ {d} : job'[k] = job[k]
  /\ ckpt'[n] = ckpt[n] \cup SalvagedCkpt(d)
  /\ \A k \in Jobs \ {n} : ckpt'[k] = ckpt[k] /\ work'[k] = work[k]
  /\ work'[n] = IF rec[d].hadWork THEN work[d] ELSE work[n]
  /\ Rebound(d, n)
  /\ \A k \in Jobs : /\ rec'[k].class = rec[k].class
                     /\ rec'[k].hadWork = rec[k].hadWork
                     /\ rec'[k].sha = rec[k].sha
  /\ rx'.pc = "idle" /\ pc' = pc /\ remote' = remote /\ passed' = passed

LEMMA FinishSalvages ==
  ASSUME RecoveryRight, TakeoverFinish, NEW d \in Jobs, NEW n \in Jobs,
         d = rx.dead, n = rx.new
  PROVE  RowsTyped' /\ Salvaged(d, n)
<1>1. /\ RowsTyped /\ RowsDiffer /\ TakeoverRight
      /\ \A t \in Trees : TreeAt(t)
  BY DEF RecoveryRight
<1>2. d \in Jobs /\ n \in Jobs /\ d # n /\ d # 0 /\ n # 0
  BY <1>1, JobsAreNumbers DEF TakeoverFinish, TakeoverRight
<1>3. PICK t : t = TreeOf(d)
  OBVIOUS
<1>4. PICK b \in BOOLEAN :
        b = (/\ rec[d].class \in {"local_uncommitted", "local_committed"}
             /\ Owned(t))
  OBVIOUS
<1>5. /\ rx' = Idle /\ task' = [task EXCEPT !.job = n]
      /\ job' = [job EXCEPT ![d].status = "superseded"]
      /\ ckpt' = [ckpt EXCEPT ![n] = @ \cup SalvagedCkpt(d)]
      /\ work' = [work EXCEPT ![n] = IF rec[d].hadWork THEN work[d] ELSE @]
      /\ tree' = IF b THEN [tree EXCEPT ![t].row = n, ![t].marker = n]
                 ELSE tree
      /\ rec' = [rec EXCEPT ![d].status = "completed"]
      /\ pc' = pc /\ remote' = remote /\ passed' = passed
      /\ governed' = governed /\ adv' = adv /\ faults' = faults
  <2>1. SalvageHolds(d, n)
    BY SalvageAlwaysHolds DEF TakeoverFinish
  <2> QED
    BY <1>3, <1>4, <2>1 DEF TakeoverFinish
<1>6. /\ task'.status = task.status /\ task'.attempts = task.attempts
      /\ task'.job = n
      /\ task' = [status |-> task'.status, attempts |-> task'.attempts,
                  job |-> task'.job]
  BY <1>1, <1>5 DEF RowsTyped
<1>7. /\ job' \in [Jobs -> JobRows]
      /\ \A k \in Jobs \ {d} : job'[k] = job[k]
      /\ job'[d].status = "superseded" /\ job'[d].cancel = job[d].cancel
  <2>1. /\ job' = [k \in Jobs |-> job'[k]]
        /\ \A k \in Jobs \ {d} : job'[k] = job[k]
        /\ job'[d] = [job[d] EXCEPT !.status = "superseded"]
        /\ job[d] \in JobRows /\ \A k \in Jobs : job[k] \in JobRows
    BY <1>1, <1>2, <1>5 DEF RowsTyped
  <2>2. /\ job'[d] \in JobRows /\ job'[d].status = "superseded"
        /\ job'[d].cancel = job[d].cancel
    BY <2>1 DEF JobRows
  <2> QED
    BY <2>1, <2>2
<1>8. /\ rec' \in [Jobs -> RecoveryRows]
      /\ \A k \in Jobs : /\ rec'[k].class = rec[k].class
                         /\ rec'[k].hadWork = rec[k].hadWork
                         /\ rec'[k].sha = rec[k].sha
  <2>1. /\ rec' = [k \in Jobs |-> rec'[k]]
        /\ \A k \in Jobs \ {d} : rec'[k] = rec[k]
        /\ rec'[d] = [rec[d] EXCEPT !.status = "completed"]
        /\ rec[d] \in RecoveryRows /\ \A k \in Jobs : rec[k] \in RecoveryRows
    BY <1>1, <1>2, <1>5 DEF RowsTyped
  <2>2. /\ rec'[d] \in RecoveryRows /\ rec'[d].class = rec[d].class
        /\ rec'[d].hadWork = rec[d].hadWork /\ rec'[d].sha = rec[d].sha
    BY <2>1 DEF RecoveryRows
  <2> QED
    BY <2>1, <2>2
<1>9. /\ ckpt' \in [Jobs -> CheckpointRows]
      /\ ckpt'[n] = ckpt[n] \cup SalvagedCkpt(d)
      /\ \A k \in Jobs \ {n} : ckpt'[k] = ckpt[k]
  <2>1. SalvagedCkpt(d) \in CheckpointRows
    BY DEF SalvagedCkpt, CheckpointRows
  <2>2. PICK s : s = SalvagedCkpt(d)
    OBVIOUS
  <2>3. /\ ckpt' = [k \in Jobs |-> ckpt'[k]]
        /\ \A k \in Jobs \ {n} : ckpt'[k] = ckpt[k]
        /\ ckpt'[n] = ckpt[n] \cup s /\ ckpt[n] \in CheckpointRows
        /\ \A k \in Jobs : ckpt[k] \in CheckpointRows
    BY <1>1, <1>2, <1>5, <2>2 DEF RowsTyped
  <2>4. ckpt'[n] \in CheckpointRows
    BY <2>1, <2>2, <2>3 DEF CheckpointRows
  <2> QED
    BY <2>2, <2>3, <2>4
<1>10. /\ work' \in [Jobs -> Trees \cup {0}]
       /\ work'[n] = IF rec[d].hadWork THEN work[d] ELSE work[n]
       /\ \A k \in Jobs \ {n} : work'[k] = work[k]
  BY <1>1, <1>2, <1>5 DEF RowsTyped
<1>11. tree' \in [Trees -> WorktreeRows] /\ Rebound(d, n)
  <2>1. CASE b
    <3>1. t \in Trees /\ tree[t].row = d
      BY <1>1, <1>3, <1>4, <2>1, TreeOfRow DEF Owned
    <3>2. /\ tree' = [u \in Trees |-> tree'[u]]
          /\ \A u \in Trees \ {t} : tree'[u] = tree[u]
          /\ tree'[t] = [tree[t] EXCEPT !.row = n, !.marker = n]
          /\ tree[t] \in WorktreeRows /\ \A u \in Trees : tree[u] \in WorktreeRows
      BY <1>1, <1>5, <2>1, <3>1 DEF RowsTyped
    <3>3. /\ tree'[t] \in WorktreeRows
          /\ tree'[t].row = n /\ tree'[t].marker = n
          /\ tree'[t].disk = tree[t].disk
          /\ tree'[t].recorded = tree[t].recorded
      BY <1>2, <3>2 DEF WorktreeRows
    <3>4. tree' \in [Trees -> WorktreeRows]
      BY <3>2, <3>3
    <3> QED
      BY <3>1, <3>2, <3>3, <3>4 DEF Rebound
  <2>2. CASE ~b
    <3>1. tree' = tree
      BY <1>5, <2>2
    <3>2. ASSUME rec[d].class \in {"local_uncommitted", "local_committed"},
                 NEW u \in Trees, tree[u].row = d
          PROVE  FALSE
      <4>1. t = u
        BY <1>1, <1>3, <3>2, TreeOfRow
      <4>2. Owned(u)
        BY <1>1, <1>2, <3>2, OwnedTree
      <4> QED
        BY <1>4, <2>2, <3>2, <4>1, <4>2
    <3> QED
      BY <1>1, <3>1, <3>2 DEF Rebound, RowsTyped
  <2> QED
    BY <2>1, <2>2
<1>12. RowsTyped'
  <2>1. rx' \in [pc : {"idle", "locked", "salvage"}, dead : Jobs \cup {0},
                 new : Jobs \cup {0}]
    BY <1>5 DEF Idle
  <2> QED
    BY <1>1, <1>2, <1>5, <1>6, <1>7, <1>8, <1>9, <1>10, <1>11, <2>1
    DEF RowsTyped
<1>13. rx'.pc = "idle"
  BY <1>5 DEF Idle
<1> QED
  BY <1>5, <1>6, <1>7, <1>8, <1>9, <1>10, <1>11, <1>12, <1>13 DEF Salvaged

\* The takeover done, the new job owns what the dead one left behind.
LEMMA TakeoverFinishRight ==
  ASSUME RecoveryRight, TakeoverFinish
  PROVE  RecoveryRight'
<1>1. /\ RowsTyped /\ AttemptsRight /\ RowsDiffer /\ RemoteRight /\ TakeoverRight
      /\ \A t \in Trees : TreeAt(t)
      /\ \A k \in Jobs : PushedAt(k) /\ RunnerAt(k) /\ RecordAt(k) /\ ActiveAt(k)
  BY DEF RecoveryRight
<1>2. rx.pc = "salvage"
  BY DEF TakeoverFinish
<1>3. PICK d \in Jobs : d = rx.dead /\ d = task.job
  BY <1>1, <1>2 DEF TakeoverRight, RowsTyped
<1>4. PICK n \in Jobs : n = rx.new
  BY <1>1, <1>2 DEF TakeoverRight, RowsTyped
<1>5. /\ d # n /\ d # 0 /\ n # 0 /\ task.status = "running"
      /\ job[n].status = "queued" /\ pc[d] # "incapable" /\ MayTakeOver(d)
      /\ job[d].status \notin {"none", "queued", "superseded"}
  BY <1>1, <1>2, <1>3, <1>4, JobsAreNumbers DEF TakeoverRight, Supersedable
<1>6. RowsTyped' /\ Salvaged(d, n)
  BY <1>3, <1>4, FinishSalvages
<1>7. /\ pc[n] = "none" /\ ckpt[n] = {} /\ \A t \in Trees : tree[t].row # n
  BY <1>1, <1>2, <1>4, <1>5 DEF RunnerAt, TreeAt
<1>8. /\ \A u \in Trees : tree'[u].recorded = tree[u].recorded
      /\ \A u \in Trees, k \in Jobs \ {d, n} :
           tree'[u].row = k <=> tree[u].row = k
  BY <1>6, <1>5, <1>7 DEF Salvaged, Rebound
<1>9. /\ \A k \in Jobs \ {d} : job'[k] = job[k]
      /\ job'[d].status = "superseded" /\ job'[d].cancel = job[d].cancel
      /\ rx'.pc = "idle" /\ pc' = pc /\ remote' = remote /\ passed' = passed
      /\ task'.job = n /\ task'.status = "running"
      /\ task'.attempts = task.attempts
  BY <1>5, <1>6 DEF Salvaged
<1>10. AttemptsRight'
  <2>1. \A k \in Jobs : job[k].status = "none" <=> job'[k].status = "none"
    BY <1>5, <1>9
  <2> QED
    BY <1>1, <1>9, <2>1, FreshKept
<1>11. RemoteRight' /\ TakeoverRight' /\ CompletedRight'
  BY <1>1, <1>8, <1>9 DEF RemoteRight, TakeoverRight, CompletedRight, RowsTyped
<1>12. RowsDiffer'
  <2>1. CASE tree' = tree
    BY <1>1, <2>1 DEF RowsDiffer
  <2>2. CASE tree' # tree
    <3>1. PICK t \in Trees :
            /\ tree[t].row = d /\ tree'[t].row = n
            /\ \A u \in Trees \ {t} : tree'[u] = tree[u]
      BY <1>6, <2>2 DEF Salvaged, Rebound
    <3> QED
      BY <1>1, <1>7, <3>1 DEF RowsDiffer
  <2> QED
    BY <2>1, <2>2
<1>13. ASSUME NEW t \in Trees
       PROVE  TreeAt(t)'
  <2>1. TreeAt(t) /\ t \in Jobs
    BY <1>1, JobsAreNumbers
  <2>2. tree[t].row # 0 => tree[t].row \in Jobs
    BY <1>1 DEF RowsTyped, WorktreeRows
  <2>3. \A k \in Jobs : /\ job[k].status # "none" => job'[k].status # "none"
                        /\ job[k].status = "superseded"
                             => job'[k].status = "superseded"
    BY <1>5, <1>9
  <2>4. CASE tree'[t] = tree[t]
    BY <1>9, <2>1, <2>2, <2>3, <2>4 DEF TreeAt
  <2>5. CASE tree'[t] # tree[t]
    <3>1. /\ tree[t].row = d /\ tree'[t].row = n /\ tree'[t].marker = n
          /\ tree'[t].disk = tree[t].disk
          /\ tree'[t].recorded = tree[t].recorded
      BY <1>6, <2>5 DEF Salvaged, Rebound
    <3>2. job'[t].status = "superseded"
      BY <1>5, <1>9, <2>1, <2>3, <3>1 DEF TreeAt
    <3>3. job'[n].status # "none"
      BY <1>5, <1>9
    <3> QED
      BY <1>5, <1>9, <2>1, <3>1, <3>2, <3>3 DEF TreeAt
  <2> QED
    BY <2>4, <2>5
<1>14. RecordAt(d) /\ PushedAt(d) /\ RunnerAt(d)
  BY <1>1
<1>15. /\ rec[d].class = "pushed" => remote # 0
       /\ rec[d].hadWork => /\ "work" \in ckpt[d]
                            /\ rec[d].class \in {"pushed", "local_committed"}
  BY <1>5, <1>14 DEF RecordAt, MayTakeOver, AutoSalvageable
<1>16. PushedAt(n)' /\ RunnerAt(n)'
  <2>1. /\ "finalized" \in ckpt'[n] => rec[d].class = "pushed"
        /\ "work" \in ckpt'[n] => rec[d].hadWork
        /\ rec[d].class = "pushed" => "finalized" \in ckpt'[n]
    BY <1>6, <1>7 DEF Salvaged, SalvagedCkpt
  <2>2. work'[n] = IF rec[d].hadWork THEN work[d] ELSE work[n]
    BY <1>6 DEF Salvaged
  <2>3. PushedAt(n)'
    <3>1. PushedAt(n) /\ work[n] \in Trees \cup {0} /\ work[d] \in Trees \cup {0}
      BY <1>1 DEF RowsTyped
    <3> QED
      BY <1>7, <1>8, <1>9, <1>14, <1>15, <2>1, <2>2, <3>1 DEF PushedAt
  <2>4. ASSUME "work" \in ckpt'[n]
        PROVE  /\ \A u \in Trees : tree'[u].row = n => tree'[u].recorded
               /\ (\A u \in Trees : tree'[u].row # n) => "finalized" \in ckpt'[n]
    <3>1. /\ rec[d].class \in {"pushed", "local_committed"}
          /\ "work" \in ckpt[d]
      BY <1>15, <2>1, <2>4
    <3>2. \A u \in Trees : tree[u].row = d => tree[u].recorded
      BY <1>5, <1>14, <3>1 DEF RunnerAt
    <3>3. \A u \in Trees : tree'[u].row = n => tree[u].row = d
      BY <1>6, <1>7 DEF Salvaged, Rebound
    <3>4. ASSUME rec[d].class = "local_committed"
          PROVE  \E u \in Trees : tree'[u].row = n
      <4>1. \E u \in Trees : tree[u].row = d
        BY <1>5, <1>14, <3>4 DEF RecordAt
      <4> QED
        BY <1>6, <3>4, <4>1 DEF Salvaged, Rebound
    <3> QED
      BY <1>8, <2>1, <3>1, <3>2, <3>3, <3>4
  <2>5. job'[n].status = "queued" /\ pc'[n] = "none"
    BY <1>5, <1>7, <1>9
  <2> QED
    BY <1>9, <2>3, <2>4, <2>5 DEF RunnerAt
<1>17. PushedAt(d)' /\ RunnerAt(d)'
  <2>1. ckpt'[d] = ckpt[d] /\ work'[d] = work[d]
    BY <1>5, <1>6 DEF Salvaged
  <2>2. PushedAt(d)'
    BY <1>1, <1>8, <1>9, <1>14, <2>1 DEF PushedAt, RowsTyped
  <2>3. \A u \in Trees : tree'[u].row = d => tree[u].row = d
    BY <1>5, <1>6 DEF Salvaged, Rebound
  <2> QED
    BY <1>5, <1>8, <1>9, <1>14, <2>1, <2>2, <2>3 DEF RunnerAt
<1>18. ASSUME NEW k \in Jobs, k # d, k # n
       PROVE  PushedAt(k)' /\ RunnerAt(k)'
  <2>1. /\ ckpt'[k] = ckpt[k] /\ work'[k] = work[k] /\ job'[k] = job[k]
    BY <1>6, <1>18 DEF Salvaged
  <2>2. \A u \in Trees : tree'[u].row = k <=> tree[u].row = k
    BY <1>8, <1>18
  <2>3. PushedAt(k) /\ RunnerAt(k)
    BY <1>1
  <2>4. PushedAt(k)'
    BY <1>1, <1>8, <1>9, <2>1, <2>3 DEF PushedAt, RowsTyped
  <2>5. RunnerAt(k)'
    BY <1>4, <1>8, <1>9, <1>18, <2>1, <2>2, <2>3 DEF RunnerAt
  <2> QED
    BY <2>4, <2>5
<1>19. ASSUME NEW k \in Jobs
       PROVE  RecordAt(k)' /\ ActiveAt(k)'
  <2>1. RecordAt(k) /\ ActiveAt(k)
    BY <1>1
  <2>2. /\ rec'[k].class = rec[k].class /\ rec'[k].hadWork = rec[k].hadWork
        /\ rec'[k].sha = rec[k].sha
        /\ ckpt[k] \subseteq ckpt'[k]
    BY <1>6 DEF Salvaged
  <2>3. RecordAt(k)'
    <3>1. CASE k = d
      BY <1>9, <2>1, <2>2, <3>1 DEF RecordAt
    <3>2. CASE k = n
      <4>1. job'[n] = job[n]
        BY <1>5, <1>9
      <4> QED
        BY <1>7, <1>9, <2>1, <2>2, <3>2, <4>1 DEF RecordAt
    <3>3. CASE k # d /\ k # n
      <4>1. job'[k] = job[k]
              /\ \A u \in Trees : tree'[u].row = k <=> tree[u].row = k
        BY <1>8, <1>9, <3>3
      <4> QED
        BY <1>9, <2>1, <2>2, <4>1 DEF RecordAt
    <3> QED
      BY <3>1, <3>2, <3>3
  <2>4. ActiveAt(k)'
    BY <1>2, <1>3, <1>4, <1>5, <1>9, <2>1 DEF ActiveAt
  <2> QED
    BY <2>3, <2>4
<1> QED
  BY <1>6, <1>10, <1>11, <1>12, <1>13, <1>16, <1>17, <1>18, <1>19
  DEF RecoveryRight

-----------------------------------------------------------------------------
(* The theorems                                                            *)

LEMMA InitRight == Init => RecoveryRight
<1> SUFFICES ASSUME Init PROVE RecoveryRight
  OBVIOUS
<1>1. RowsTyped
  <2>1. 0 \in 0..MaxFaults
    BY MaxFaultsAssumption
  <2> QED
    BY <2>1
    DEF Init, RowsTyped, JobRows, CheckpointRows, WorktreeRows, RecoveryRows,
        NoTree, NoRecord, Idle
<1>2. AttemptsRight
  <2>1. Jobs \ Fresh = {}
    BY DEF Init, Fresh
  <2> QED
    BY <2>1, FS_EmptySet DEF AttemptsRight, Init
<1>3. RowsDiffer /\ RemoteRight /\ TakeoverRight /\ CompletedRight
  BY DEF Init, RowsDiffer, RemoteRight, TakeoverRight, CompletedRight, NoTree,
         Idle
<1>4. \A t \in Trees : TreeAt(t)
  BY JobsAreNumbers DEF Init, TreeAt, NoTree
<1>5. ASSUME NEW j \in Jobs
      PROVE  PushedAt(j) /\ RunnerAt(j) /\ RecordAt(j) /\ ActiveAt(j)
  BY JobsAreNumbers
  DEF Init, PushedAt, RunnerAt, RecordAt, ActiveAt, NoTree, NoRecord, Idle
<1> QED
  BY <1>1, <1>2, <1>3, <1>4, <1>5 DEF RecoveryRight

LEMMA NextRight ==
  ASSUME ~Disturb, RecoveryRight, [Next]_vars
  PROVE  RecoveryRight'
<1>1. CASE RecoveryStep
  BY <1>1, DetectRight, InspectRight, TakeoverLockRight, TakeoverDeclineRight,
     TakeoverDispatchRight, TakeoverFinishRight DEF RecoveryStep
<1>2. CASE Govern \/ CancelTask
  BY <1>2, AdvanceReadRight, CancelTaskRight
<1>3. CASE Calm /\ (AdvanceRead \/ AdvanceDispatch \/ RetryTask \/ InspectUnsafe)
  <2>1. rx.pc = "idle"
    BY <1>3 DEF Calm
  <2> QED
    BY <1>3, <2>1, AdvanceReadRight, AdvanceDispatchRight, RetryTaskRight,
       DetectRight
<1>4. CASE Calm /\ \E j \in Jobs :
             \/ Claim(j) \/ CapabilityLost(j) \/ RunnerStep(j) \/ Crash(j)
             \/ Kill(j) \/ KilledInCommit(j) \/ Lapse(j) \/ Expire(j)
  <2>1. rx.pc = "idle"
    BY <1>4 DEF Calm
  <2>2. PICK j \in Jobs :
          \/ Claim(j) \/ CapabilityLost(j) \/ RunnerStep(j) \/ Crash(j)
          \/ Kill(j) \/ KilledInCommit(j) \/ Lapse(j) \/ Expire(j)
    BY <1>4
  <2>3. CASE RunnerStep(j)
    <3>1. CASE \/ FinalizeIncapable(j) \/ LoseLease(j) \/ Start(j)
               \/ PrepareTree(j) \/ AskAgent(j) \/ CommitEdit(j)
      BY <2>1, <3>1, FinalizeIncapableRight, LoseLeaseRight, StartRight,
         PrepareTreeRight, AskAgentRight, CommitEditRight
    <3>2. CASE \/ CheckpointWork(j) \/ Verify(j) \/ BeforePush(j) \/ Push(j)
               \/ CheckpointPush(j)
      BY <2>1, <3>2, CheckpointWorkRight, VerifyRight, BeforePushRight,
         PushRight, CheckpointPushRight
    <3>3. CASE \/ Finish(j) \/ FinishUnverified(j) \/ FinishError(j)
               \/ FinishCancelled(j)
      BY <2>1, <3>3, FinishRight, FailedOutcome
    <3> QED
      BY <2>3, <3>1, <3>2, <3>3 DEF RunnerStep
  <2>4. CASE \/ Claim(j) \/ CapabilityLost(j) \/ Crash(j) \/ Kill(j)
             \/ KilledInCommit(j) \/ Lapse(j) \/ Expire(j)
    BY <2>1, <2>4, ClaimRight, CapabilityLostRight, CrashRight, KillRight,
       KilledInCommitRight, LapseRight, ExpireRight
  <2> QED
    BY <2>2, <2>3, <2>4
<1>5. CASE \E j \in Jobs : Approve(j)
  BY <1>5, ApproveRight
<1>6. CASE UNCHANGED vars
  <2>1. /\ task' = task /\ job' = job /\ pc' = pc /\ ckpt' = ckpt /\ work' = work
        /\ tree' = tree /\ remote' = remote /\ passed' = passed /\ rec' = rec
        /\ rx' = rx /\ governed' = governed /\ adv' = adv /\ faults' = faults
    BY <1>6 DEF vars, gitVars, recVars
  <2>2. RowsTyped' /\ TakeoverRight' /\ \A k \in Jobs : RecordAt(k)'
    BY <2>1
    DEF RecoveryRight, RowsTyped, TakeoverRight, RecordAt, Supersedable,
        MayTakeOver
  <2> QED
    BY <2>1, <2>2, LookFrame
<1> QED
  BY <1>1, <1>2, <1>3, <1>4, <1>5, <1>6 DEF Next

\* The invariant says what the run checks.
LEMMA RightIsRight == RecoveryRight => RecoveryInv
<1> SUFFICES ASSUME RecoveryRight PROVE RecoveryInv
  OBVIOUS
<1>1. TypeOK
  BY DEF RecoveryRight, RowsTyped, AttemptsRight, TypeOK
<1>2. CompletedIsTrue /\ CancelWins
  BY DEF RecoveryRight, CompletedRight, RemoteRight, CompletedIsTrue, CancelWins
<1>3. OneLiveJob
  <2>1. \E x : LiveJobs \subseteq {x}
    <3>1. CASE rx.pc = "salvage"
      <4>1. /\ rx.dead = task.job /\ Supersedable(rx.dead)
        BY <3>1 DEF RecoveryRight, TakeoverRight
      <4>2. \A j \in LiveJobs : j = rx.new
        BY <4>1 DEF RecoveryRight, ActiveAt, LiveJobs, Supersedable
      <4> QED
        BY <4>2
    <3>2. CASE rx.pc # "salvage"
      <4>1. \A j \in LiveJobs : j = task.job
        BY <3>2 DEF RecoveryRight, ActiveAt, LiveJobs
      <4> QED
        BY <4>1
    <3> QED
      BY <3>1, <3>2
  <2>2. PICK x : LiveJobs \subseteq {x}
    BY <2>1
  <2>3. IsFiniteSet({x}) /\ Cardinality({x}) = 1
    BY FS_Singleton
  <2>4. Cardinality(LiveJobs) <= 1
    BY <2>2, <2>3, FS_Subset
  <2> QED
    BY <2>4 DEF OneLiveJob
<1> QED
  BY <1>1, <1>2, <1>3 DEF RecoveryInv

\* Whichever attempts died and whatever was salvaged from them, at most one job
\* works under authority, and a completed task has verified work on GitHub and no
\* cancel that came before (recovery_takeover.py, execution_job.py:829-837).
THEOREM OutcomesAreTrue ==
  ASSUME ~Disturb
  PROVE  Spec => []RecoveryInv
<1>1. Init => RecoveryRight
  BY InitRight
<1>2. RecoveryRight /\ [Next]_vars => RecoveryRight'
  BY NextRight
<1>3. RecoveryRight => RecoveryInv
  BY RightIsRight
<1> QED
  BY <1>1, <1>2, <1>3, PTL DEF Spec

\* A goal row locked by a takeover gets no envelope until the new job exists, also
\* when the takeover is disturbed (recovery_takeover.py:125-130).
LockedGoal ==
  /\ rx = [pc |-> rx.pc, dead |-> rx.dead, new |-> rx.new]
  /\ rx.pc = "locked" => ~governed

LEMMA LockedKept == LockedGoal /\ [Next]_vars => LockedGoal'
<1> SUFFICES ASSUME LockedGoal, [Next]_vars PROVE LockedGoal'
  OBVIOUS
<1>1. CASE rx' = rx /\ governed' = governed
  BY <1>1 DEF LockedGoal
<1>2. CASE Govern
  BY <1>2 DEF Govern, LockedGoal
<1>3. CASE TakeoverLock
  BY <1>3 DEF TakeoverLock, LockedGoal
<1>4. CASE TakeoverDispatch
  <2>1. PICK n : n = NewJob
    OBVIOUS
  <2>2. \/ rx' = [rx EXCEPT !.pc = "salvage", !.new = n]
        \/ rx' = [pc |-> "idle", dead |-> 0, new |-> 0]
    BY <1>4, <2>1 DEF TakeoverDispatch, Idle
  <2>3. CASE rx' = [rx EXCEPT !.pc = "salvage", !.new = n]
    <3>1. rx' = [pc |-> "salvage", dead |-> rx.dead, new |-> n]
      BY <2>3 DEF LockedGoal
    <3> QED
      BY <3>1 DEF LockedGoal
  <2>4. CASE rx' = [pc |-> "idle", dead |-> 0, new |-> 0]
    BY <2>4 DEF LockedGoal
  <2> QED
    BY <2>2, <2>3, <2>4
<1>5. CASE TakeoverFinish
  BY <1>5 DEF TakeoverFinish, LockedGoal, Idle
<1>6. CASE \/ Detect \/ Inspect \/ TakeoverDecline \/ AdvanceRead
           \/ AdvanceDispatch \/ RetryTask \/ InspectUnsafe \/ CancelTask
           \/ UNCHANGED vars \/ \E j \in Jobs : Approve(j)
  BY <1>1, <1>6
  DEF Detect, Inspect, TakeoverDecline, AdvanceRead, AdvanceDispatch, RetryTask,
      InspectUnsafe, CancelTask, Approve, vars, recVars
<1>7. ASSUME NEW j \in Jobs,
             \/ Claim(j) \/ CapabilityLost(j) \/ RunnerStep(j) \/ Crash(j)
             \/ Kill(j) \/ KilledInCommit(j) \/ Lapse(j) \/ Expire(j)
      PROVE  LockedGoal'
  BY <1>1, <1>7
  DEF Claim, CapabilityLost, RunnerStep, Crash, Kill, KilledInCommit, Lapse,
      Expire, FinalizeIncapable, LoseLease, Start, PrepareTree, AskAgent,
      CommitEdit, CheckpointWork, Verify, BeforePush, Push, CheckpointPush,
      Finish, FinishUnverified, FinishError, FinishCancelled, Conclude, recVars
<1> QED
  BY <1>2, <1>3, <1>4, <1>5, <1>6, <1>7 DEF Next, RecoveryStep

\* Whatever disturbs the takeover, recovery never hands a governed goal to the
\* executor that does not look at envelopes (recovery_takeover.py:125-130).
THEOREM GovernedStays == Spec => GovernedNeverTakenOver
<1>1. Init => LockedGoal
  BY DEF Init, LockedGoal, Idle
<1>2. LockedGoal => [rx.pc = "locked" /\ rx'.pc = "salvage" => ~governed]_vars
  BY DEF LockedGoal
<1> QED
  BY <1>1, <1>2, LockedKept, PTL DEF Spec, GovernedNeverTakenOver

\* No step undoes a completion: only the outcome of the task's own job, a takeover
\* or a dispatch writes the task, and none of them finds it completed.
LEMMA CompletedKept ==
  ASSUME ~Disturb, RecoveryRight, [Next]_vars, task.status = "completed"
  PROVE  task' = task
<1>1. /\ TakeoverRight /\ \A j \in Jobs : ActiveAt(j)
  BY DEF RecoveryRight
<1>2. rx.pc = "idle"
  BY <1>1 DEF TakeoverRight
<1>3. CASE RecoveryStep
  BY <1>2, <1>3
  DEF RecoveryStep, Detect, Inspect, TakeoverLock, TakeoverDecline, Recoverable,
      TakeoverDispatch, TakeoverFinish
<1>4. CASE Govern \/ CancelTask \/ AdvanceRead \/ AdvanceDispatch \/ RetryTask
             \/ InspectUnsafe \/ UNCHANGED vars \/ \E j \in Jobs : Approve(j)
  BY <1>4
  DEF Govern, CancelTask, AdvanceRead, AdvanceDispatch, RetryTask, InspectUnsafe,
      Approve, vars
<1>5. ASSUME NEW j \in Jobs,
             Finish(j) \/ FinishUnverified(j) \/ FinishError(j)
               \/ FinishCancelled(j)
      PROVE  FALSE
  BY <1>1, <1>5
  DEF Finish, FinishUnverified, FinishError, FinishCancelled, Conclude, Holds,
      ActiveAt
<1>6. ASSUME NEW j \in Jobs,
             \/ Claim(j) \/ CapabilityLost(j) \/ RunnerStep(j) \/ Crash(j)
             \/ Kill(j) \/ KilledInCommit(j) \/ Lapse(j) \/ Expire(j)
      PROVE  task' = task
  BY <1>5, <1>6
  DEF Claim, CapabilityLost, RunnerStep, Crash, Kill, KilledInCommit, Lapse,
      Expire, FinalizeIncapable, LoseLease, Start, PrepareTree, AskAgent,
      CommitEdit, CheckpointWork, Verify, BeforePush, Push, CheckpointPush
<1> QED
  BY <1>3, <1>4, <1>6 DEF Next

\* A takeover that dispatches of a job whose own work is visible was approved.
LEMMA VisibleApproved ==
  ASSUME RecoveryRight, NEW d \in Jobs, rx.pc = "locked", rx.dead = d,
         rec[d].hadWork, rec[d].sha # 0
  PROVE  rec[d].approved
<1>1. RecordAt(d) /\ MayTakeOver(d)
  BY DEF RecoveryRight, TakeoverRight
<1> QED
  BY <1>1 DEF RecordAt, MayTakeOver, AutoSalvageable

\* No step undoes a completion, takes over a governed goal, or takes over visible
\* work without approval (recovery_approval.py:56-66, execution_job.py:757-762).
THEOREM StepsKeepFaith ==
  ASSUME ~Disturb
  PROVE  Spec => RecoverySteps
<1>1. Init => RecoveryRight
  BY InitRight
<1>2. RecoveryRight /\ [Next]_vars => RecoveryRight'
  BY NextRight
<1>3. RecoveryRight /\ [Next]_vars
        => [task.status = "completed" => task' = task]_vars
  BY CompletedKept
<1>4. RecoveryRight =>
        [\A d \in Jobs :
           /\ rx.pc = "locked" /\ rx.dead = d /\ rx'.pc = "salvage"
           /\ rec[d].hadWork /\ rec[d].sha # 0 /\ rec[d].sha = work[d]
           => rec[d].approved]_vars
  BY VisibleApproved
<1> QED
  BY <1>1, <1>2, <1>3, <1>4, GovernedStays, PTL
  DEF Spec, RecoverySteps, CompletedIsFinal, VisibleNeedsApproval
=============================================================================
