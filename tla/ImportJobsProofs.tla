-------------------------- MODULE ImportJobsProofs --------------------------
(***************************************************************************)
(* Proofs about ImportJobs, for any number of uploads, files, workers and  *)
(* faults: its types, and, while no lock of a live worker is lost and no   *)
(* two different packages share a file, that one Redis lock per package is *)
(* enough to keep one live copy of every file, to chunk its text once, and *)
(* to complete a job only when each of its files is settled.               *)
(***************************************************************************)
EXTENDS ImportJobs, SequenceTheorems, TLAPS

\* A process that is not summing up its run is at a file of its package.
InPackage ==
  \A p \in Procs : run[p].pc # "rollup" => run[p].pos \in DOMAIN Entries[run[p].job]

TypeInv == TypeOK /\ InPackage

\* The local states of a process while there are n documents.
LocalStates(n) == [pc : PCs, job : Jobs, mem : Rows, pos : Nat, doc : 0..n,
                   outcomes : SUBSET Outcomes]

Counters == {"crashes", "lapses", "errors", "outages", "purges"}

\* A flush of typed rows is a typed row.
LEMMA FlushTyped ==
  ASSUME NEW row \in Rows, NEW mem \in Rows, NEW new \in Rows
  PROVE  Flush(row, mem, new) \in Rows
  BY DEF Flush, Rows

\* What ImportConstants says of a package.
LEMMA PackageShape ==
  ASSUME NEW j \in Jobs
  PROVE  /\ Len(Entries[j]) \in Nat /\ Len(Entries[j]) > 0
         /\ DOMAIN Entries[j] = 1 .. Len(Entries[j])
<1>1. /\ Len(Entries[j]) \in Nat \ {0}
      /\ DOMAIN Entries[j] = 1 .. Len(Entries[j])
  BY ImportConstants, Zenon
<1>2. QED
  BY <1>1, SMT

LEMMA IdleTyped ==
  /\ IdleRun \in [pc : PCs, job : Jobs, mem : Rows, pos : Nat, doc : {0},
                  outcomes : SUBSET Outcomes]
  /\ IdleRun.pc = "idle" /\ IdleRun.doc = 0
  /\ IdleRun.pos \in DOMAIN Entries[IdleRun.job]
  /\ NewRow \in Rows
<1>1. NewRow \in Rows
  BY DEF NewRow, Rows, JobStatuses
<1>2. (CHOOSE j \in Jobs : TRUE) \in Jobs
  BY ImportConstants
<1>3. IdleRun.job \in Jobs /\ IdleRun.pos = 1
  BY <1>2 DEF IdleRun
<1>4. IdleRun.pos \in DOMAIN Entries[IdleRun.job]
  BY <1>3, PackageShape, 1 \in Nat
<1>5. IdleRun \in [pc : PCs, job : Jobs, mem : Rows, pos : Nat, doc : {0},
                   outcomes : SUBSET Outcomes]
  BY <1>1, <1>2 DEF IdleRun, PCs
<1>6. QED
  BY <1>1, <1>4, <1>5 DEF IdleRun

LEMMA InitTyped == Init => TypeInv
<1> SUFFICES ASSUME Init PROVE TypeInv
  OBVIOUS
<1>1. jobs \in [Jobs -> Rows]
  BY IdleTyped DEF Init
<1>2. docs \in Seq(Documents) /\ Len(docs) = 0
  BY DEF Init
<1>3. lock \in [Packages -> Procs \cup {"free", "dead"}] /\ provider \in BOOLEAN
  BY DEF Init
<1>4. run \in [Procs -> [pc : PCs, job : Jobs, mem : Rows, pos : Nat,
                         doc : 0..Len(docs), outcomes : SUBSET Outcomes]]
  BY <1>2, IdleTyped DEF Init
<1>5. count \in [{"crashes", "lapses", "errors", "outages", "purges"} -> Nat]
  BY DEF Init
<1>6. InPackage
  BY IdleTyped DEF Init, InPackage
<1>7. QED
  BY <1>1, <1>2, <1>3, <1>4, <1>5, <1>6 DEF TypeInv, TypeOK

-----------------------------------------------------------------------------
(* The parts the actions are made of keep the types                        *)

LEMMA SetDocTyped ==
  ASSUME TypeOK, NEW d \in Nat, NEW s \in DocStatuses, SetDoc(d, s)
  PROVE  docs' \in Seq(Documents) /\ Len(docs') = Len(docs)
<1>0. CASE d \notin DOMAIN docs
  <2>1. docs \in [1..Len(docs) -> Documents] /\ DOMAIN docs = 1..Len(docs)
    BY DEF TypeOK
  <2>2. docs' = docs
    BY <1>0, <2>1 DEF SetDoc
  <2>3. QED
    BY <2>2 DEF TypeOK
<1> SUFFICES ASSUME d \in DOMAIN docs
             PROVE  docs' \in Seq(Documents) /\ Len(docs') = Len(docs)
  BY <1>0
<1>1. docs[d] \in Documents
  BY DEF TypeOK
<1>2. [docs[d] EXCEPT !.status = s] \in Documents
  BY <1>1 DEF Documents
<1>3. docs' = [docs EXCEPT ![d] = [docs[d] EXCEPT !.status = s]]
  BY DEF SetDoc
<1>4. QED
  BY <1>2, <1>3, ExceptSeq DEF TypeOK

LEMMA BumpTyped ==
  ASSUME TypeOK, NEW c \in Counters, Bump(c)
  PROVE  count' \in [Counters -> Nat]
  BY DEF TypeOK, Bump, Counters

LEMMA SaveTyped ==
  ASSUME TypeOK, NEW p \in Procs, NEW new \in Rows, Save(p, new)
  PROVE  jobs' \in [Jobs -> Rows]
<1>1. run[p].job \in Jobs /\ run[p].mem \in Rows
  BY DEF TypeOK
<1>2. Flush(jobs[run[p].job], run[p].mem, new) \in Rows
  BY <1>1, FlushTyped DEF TypeOK
<1>3. QED
  BY <1>1, <1>2 DEF TypeOK, Save

LEMMA StopTyped ==
  ASSUME TypeInv, NEW p \in Procs, Stop(p), UNCHANGED docs
  PROVE  run' \in [Procs -> LocalStates(Len(docs'))] /\ InPackage'
<1>1. run' = [run EXCEPT ![p] = IdleRun]
  BY DEF Stop
<1>2. IdleRun \in LocalStates(Len(docs)) /\ 0 \in 0..Len(docs)
  BY IdleTyped DEF LocalStates, TypeInv, TypeOK
<1>3. run' \in [Procs -> LocalStates(Len(docs))]
  BY <1>1, <1>2 DEF TypeInv, TypeOK, LocalStates
<1>4. InPackage'
  BY <1>1, IdleTyped DEF TypeInv, TypeOK, InPackage
<1>5. QED
  BY <1>3, <1>4

LEMMA UnlockTyped ==
  ASSUME TypeOK, NEW p \in Procs, Unlock(p)
  PROVE  lock' \in [Packages -> Procs \cup {"free", "dead"}]
  BY DEF TypeOK, Unlock

LEMMA GotoTyped ==
  ASSUME TypeInv, NEW p \in Procs, NEW pc \in PCs \ {"rollup"},
         NEW d \in 0..Len(docs'), Goto(p, pc, d), run[p].pc # "rollup",
         docs' \in Seq(Documents), Len(docs) <= Len(docs')
  PROVE  /\ jobs' \in [Jobs -> Rows]
         /\ run' \in [Procs -> LocalStates(Len(docs'))]
         /\ InPackage'
<1>1. \A q \in Procs : run[q] \in LocalStates(Len(docs'))
  BY DEF TypeInv, TypeOK, LocalStates
<1>2. run' \in [Procs -> LocalStates(Len(docs'))]
  BY <1>1 DEF Goto, LocalStates, TypeInv, TypeOK
<1>3. InPackage'
  BY DEF Goto, TypeInv, TypeOK, InPackage
<1>4. QED
  BY <1>2, <1>3 DEF Goto, TypeInv, TypeOK

LEMMA EndFileTyped ==
  ASSUME TypeInv, NEW p \in Procs, NEW o \in Outcomes, EndFile(p, o),
         run[p].pc # "rollup", Len(docs') = Len(docs)
  PROVE  /\ jobs' \in [Jobs -> Rows]
         /\ run' \in [Procs -> LocalStates(Len(docs'))]
         /\ InPackage'
<1> DEFINE j == run[p].job
           n == Len(Entries[j])
<1>1. j \in Jobs /\ n \in Nat /\ DOMAIN Entries[j] = 1..n
  BY PackageShape DEF TypeInv, TypeOK
<1>2. run[p].pos \in 1..n
  BY <1>1 DEF TypeInv, InPackage
<1>3. jobs' \in [Jobs -> Rows]
  <2>1. \A i \in Jobs : [jobs[i] EXCEPT !.lease = "live"] \in Rows
    <3> SUFFICES ASSUME NEW i \in Jobs
                 PROVE  [jobs[i] EXCEPT !.lease = "live"] \in Rows
      OBVIOUS
    <3>1. jobs[i] \in Rows
      BY DEF TypeInv, TypeOK
    <3>2. QED
      BY <3>1 DEF Rows
  <2>2. QED
    BY <1>1, <2>1 DEF EndFile, TypeInv, TypeOK
<1>4. run' \in [Procs -> LocalStates(Len(docs'))]
  <2> DEFINE pc == IF run[p].pos = Len(Package(p)) THEN "rollup" ELSE "file"
             local == [run[p] EXCEPT !.pc = pc, !.pos = @ + 1, !.doc = 0,
                                     !.outcomes = @ \cup {o}]
  <2>1. run \in [Procs -> LocalStates(Len(docs'))]
    BY DEF TypeInv, TypeOK, LocalStates
  <2>2. pc \in PCs /\ 0 \in 0..Len(docs')
    BY DEF PCs, TypeInv, TypeOK
  <2>3. local \in LocalStates(Len(docs'))
    <3> HIDE DEF pc
    <3>1. run[p] \in LocalStates(Len(docs'))
      BY <2>1
    <3>2. run[p].outcomes \cup {o} \in SUBSET Outcomes /\ run[p].pos + 1 \in Nat
      BY <3>1 DEF LocalStates
    <3>3. QED
      BY <2>2, <3>1, <3>2 DEF LocalStates
  <2>4. run' = [run EXCEPT ![p] = local]
    BY <2>1 DEF EndFile, LocalStates
  <2>5. QED
    BY <2>1, <2>3, <2>4
<1>5. InPackage'
  <2> SUFFICES ASSUME NEW q \in Procs, run'[q].pc # "rollup"
               PROVE  run'[q].pos \in DOMAIN Entries[run'[q].job]
    BY DEF InPackage
  <2>1. CASE q # p
    BY <2>1 DEF EndFile, TypeInv, TypeOK, InPackage
  <2>2. CASE q = p
    <3>1. run'[p].job = j /\ run'[p].pos = run[p].pos + 1 /\ run[p].pos # n
      BY <2>2 DEF EndFile, Package, TypeInv, TypeOK
    <3>2. QED
      BY <2>2, <3>1, <1>1, <1>2
  <2>3. QED
    BY <2>1, <2>2
<1>6. QED
  BY <1>3, <1>4, <1>5

-----------------------------------------------------------------------------
\* What is left to show when the parts of the next state are typed.
LEMMA Assemble ==
  ASSUME docs' \in Seq(Documents),
         jobs' \in [Jobs -> Rows],
         lock' \in [Packages -> Procs \cup {"free", "dead"}],
         provider' \in BOOLEAN,
         run' \in [Procs -> LocalStates(Len(docs'))],
         count' \in [Counters -> Nat],
         InPackage'
  PROVE  TypeInv'
  BY DEF TypeInv, TypeOK, LocalStates, Counters

\* The types of the current state, under the names the parts use.
LEMMA Typed ==
  ASSUME TypeInv
  PROVE  /\ docs \in Seq(Documents) /\ Len(docs) \in Nat
         /\ jobs \in [Jobs -> Rows]
         /\ lock \in [Packages -> Procs \cup {"free", "dead"}]
         /\ provider \in BOOLEAN
         /\ run \in [Procs -> LocalStates(Len(docs))]
         /\ count \in [Counters -> Nat]
         /\ InPackage
  BY DEF TypeInv, TypeOK, LocalStates, Counters

LEMMA PassesTyped ==
  ASSUME TypeInv, NEW p \in Procs, RequeueBlocked(p) \/ ReconcileOrphaned(p)
  PROVE  TypeInv'
<1>1. \A j \in Jobs : jobs[j] \in Rows
                     /\ [jobs[j] EXCEPT !.status = "pending"] \in Rows
  <2> SUFFICES ASSUME NEW j \in Jobs
               PROVE  jobs[j] \in Rows
                      /\ [jobs[j] EXCEPT !.status = "pending"] \in Rows
    OBVIOUS
  <2>1. jobs[j] \in Rows
    BY Typed
  <2>2. QED
    BY <2>1 DEF Rows, JobStatuses
<1>2. jobs' \in [Jobs -> Rows] /\ UNCHANGED <<docs, lock, provider, run, count>>
  BY <1>1 DEF RequeueBlocked, ReconcileOrphaned
<1>3. InPackage'
  BY <1>2, Typed DEF InPackage
<1>4. QED
  BY <1>2, <1>3, Typed, Assemble

LEMMA ClaimTyped ==
  ASSUME TypeInv, NEW p \in Procs, NEW j \in Jobs, Claim(p, j)
  PROVE  TypeInv'
<1>1. jobs[j] \in Rows /\ WorkerId[p] \in {WorkerId[q] : q \in Procs}
  BY Typed
<1>2. [jobs[j] EXCEPT !.status = "running", !.lockedBy = WorkerId[p],
                      !.lease = "live"] \in Rows
  BY <1>1 DEF Rows, JobStatuses
<1>3. jobs' \in [Jobs -> Rows] /\ UNCHANGED <<docs, lock, provider, count>>
  BY <1>2, Typed DEF Claim
<1> DEFINE local == [IdleRun EXCEPT !.pc = "load", !.job = j]
<1>4. local \in LocalStates(Len(docs)) /\ local.pos = 1 /\ local.job = j
  <2>1. IdleRun.pos = 1 /\ 0 \in 0..Len(docs)
    BY Typed DEF IdleRun
  <2>2. QED
    BY <2>1, IdleTyped DEF LocalStates, PCs
<1>5. run' = [run EXCEPT ![p] = local]
  BY DEF Claim
<1> HIDE DEF local
<1>6. run' \in [Procs -> LocalStates(Len(docs'))]
  BY <1>3, <1>4, <1>5, Typed
<1>7. 1 \in DOMAIN Entries[j]
  BY PackageShape
<1>8. InPackage'
  BY <1>4, <1>5, <1>7, Typed DEF InPackage
<1>9. QED
  BY <1>3, <1>6, <1>8, Typed, Assemble

LEMMA LoadTyped ==
  ASSUME TypeInv, NEW p \in Procs, Load(p) \/ EndBackoff(p)
  PROVE  TypeInv'
<1>1. run[p] \in LocalStates(Len(docs)) /\ jobs[run[p].job] \in Rows
  BY Typed DEF LocalStates
<1>2. UNCHANGED <<jobs, docs, lock, provider, count>>
  BY DEF Load, EndBackoff
<1>3. PICK mem \in Rows : run' = [run EXCEPT ![p].pc = "lock", ![p].mem = mem]
  <2>1. CASE Load(p)
    BY <1>1, <2>1 DEF Load
  <2>2. CASE EndBackoff(p)
    <3>1. run' = [run EXCEPT ![p].pc = "lock", ![p].mem = run[p].mem]
      BY <2>2, <1>1, Typed DEF EndBackoff, LocalStates
    <3>2. QED
      BY <3>1, <1>1 DEF LocalStates
  <2>3. QED
    BY <2>1, <2>2
<1>4. run' \in [Procs -> LocalStates(Len(docs'))]
  BY <1>1, <1>2, <1>3, Typed DEF LocalStates, PCs
<1>5. run[p].pc # "rollup"
  BY DEF Load, EndBackoff
<1>6. InPackage'
  BY <1>3, <1>5, Typed DEF InPackage, LocalStates
<1>7. QED
  BY <1>2, <1>4, <1>6, Typed, Assemble

LEMMA AcquireLockTyped ==
  ASSUME TypeInv, NEW p \in Procs, AcquireLock(p)
  PROVE  TypeInv'
<1>1. run[p] \in LocalStates(Len(docs)) /\ run[p].mem \in Rows
      /\ run[p].job \in Jobs /\ Package(p) \in Packages
  BY Typed DEF LocalStates, Package, Packages
<1>2. UNCHANGED <<docs, provider, count>> /\ run[p].pc # "rollup"
  BY DEF AcquireLock
<1>3. CASE lock[Package(p)] = "free"
  <2>1. /\ lock' = [lock EXCEPT ![Package(p)] = p]
        /\ run' = [run EXCEPT ![p].pc = "start"] /\ UNCHANGED jobs
    BY <1>3 DEF AcquireLock
  <2>2. run' \in [Procs -> LocalStates(Len(docs'))]
    BY <1>1, <1>2, <2>1, Typed DEF LocalStates, PCs
  <2>3. InPackage'
    BY <1>2, <2>1, Typed DEF InPackage, LocalStates
  <2>4. lock' \in [Packages -> Procs \cup {"free", "dead"}]
    BY <1>1, <2>1, Typed
  <2>5. QED
    BY <1>2, <2>1, <2>2, <2>3, <2>4, Typed, Assemble
<1>4. CASE lock[Package(p)] # "free"
  <2>1. /\ Save(p, [run[p].mem EXCEPT !.status = "failed"])
        /\ Stop(p) /\ UNCHANGED lock
    BY <1>4 DEF AcquireLock
  <2>2. [run[p].mem EXCEPT !.status = "failed"] \in Rows
    BY <1>1 DEF Rows, JobStatuses
  <2>3. jobs' \in [Jobs -> Rows]
    BY <2>1, <2>2, SaveTyped DEF TypeInv
  <2>4. QED
    BY <1>2, <2>1, <2>3, StopTyped, Typed, Assemble
<1>5. QED
  BY <1>3, <1>4

LEMMA StartTyped ==
  ASSUME TypeInv, NEW p \in Procs, Start(p)
  PROVE  TypeInv'
<1>1. run[p] \in LocalStates(Len(docs)) /\ run[p].mem \in Rows
      /\ run[p].job \in Jobs /\ Len(Package(p)) \in Nat
  BY Typed, PackageShape DEF LocalStates, Package
<1>2. UNCHANGED <<docs, provider>> /\ run[p].pc # "rollup"
  BY DEF Start
<1>3. CASE /\ Bump("errors") /\ Stop(p) /\ Unlock(p)
           /\ Save(p, [run[p].mem EXCEPT !.status = "failed"])
  <2>1. [run[p].mem EXCEPT !.status = "failed"] \in Rows
    BY <1>1 DEF Rows, JobStatuses
  <2>2. jobs' \in [Jobs -> Rows]
    BY <1>3, <2>1, SaveTyped DEF TypeInv
  <2>3. count' \in [Counters -> Nat]
    BY <1>3, BumpTyped DEF TypeInv, Counters
  <2>4. lock' \in [Packages -> Procs \cup {"free", "dead"}]
    BY <1>3, UnlockTyped DEF TypeInv
  <2>5. QED
    BY <1>2, <1>3, <2>2, <2>3, <2>4, StopTyped, Typed, Assemble
<1> DEFINE new == [run[p].mem EXCEPT !.status = "running", !.total = Len(Package(p))]
<1>4. CASE /\ Save(p, new) /\ UNCHANGED <<lock, count>>
           /\ run' = [run EXCEPT ![p].pc = "file", ![p].mem = new]
  <2>1. new \in Rows
    BY <1>1 DEF Rows, JobStatuses
  <2> HIDE DEF new
  <2>2. jobs' \in [Jobs -> Rows]
    BY <1>4, <2>1, SaveTyped DEF TypeInv
  <2>3. run' \in [Procs -> LocalStates(Len(docs'))]
    BY <1>1, <1>2, <1>4, <2>1, Typed DEF LocalStates, PCs
  <2>4. InPackage'
    BY <1>2, <1>4, Typed DEF InPackage, LocalStates
  <2>5. QED
    BY <1>2, <1>4, <2>2, <2>3, <2>4, Typed, Assemble
<1>5. QED
  BY <1>3, <1>4 DEF Start, MayFail

LEMMA NextFileTyped ==
  ASSUME TypeInv, NEW p \in Procs, NextFile(p)
  PROVE  TypeInv'
<1>1. UNCHANGED <<docs, lock, provider, count>> /\ run[p].pc # "rollup"
  BY DEF NextFile
<1>2. \/ \E o \in Outcomes : EndFile(p, o)
      \/ \E d \in 0..Len(docs), pc \in {"resume", "create"} : Goto(p, pc, d)
  <2>1. \A d \in DOMAIN docs : d \in 0..Len(docs)
    BY Typed
  <2>2. 0 \in 0..Len(docs)
    BY Typed
  <2>3. QED
    BY <2>1, <2>2 DEF NextFile, Existing, Copies, Outcomes
<1>3. CASE \E o \in Outcomes : EndFile(p, o)
  BY <1>1, <1>3, EndFileTyped, Typed, Assemble
<1>4. CASE \E d \in 0..Len(docs), pc \in {"resume", "create"} : Goto(p, pc, d)
  <2>1. PICK d \in 0..Len(docs), pc \in {"resume", "create"} : Goto(p, pc, d)
    BY <1>4
  <2>2. pc \in PCs \ {"rollup"}
    BY DEF PCs
  <2>3. Len(docs) <= Len(docs') /\ docs' \in Seq(Documents) /\ d \in 0..Len(docs')
    BY <1>1, Typed
  <2>4. QED
    BY <1>1, <2>1, <2>2, <2>3, GotoTyped, Typed, Assemble
<1>5. QED
  BY <1>2, <1>3, <1>4

LEMMA CreateTyped ==
  ASSUME TypeInv, NEW p \in Procs, Create(p)
  PROVE  TypeInv'
<1>1. run[p].job \in Jobs /\ run[p].pos \in DOMAIN Entries[run[p].job]
  BY Typed DEF LocalStates, InPackage, Create
<1> DEFINE doc == [content |-> Package(p)[run[p].pos], job |-> run[p].job,
                   status |-> "open", deleted |-> FALSE, chunks |-> 0]
<1>2. doc \in Documents
  BY <1>1 DEF Documents, DocStatuses, Package, Contents
<1>3. docs' = Append(docs, doc) /\ Goto(p, "store", Len(docs) + 1)
      /\ UNCHANGED <<lock, provider, count>> /\ run[p].pc # "rollup"
  BY DEF Create
<1> HIDE DEF doc
<1>4. docs' \in Seq(Documents) /\ Len(docs') = Len(docs) + 1
  BY <1>2, <1>3, Typed
<1>5. Len(docs) <= Len(docs') /\ Len(docs) + 1 \in 0..Len(docs')
  BY <1>4, Typed
<1>6. QED
  BY <1>3, <1>4, <1>5, GotoTyped, Typed, Assemble DEF PCs

\* A step that works on the row of p's document.
LEMMA DocStepTyped ==
  ASSUME TypeInv, NEW p \in Procs, run[p].pc # "rollup",
         docs' \in Seq(Documents), Len(docs') = Len(docs),
         UNCHANGED <<lock, provider>>, count' \in [Counters -> Nat],
         \/ \E o \in Outcomes : EndFile(p, o)
         \/ \E pc \in {"extract", "embed", "upsert"} : Goto(p, pc, run[p].doc)
  PROVE  TypeInv'
<1>1. CASE \E o \in Outcomes : EndFile(p, o)
  BY <1>1, EndFileTyped, Typed, Assemble
<1>2. CASE \E pc \in {"extract", "embed", "upsert"} : Goto(p, pc, run[p].doc)
  <2>1. PICK pc \in {"extract", "embed", "upsert"} : Goto(p, pc, run[p].doc)
    BY <1>2
  <2>2. pc \in PCs \ {"rollup"}
    BY DEF PCs
  <2>3. run[p].doc \in 0..Len(docs') /\ Len(docs) <= Len(docs')
    BY Typed DEF LocalStates
  <2>4. QED
    BY <2>1, <2>2, <2>3, GotoTyped, Typed, Assemble
<1>3. QED
  BY <1>1, <1>2

LEMMA DocActionsTyped ==
  ASSUME TypeInv, NEW p \in Procs, Store(p) \/ Extract(p) \/ Resume(p) \/ Embed(p)
  PROVE  TypeInv'
<1>1. run[p].pc # "rollup" /\ UNCHANGED <<lock, provider>>
  BY DEF Store, Extract, StoreOrExtract, Resume, Embed
<1>2. \/ \E o \in Outcomes : EndFile(p, o)
      \/ \E pc \in {"extract", "embed", "upsert"} : Goto(p, pc, run[p].doc)
  BY DEF Store, Extract, StoreOrExtract, Resume, Embed, EndDoc, Outcomes
<1>3. count' \in [Counters -> Nat]
  <2>1. UNCHANGED count \/ Bump("errors")
    BY DEF Store, Extract, StoreOrExtract, Resume, Embed, MayFail
  <2>2. QED
    BY <2>1, BumpTyped, Typed DEF TypeInv, Counters
<1>4. docs' \in Seq(Documents) /\ Len(docs') = Len(docs)
  <2>1. UNCHANGED docs \/ \E s \in DocStatuses : SetDoc(run[p].doc, s)
    BY DEF Store, Extract, StoreOrExtract, Resume, Embed, EndDoc, DocStatuses
  <2>2. run[p].doc \in Nat
    BY Typed DEF LocalStates
  <2>3. QED
    BY <2>1, <2>2, SetDocTyped, Typed DEF TypeInv
<1>5. QED
  BY <1>1, <1>2, <1>3, <1>4, DocStepTyped

LEMMA UpsertTyped ==
  ASSUME TypeInv, NEW p \in Procs, Upsert(p)
  PROVE  TypeInv'
<1> DEFINE d == run[p].doc
<1>1. /\ docs' = [docs EXCEPT ![d].chunks = @ + 1, ![d].status = "indexed"]
      /\ EndFile(p, "indexed") /\ UNCHANGED <<lock, provider, count>>
      /\ run[p].pc # "rollup"
  BY DEF Upsert
<1>2. docs' \in Seq(Documents) /\ Len(docs') = Len(docs)
  <2>1. CASE d \notin DOMAIN docs
    <3>1. docs \in [1..Len(docs) -> Documents] /\ DOMAIN docs = 1..Len(docs)
      BY Typed
    <3>2. docs' = docs
      BY <1>1, <2>1, <3>1
    <3>3. QED
      BY <3>2, Typed
  <2>2. CASE d \in DOMAIN docs
    <3>1. docs[d] \in Documents
      BY <2>2, Typed
    <3>2. [docs[d] EXCEPT !.chunks = @ + 1, !.status = "indexed"] \in Documents
      <4>1. docs[d].chunks + 1 \in Nat /\ "indexed" \in DocStatuses
        BY <3>1 DEF Documents, DocStatuses
      <4>2. QED
        BY <3>1, <4>1 DEF Documents
    <3>3. docs' = [docs EXCEPT ![d] =
                     [docs[d] EXCEPT !.chunks = @ + 1, !.status = "indexed"]]
      BY <1>1, <2>2
    <3>4. d \in 1..Len(docs)
      BY <2>2, Typed
    <3>5. QED
      BY <3>2, <3>3, <3>4, ExceptSeq, Typed
  <2>3. QED
    BY <2>1, <2>2
<1>3. QED
  BY <1>1, <1>2, DocStepTyped, Typed DEF Outcomes

LEMMA RollupTyped ==
  ASSUME TypeInv, NEW p \in Procs, Rollup(p)
  PROVE  TypeInv'
<1> DEFINE blocked == "blocked" \in run[p].outcomes
           new == [run[p].mem EXCEPT !.status = FinalStatus(p), !.blocked = blocked]
<1>1. Save(p, new) /\ Stop(p) /\ Unlock(p) /\ UNCHANGED <<docs, provider, count>>
  BY DEF Rollup
<1>2. FinalStatus(p) \in JobStatuses
  BY DEF FinalStatus, Summary, JobStatuses
<1>3. run[p].mem \in Rows /\ blocked \in BOOLEAN
  BY Typed DEF LocalStates
<1> HIDE DEF blocked
<1>4. new \in Rows
  BY <1>2, <1>3 DEF Rows
<1> HIDE DEF new
<1>5. jobs' \in [Jobs -> Rows]
  BY <1>1, <1>4, SaveTyped DEF TypeInv
<1>6. lock' \in [Packages -> Procs \cup {"free", "dead"}]
  BY <1>1, UnlockTyped DEF TypeInv
<1>7. QED
  BY <1>1, <1>5, <1>6, StopTyped, Typed, Assemble

LEMMA RaiseTyped ==
  ASSUME TypeInv, NEW p \in Procs, NEW transient \in BOOLEAN, Raise(p, transient)
  PROVE  TypeInv'
<1> DEFINE j == run[p].job
           row == jobs[j]
           again == transient /\ row.attempts + 1 < MaxAttempts
           new == IF again THEN [row EXCEPT !.status = "pending", !.attempts = @ + 1]
                  ELSE [row EXCEPT !.status = "failed"]
           local == IF again THEN [IdleRun EXCEPT !.pc = "backoff", !.job = j,
                                                  !.mem = new]
                    ELSE IdleRun
<1>1. /\ Bump("errors") /\ Unlock(p) /\ UNCHANGED <<docs, provider>>
      /\ jobs' = [jobs EXCEPT ![j] = new] /\ run' = [run EXCEPT ![p] = local]
  BY DEF Raise, MayFail
<1>2. j \in Jobs /\ row \in Rows
  BY Typed DEF LocalStates
<1>3. new \in Rows
  <2>1. row.attempts + 1 \in Nat /\ {"pending", "failed"} \subseteq JobStatuses
    BY <1>2 DEF Rows, JobStatuses
  <2> HIDE DEF row, again
  <2>2. [row EXCEPT !.status = "failed"] \in Rows
    BY <1>2, <2>1 DEF Rows
  <2>3. [row EXCEPT !.status = "pending", !.attempts = @ + 1] \in Rows
    BY <1>2, <2>1 DEF Rows
  <2>4. QED
    BY <2>2, <2>3
<1> HIDE DEF new
<1>4. local \in LocalStates(Len(docs)) /\ local.pos \in DOMAIN Entries[local.job]
  <2>1. IdleRun.pos = 1 /\ 0 \in 0..Len(docs) /\ 1 \in DOMAIN Entries[j]
    BY <1>2, Typed, PackageShape DEF IdleRun
  <2> DEFINE sleeping == [IdleRun EXCEPT !.pc = "backoff", !.job = j, !.mem = new]
  <2>2. sleeping \in LocalStates(Len(docs)) /\ sleeping.pos = 1 /\ sleeping.job = j
    BY <1>2, <1>3, <2>1, IdleTyped DEF LocalStates, PCs
  <2>3. IdleRun \in LocalStates(Len(docs))
    BY <2>1, IdleTyped DEF LocalStates
  <2>4. local = sleeping \/ local = IdleRun
    OBVIOUS
  <2>5. QED
    BY <2>1, <2>2, <2>3, <2>4, IdleTyped
<1> HIDE DEF local
<1>5. jobs' \in [Jobs -> Rows]
  BY <1>1, <1>2, <1>3, Typed
<1>6. run' \in [Procs -> LocalStates(Len(docs'))]
  BY <1>1, <1>4, Typed
<1>7. InPackage'
  BY <1>1, <1>4, Typed DEF InPackage
<1>8. lock' \in [Packages -> Procs \cup {"free", "dead"}]
  BY <1>1, UnlockTyped DEF TypeInv
<1>9. count' \in [Counters -> Nat]
  BY <1>1, BumpTyped DEF TypeInv, Counters
<1>10. QED
  BY <1>1, <1>5, <1>6, <1>7, <1>8, <1>9, Typed, Assemble

LEMMA PurgeTyped ==
  ASSUME TypeInv, NEW d \in DOMAIN docs, Purge(d)
  PROVE  TypeInv'
<1> DEFINE status == IF docs[d].status \in {"indexed", "failed"} THEN docs[d].status
                     ELSE "cancelled"
           doc == [docs[d] EXCEPT !.deleted = TRUE, !.chunks = 0, !.status = status]
<1>1. docs[d] \in Documents /\ d \in 1..Len(docs)
  BY Typed
<1>2. docs' = [docs EXCEPT ![d] = doc] /\ UNCHANGED <<lock, provider, run>>
      /\ Bump("purges")
  BY DEF Purge
<1>3. status \in DocStatuses
  BY <1>1 DEF Documents, DocStatuses
<1> HIDE DEF status
<1>4. doc \in Documents
  BY <1>1, <1>3 DEF Documents
<1> HIDE DEF doc
<1>5. docs' \in Seq(Documents) /\ Len(docs') = Len(docs)
  BY <1>1, <1>2, <1>4, ExceptSeq, Typed
<1>6. jobs' \in [Jobs -> Rows]
  <2>1. \A j \in Jobs : [jobs[j] EXCEPT !.status = "cancelled"] \in Rows
    <3> SUFFICES ASSUME NEW j \in Jobs
                 PROVE  [jobs[j] EXCEPT !.status = "cancelled"] \in Rows
      OBVIOUS
    <3>1. jobs[j] \in Rows
      BY Typed
    <3>2. QED
      BY <3>1 DEF Rows, JobStatuses
  <2>2. docs[d].job \in Jobs
    BY <1>1 DEF Documents
  <2>3. \/ jobs' = jobs
        \/ jobs' = [jobs EXCEPT ![docs[d].job] =
                      [jobs[docs[d].job] EXCEPT !.status = "cancelled"]]
    BY DEF Purge
  <2>4. QED
    BY <2>1, <2>2, <2>3, Typed
<1>7. count' \in [Counters -> Nat]
  BY <1>2, BumpTyped DEF TypeInv, Counters
<1>8. run' \in [Procs -> LocalStates(Len(docs'))] /\ InPackage'
  BY <1>2, <1>5, Typed DEF InPackage
<1>9. QED
  BY <1>2, <1>5, <1>6, <1>7, <1>8, Typed, Assemble

LEMMA JobStepsTyped ==
  ASSUME TypeInv, NEW j \in Jobs, Upload(j) \/ ExpireLease(j)
  PROVE  TypeInv'
<1>1. jobs[j] \in Rows
  BY Typed
<1>2. /\ [jobs[j] EXCEPT !.status = "pending"] \in Rows
      /\ [jobs[j] EXCEPT !.lease = "expired"] \in Rows
  BY <1>1 DEF Rows, JobStatuses
<1>3. \E row \in Rows : jobs' = [jobs EXCEPT ![j] = row]
  BY <1>2 DEF Upload, ExpireLease
<1>4. jobs' \in [Jobs -> Rows]
  BY <1>3, Typed
<1>5. UNCHANGED <<docs, lock, provider, run>>
      /\ (UNCHANGED count \/ Bump("lapses"))
  BY DEF Upload, ExpireLease
<1>6. count' \in [Counters -> Nat]
  BY <1>5, BumpTyped, Typed DEF TypeInv, Counters
<1>7. InPackage'
  BY <1>5, Typed DEF InPackage
<1>8. QED
  BY <1>4, <1>5, <1>6, <1>7, Typed, Assemble

LEMMA ProviderTyped ==
  ASSUME TypeInv, ProviderDown \/ ProviderUp
  PROVE  TypeInv'
<1>1. /\ UNCHANGED <<jobs, docs, lock, run>> /\ provider' \in BOOLEAN
      /\ UNCHANGED count \/ Bump("outages")
  BY DEF ProviderDown, ProviderUp
<1>2. count' \in [Counters -> Nat]
  BY <1>1, BumpTyped, Typed DEF TypeInv, Counters
<1>3. InPackage'
  BY <1>1, Typed DEF InPackage
<1>4. QED
  BY <1>1, <1>2, <1>3, Typed, Assemble

LEMMA CrashTyped ==
  ASSUME TypeInv, NEW p \in Procs, Crash(p)
  PROVE  TypeInv'
<1>1. Bump("crashes") /\ Stop(p) /\ UNCHANGED <<jobs, docs, provider>>
  BY DEF Crash
<1>2. lock' \in [Packages -> Procs \cup {"free", "dead"}]
  BY Typed DEF Crash
<1>3. count' \in [Counters -> Nat]
  BY <1>1, BumpTyped DEF TypeInv, Counters
<1>4. QED
  BY <1>1, <1>2, <1>3, StopTyped, Typed, Assemble

LEMMA ExpireLockTyped ==
  ASSUME TypeInv, NEW k \in Packages, ExpireLock(k)
  PROVE  TypeInv'
<1>1. /\ UNCHANGED <<jobs, docs, provider, run>>
      /\ lock' = [lock EXCEPT ![k] = "free"]
      /\ UNCHANGED count \/ Bump("lapses")
  BY DEF ExpireLock
<1>2. lock' \in [Packages -> Procs \cup {"free", "dead"}]
  BY <1>1, Typed
<1>3. count' \in [Counters -> Nat]
  BY <1>1, BumpTyped, Typed DEF TypeInv, Counters
<1>4. InPackage'
  BY <1>1, Typed DEF InPackage
<1>5. QED
  BY <1>1, <1>2, <1>3, <1>4, Typed, Assemble

LEMMA StepTyped == TypeInv /\ [Next]_vars => TypeInv'
<1> SUFFICES ASSUME TypeInv, [Next]_vars PROVE TypeInv'
  OBVIOUS
<1>1. CASE UNCHANGED vars
  <2>1. InPackage'
    BY <1>1, Typed DEF vars, InPackage
  <2>2. QED
    BY <1>1, <2>1, Typed, Assemble DEF vars
<1>2. CASE \E j \in Jobs : Upload(j) \/ ExpireLease(j)
  BY <1>2, JobStepsTyped
<1>3. ASSUME NEW p \in Procs, Process(p) PROVE TypeInv'
  BY <1>3, LoadTyped, AcquireLockTyped, StartTyped, NextFileTyped, CreateTyped,
     DocActionsTyped, UpsertTyped, RollupTyped DEF Process
<1>4. CASE \E p \in Procs : RequeueBlocked(p) \/ ReconcileOrphaned(p) \/ Crash(p)
  BY <1>4, PassesTyped, CrashTyped
<1>5. CASE \E p \in Procs, j \in Jobs : Claim(p, j)
  BY <1>5, ClaimTyped
<1>6. CASE \E p \in Procs, transient \in BOOLEAN : Raise(p, transient)
  BY <1>6, RaiseTyped
<1>7. CASE \E d \in DOMAIN docs : Purge(d)
  BY <1>7, PurgeTyped
<1>8. CASE ProviderDown \/ ProviderUp
  BY <1>8, ProviderTyped
<1>9. CASE \E k \in Packages : ExpireLock(k)
  BY <1>9, ExpireLockTyped
<1>10. QED
  BY <1>1, <1>2, <1>3, <1>4, <1>5, <1>6, <1>7, <1>8, <1>9 DEF Next

\* Every reachable state of the import pipeline is well typed: a process only
\* ever names a document that has been committed, and a document only a
\* content of a package that was uploaded.
THEOREM TypeCorrect == Spec => []TypeOK
<1>1. Spec => []TypeInv
  BY InitTyped, StepTyped, PTL DEF Spec
<1>2. TypeInv => TypeOK
  BY DEF TypeInv
<1>3. QED
  BY <1>1, <1>2, PTL

-----------------------------------------------------------------------------
(* One live copy of every file                                             *)

\* Where run_import_job is inside its JobLock.
Inside == {"start", "file", "create", "store", "extract", "resume", "embed",
           "upsert", "rollup"}

LockHeld ==
  \A p \in Procs : run[p].pc \in Inside => lock[Entries[run[p].job]] = p

\* Between the duplicate lookup and the insert nobody adds a live copy.
Fresh ==
  \A p \in Procs : run[p].pc = "create" =>
    \A d \in DOMAIN docs :
      docs[d].content = Entries[run[p].job][run[p].pos] => docs[d].deleted

\* Two packages that share a file are the same package, and have one lock.
DisjointPackages ==
  \A j, k \in Jobs :
    (\E i \in DOMAIN Entries[j], l \in DOMAIN Entries[k] : Entries[j][i] = Entries[k][l])
      => Entries[j] = Entries[k]

CopyInv == LockHeld /\ Fresh /\ OneLiveCopy

\* Deletion is for good, and no row changes its content.
DocsKept ==
  /\ DOMAIN docs' = DOMAIN docs
  /\ \A d \in DOMAIN docs : /\ docs'[d].content = docs[d].content
                            /\ docs[d].deleted => docs'[d].deleted

LEMMA SetDocKeeps ==
  ASSUME TypeInv, NEW d \in Nat, NEW s, SetDoc(d, s)
  PROVE  DocsKept
<1>1. \A e \in DOMAIN docs : docs[e] \in Documents
  BY Typed
<1>2. QED
  BY <1>1 DEF SetDoc, DocsKept, Documents

\* Only the insert of a new row adds a document.
LEMMA StepKeepsDocs ==
  ASSUME TypeInv, [Next]_vars, \A p \in Procs : ~Create(p)
  PROVE  DocsKept
<1>1. \A e \in DOMAIN docs : docs[e] \in Documents
  BY Typed
<1>2. CASE UNCHANGED docs
  BY <1>2 DEF DocsKept
<1>3. ASSUME NEW p \in Procs, Upsert(p) PROVE DocsKept
  BY <1>1, <1>3 DEF Upsert, DocsKept, Documents
<1>4. ASSUME NEW d \in DOMAIN docs, Purge(d) PROVE DocsKept
  BY <1>1, <1>4 DEF Purge, DocsKept, Documents
<1>5. ASSUME NEW p \in Procs, Store(p) \/ Extract(p) \/ Resume(p) \/ Embed(p)
      PROVE  DocsKept
  <2>1. UNCHANGED docs \/ \E s \in DocStatuses : SetDoc(run[p].doc, s)
    BY <1>5 DEF Store, Extract, StoreOrExtract, Resume, Embed, EndDoc, DocStatuses
  <2>2. run[p].doc \in Nat
    BY Typed DEF LocalStates
  <2>3. QED
    BY <1>2, <2>1, <2>2, SetDocKeeps
<1>6. ASSUME NEW p \in Procs, Load(p) \/ AcquireLock(p) \/ Start(p) \/ NextFile(p)
                               \/ Rollup(p) \/ EndBackoff(p)
      PROVE  UNCHANGED docs
  BY <1>6 DEF Load, AcquireLock, Start, NextFile, Rollup, EndBackoff
<1>7. ASSUME NEW p \in Procs, RequeueBlocked(p) \/ ReconcileOrphaned(p) \/ Crash(p)
      PROVE  UNCHANGED docs
  BY <1>7 DEF RequeueBlocked, ReconcileOrphaned, Crash
<1>8. ASSUME NEW p \in Procs, NEW j \in Jobs, Claim(p, j) PROVE UNCHANGED docs
  BY <1>8 DEF Claim
<1>9. ASSUME NEW p \in Procs, NEW t \in BOOLEAN, Raise(p, t) PROVE UNCHANGED docs
  BY <1>9 DEF Raise
<1>10. ASSUME NEW j \in Jobs, Upload(j) \/ ExpireLease(j) PROVE UNCHANGED docs
  BY <1>10 DEF Upload, ExpireLease
<1>11. ASSUME NEW k \in Packages, ExpireLock(k) PROVE UNCHANGED docs
  BY <1>11 DEF ExpireLock
<1>12. ASSUME ProviderDown \/ ProviderUp PROVE UNCHANGED docs
  BY <1>12 DEF ProviderDown, ProviderUp
<1>13. ASSUME UNCHANGED vars PROVE UNCHANGED docs
  BY <1>13 DEF vars
<1>14. ASSUME NEW p \in Procs, Process(p) PROVE DocsKept
  BY <1>2, <1>3, <1>5, <1>6, <1>14 DEF Process
<1>15. QED
  BY <1>2, <1>4, <1>7, <1>8, <1>9, <1>10, <1>11, <1>12, <1>13, <1>14 DEF Next

\* Nobody but p moves, and nobody else's lock is touched.
LEMMA OutsideKeepsLock ==
  ASSUME TypeInv, LockHeld, NEW p \in Procs,
         \A q \in Procs \ {p} : run'[q] = run[q],
         \A k \in Packages : lock[k] \in Procs \ {p} => lock'[k] = lock[k],
         run'[p].pc \notin Inside
  PROVE  LockHeld'
<1> SUFFICES ASSUME NEW q \in Procs, run'[q].pc \in Inside
             PROVE  lock'[Entries[run'[q].job]] = q
  BY DEF LockHeld
<1>1. q # p /\ run'[q] = run[q]
  OBVIOUS
<1>2. Entries[run[q].job] \in Packages
  BY Typed DEF LocalStates, Packages
<1>3. lock[Entries[run[q].job]] = q
  BY <1>1 DEF LockHeld
<1>4. QED
  BY <1>1, <1>2, <1>3

LEMMA InsideKeepsLock ==
  ASSUME TypeInv, LockHeld, NEW p \in Procs, run[p].pc \in Inside, UNCHANGED lock,
         \A q \in Procs \ {p} : run'[q] = run[q],
         run'[p].job = run[p].job
  PROVE  LockHeld'
  BY DEF LockHeld

LEMMA StopLeaves ==
  ASSUME TypeInv, NEW p \in Procs, Stop(p)
  PROVE  run'[p].pc \notin Inside /\ \A q \in Procs \ {p} : run'[q] = run[q]
  BY Typed, IdleTyped DEF Stop, Inside

LEMMA UnlockKeeps ==
  ASSUME TypeInv, NEW p \in Procs, Unlock(p)
  PROVE  \A k \in Packages : lock[k] \in Procs \ {p} => lock'[k] = lock[k]
  BY DEF Unlock

LEMMA GotoMoves ==
  ASSUME TypeInv, NEW p \in Procs, NEW pc \in PCs, NEW d \in Nat, Goto(p, pc, d)
  PROVE  /\ \A q \in Procs \ {p} : run'[q] = run[q]
         /\ run'[p].pc = pc /\ run'[p].job = run[p].job /\ run'[p].pos = run[p].pos
<1>1. run \in [Procs -> LocalStates(Len(docs))]
  BY Typed
<1>2. run' = [run EXCEPT ![p].pc = pc, ![p].doc = d]
  BY DEF Goto
<1>3. run[p] \in LocalStates(Len(docs)) /\ run'[p] = [run[p] EXCEPT !.pc = pc, !.doc = d]
  BY <1>1, <1>2
<1>4. QED
  BY <1>1, <1>2, <1>3 DEF LocalStates

LEMMA EndFileMoves ==
  ASSUME TypeInv, NEW p \in Procs, NEW o \in Outcomes, EndFile(p, o)
  PROVE  /\ \A q \in Procs \ {p} : run'[q] = run[q]
         /\ run'[p].pc \in {"rollup", "file"} /\ run'[p].job = run[p].job
<1>1. run \in [Procs -> LocalStates(Len(docs))]
  BY Typed
<1> DEFINE pc == IF run[p].pos = Len(Package(p)) THEN "rollup" ELSE "file"
<1>2. run' = [run EXCEPT ![p].pc = pc, ![p].pos = @ + 1, ![p].doc = 0,
                         ![p].outcomes = @ \cup {o}]
  BY DEF EndFile
<1>3. pc \in {"rollup", "file"}
  OBVIOUS
<1> HIDE DEF pc
<1>4. QED
  BY <1>1, <1>2, <1>3 DEF LocalStates

\* A step of a file moves nobody else and stays in the package.
LEMMA FileStepMoves ==
  ASSUME TypeInv, NEW p \in Procs,
         \/ \E o \in Outcomes : EndFile(p, o)
         \/ \E pc \in PCs, d \in Nat : Goto(p, pc, d)
  PROVE  /\ \A q \in Procs \ {p} : run'[q] = run[q]
         /\ run'[p].job = run[p].job
  BY EndFileMoves, GotoMoves

LEMMA FileActions ==
  ASSUME TypeInv, NEW p \in Procs,
         \/ NextFile(p) \/ Create(p) \/ Store(p) \/ Extract(p) \/ Resume(p)
         \/ Embed(p) \/ Upsert(p)
  PROVE  /\ \/ \E o \in Outcomes : EndFile(p, o)
            \/ \E pc \in PCs, d \in Nat : Goto(p, pc, d)
         /\ run[p].pc \in Inside /\ UNCHANGED lock
<1>1. /\ \A d \in DOMAIN docs : d \in Nat
      /\ run[p].doc \in Nat /\ Len(docs) + 1 \in Nat /\ 0 \in Nat
  BY Typed DEF LocalStates
<1>2. CASE NextFile(p)
  <2>1. run[p].pc \in Inside /\ UNCHANGED lock
    BY <1>2 DEF NextFile, Inside
  <2>2. \/ \E o \in Outcomes : EndFile(p, o)
        \/ \E pc \in {"resume", "create"}, d \in Nat : Goto(p, pc, d)
    BY <1>1, <1>2 DEF NextFile, Existing, Copies, Outcomes
  <2>3. QED
    BY <2>1, <2>2 DEF PCs
<1>3. CASE Create(p)
  <2>1. Goto(p, "store", Len(docs) + 1) /\ run[p].pc \in Inside /\ UNCHANGED lock
    BY <1>3 DEF Create, Inside
  <2>2. QED
    BY <1>1, <2>1 DEF PCs
<1>4. CASE Store(p) \/ Extract(p) \/ Resume(p) \/ Embed(p)
  <2>1. run[p].pc \in Inside /\ UNCHANGED lock
    BY <1>4 DEF Store, Extract, StoreOrExtract, Resume, Embed, Inside
  <2>2. \/ \E o \in Outcomes : EndFile(p, o)
        \/ \E pc \in {"extract", "embed", "upsert"} : Goto(p, pc, run[p].doc)
    BY <1>4 DEF Store, Extract, StoreOrExtract, Resume, Embed, EndDoc, Outcomes
  <2>3. QED
    BY <1>1, <2>1, <2>2 DEF PCs
<1>5. CASE Upsert(p)
  BY <1>5 DEF Upsert, Inside, Outcomes
<1>6. QED
  BY <1>2, <1>3, <1>4, <1>5

LEMMA ProcessKeepsLock ==
  ASSUME TypeInv, LockHeld, NEW p \in Procs, Process(p)
  PROVE  LockHeld'
<1>1. run \in [Procs -> LocalStates(Len(docs))]
  BY Typed
<1>2. CASE Load(p) \/ EndBackoff(p)
  <2>1. /\ UNCHANGED lock /\ run'[p].pc = "lock"
        /\ \A q \in Procs \ {p} : run'[q] = run[q]
    BY <1>1, <1>2 DEF Load, EndBackoff, LocalStates
  <2>2. QED
    BY <2>1, OutsideKeepsLock DEF Inside
<1>3. CASE AcquireLock(p) /\ lock[Package(p)] = "free"
  <2>1. /\ lock' = [lock EXCEPT ![Package(p)] = p]
        /\ run' = [run EXCEPT ![p].pc = "start"]
    BY <1>3 DEF AcquireLock
  <2>2. \A q \in Procs : Entries[run[q].job] \in Packages /\ q # "free"
    BY <1>1, ImportConstants DEF LocalStates, Packages
  <2>3. \A q \in Procs : run'[q].job = run[q].job
                        /\ (q # p => run'[q].pc = run[q].pc)
    BY <1>1, <2>1 DEF LocalStates
  <2>4. lock'[Package(p)] = p
        /\ \A k \in Packages : k # Package(p) => lock'[k] = lock[k]
    BY <2>1, <2>2, Typed DEF Package
  <2>5. QED
    BY <1>3, <2>2, <2>3, <2>4 DEF LockHeld, Package
<1>4. CASE AcquireLock(p) /\ lock[Package(p)] # "free"
  <2>1. Stop(p) /\ UNCHANGED lock
    BY <1>4 DEF AcquireLock
  <2>2. QED
    BY <2>1, StopLeaves, OutsideKeepsLock
<1>5. CASE Start(p)
  <2>1. CASE Stop(p) /\ Unlock(p)
    BY <2>1, StopLeaves, UnlockKeeps, OutsideKeepsLock
  <2>2. CASE ~(Stop(p) /\ Unlock(p))
    <3>1. PICK mem : run' = [run EXCEPT ![p].pc = "file", ![p].mem = mem]
      BY <1>5, <2>2 DEF Start
    <3>2. UNCHANGED lock /\ run[p].pc \in Inside
      BY <1>5, <2>2 DEF Start, Inside
    <3>3. run'[p].job = run[p].job /\ \A q \in Procs \ {p} : run'[q] = run[q]
      BY <1>1, <3>1 DEF LocalStates
    <3>4. QED
      BY <3>2, <3>3, InsideKeepsLock
  <2>3. QED
    BY <2>1, <2>2
<1>6. CASE \/ NextFile(p) \/ Create(p) \/ Store(p) \/ Extract(p) \/ Resume(p)
           \/ Embed(p) \/ Upsert(p)
  BY <1>6, FileActions, FileStepMoves, InsideKeepsLock
<1>7. CASE Rollup(p)
  <2>1. Stop(p) /\ Unlock(p)
    BY <1>7 DEF Rollup
  <2>2. QED
    BY <2>1, StopLeaves, UnlockKeeps, OutsideKeepsLock
<1>8. QED
  BY <1>2, <1>3, <1>4, <1>5, <1>6, <1>7 DEF Process

LEMMA StepKeepsLock ==
  ASSUME MaxLapses = 0, TypeInv, LockHeld, [Next]_vars
  PROVE  LockHeld'
<1>1. run \in [Procs -> LocalStates(Len(docs))]
  BY Typed
<1>2. ASSUME UNCHANGED <<run, lock>> PROVE LockHeld'
  BY <1>2 DEF LockHeld
<1>3. ASSUME NEW p \in Procs, NEW j \in Jobs, Claim(p, j) PROVE LockHeld'
  <2>1. UNCHANGED lock /\ \A q \in Procs \ {p} : run'[q] = run[q]
    BY <1>1, <1>3 DEF Claim
  <2>2. run'[p].pc = "load"
    <3>1. run'[p] = [IdleRun EXCEPT !.pc = "load", !.job = j]
      BY <1>1, <1>3 DEF Claim
    <3>2. QED
      BY <3>1, IdleTyped
  <2>3. QED
    BY <2>1, <2>2, OutsideKeepsLock DEF Inside
<1>4. ASSUME NEW p \in Procs, NEW t \in BOOLEAN, Raise(p, t) PROVE LockHeld'
  <2>1. PICK local : /\ run' = [run EXCEPT ![p] = local]
                     /\ local.pc \in {"idle", "backoff"}
    <3> DEFINE again == t /\ jobs[run[p].job].attempts + 1 < MaxAttempts
               new == IF again THEN [jobs[run[p].job] EXCEPT !.status = "pending",
                                                             !.attempts = @ + 1]
                      ELSE [jobs[run[p].job] EXCEPT !.status = "failed"]
               sleeping == [IdleRun EXCEPT !.pc = "backoff", !.job = run[p].job,
                                           !.mem = new]
    <3>1. run' = [run EXCEPT ![p] = IF again THEN sleeping ELSE IdleRun]
      BY <1>4 DEF Raise
    <3> HIDE DEF new, again
    <3>2. sleeping.pc = "backoff" /\ IdleRun.pc = "idle"
      BY IdleTyped
    <3> HIDE DEF sleeping
    <3>3. CASE again
      BY <3>1, <3>2, <3>3
    <3>4. CASE ~again
      BY <3>1, <3>2, <3>4
    <3>5. QED
      BY <3>3, <3>4
  <2>2. run'[p].pc \notin Inside /\ \A q \in Procs \ {p} : run'[q] = run[q]
    BY <1>1, <2>1 DEF Inside
  <2>3. Unlock(p)
    BY <1>4 DEF Raise
  <2>4. QED
    BY <2>2, <2>3, UnlockKeeps, OutsideKeepsLock
<1>5. ASSUME NEW p \in Procs, Crash(p) PROVE LockHeld'
  <2>1. \A k \in Packages : lock[k] \in Procs \ {p} => lock'[k] = lock[k]
    BY <1>5 DEF Crash
  <2>2. Stop(p)
    BY <1>5 DEF Crash
  <2>3. QED
    BY <2>1, <2>2, StopLeaves, OutsideKeepsLock
<1>6. ASSUME NEW k \in Packages, ExpireLock(k) PROVE LockHeld'
  <2>1. lock[k] = "dead"
    <3>1. count["lapses"] \in Nat
      BY Typed DEF Counters
    <3>2. QED
      BY <1>6, <3>1 DEF ExpireLock
  <2>2. lock' = [lock EXCEPT ![k] = "free"] /\ UNCHANGED run
    BY <1>6 DEF ExpireLock
  <2>3. \A p \in Procs : p # "dead"
    BY ImportConstants
  <2>4. \A l \in Packages : l # k => lock'[l] = lock[l]
    BY <2>2, Typed
  <2>5. \A p \in Procs : Entries[run[p].job] \in Packages
    BY <1>1 DEF LocalStates, Packages
  <2>6. QED
    BY <2>1, <2>2, <2>3, <2>4, <2>5 DEF LockHeld
<1>7. ASSUME NEW p \in Procs, RequeueBlocked(p) \/ ReconcileOrphaned(p)
      PROVE  UNCHANGED <<run, lock>>
  BY <1>7 DEF RequeueBlocked, ReconcileOrphaned
<1>8. ASSUME NEW j \in Jobs, Upload(j) \/ ExpireLease(j) PROVE UNCHANGED <<run, lock>>
  BY <1>8 DEF Upload, ExpireLease
<1>9. ASSUME NEW d \in DOMAIN docs, Purge(d) PROVE UNCHANGED <<run, lock>>
  BY <1>9 DEF Purge
<1>10. ASSUME ProviderDown \/ ProviderUp PROVE UNCHANGED <<run, lock>>
  BY <1>10 DEF ProviderDown, ProviderUp
<1>11. ASSUME UNCHANGED vars PROVE UNCHANGED <<run, lock>>
  BY <1>11 DEF vars
<1>12. QED
  BY <1>2, <1>3, <1>4, <1>5, <1>6, <1>7, <1>8, <1>9, <1>10, <1>11,
     ProcessKeepsLock DEF Next

\* The only way to the insert is a duplicate lookup that found nothing.
LEMMA LookupBeforeCreate ==
  ASSUME TypeInv, [Next]_vars, NEW q \in Procs, run'[q].pc = "create",
         run'[q] # run[q]
  PROVE  /\ UNCHANGED docs /\ Copies(Package(q)[run[q].pos]) = {}
         /\ run'[q].job = run[q].job /\ run'[q].pos = run[q].pos
<1>1. run \in [Procs -> LocalStates(Len(docs))]
  BY Typed
<1>2. ASSUME UNCHANGED run PROVE FALSE
  BY <1>2
<1>3. ASSUME NEW p \in Procs, Stop(p) PROVE FALSE
  BY <1>3, StopLeaves DEF Inside
<1>4. ASSUME NEW p \in Procs, NEW o \in Outcomes, EndFile(p, o) PROVE FALSE
  BY <1>4, EndFileMoves
<1>5. ASSUME NEW p \in Procs, NEW d \in Nat,
             NEW pc \in {"store", "extract", "resume", "embed", "upsert"}, Goto(p, pc, d)
      PROVE  FALSE
  <2>1. pc \in PCs /\ pc # "create"
    BY DEF PCs
  <2>2. QED
    BY <1>5, <2>1, GotoMoves
<1>6. ASSUME NEW p \in Procs, NEW j \in Jobs, Claim(p, j) PROVE FALSE
  <2>1. run'[p] = [IdleRun EXCEPT !.pc = "load", !.job = j]
        /\ \A r \in Procs \ {p} : run'[r] = run[r]
    BY <1>1, <1>6 DEF Claim
  <2>2. run'[p].pc = "load"
    BY <2>1, IdleTyped
  <2>3. QED
    BY <2>1, <2>2
<1>7. ASSUME NEW p \in Procs, NEW t \in BOOLEAN, Raise(p, t) PROVE FALSE
  <2>1. \A r \in Procs \ {p} : run'[r] = run[r]
    BY <1>1, <1>7 DEF Raise
  <2> DEFINE again == t /\ jobs[run[p].job].attempts + 1 < MaxAttempts
             new == IF again THEN [jobs[run[p].job] EXCEPT !.status = "pending",
                                                           !.attempts = @ + 1]
                    ELSE [jobs[run[p].job] EXCEPT !.status = "failed"]
             sleeping == [IdleRun EXCEPT !.pc = "backoff", !.job = run[p].job,
                                         !.mem = new]
  <2>2. run'[p] = IF again THEN sleeping ELSE IdleRun
    BY <1>1, <1>7 DEF Raise
  <2> HIDE DEF new, again
  <2>3. sleeping.pc = "backoff" /\ IdleRun.pc = "idle"
    BY IdleTyped
  <2> HIDE DEF sleeping
  <2>4. run'[p].pc # "create"
    BY <2>2, <2>3
  <2>5. QED
    BY <2>1, <2>4
<1>8. ASSUME NEW p \in Procs, Load(p) \/ EndBackoff(p) \/ AcquireLock(p) \/ Start(p)
      PROVE  FALSE
  <2>1. CASE Stop(p)
    BY <2>1, <1>3
  <2>2. CASE ~Stop(p)
    <3>1. PICK pc \in {"lock", "start", "file"} :
            \E mem : run' = [run EXCEPT ![p].pc = pc, ![p].mem = mem]
      <4>1. run = [run EXCEPT ![p].mem = run[p].mem]
        BY <1>1 DEF LocalStates
      <4>2. CASE Load(p) \/ Start(p)
        BY <2>2, <4>2 DEF Load, Start
      <4>3. CASE EndBackoff(p) \/ AcquireLock(p)
        <5>1. PICK pc \in {"lock", "start"} : run' = [run EXCEPT ![p].pc = pc]
          BY <2>2, <4>3 DEF EndBackoff, AcquireLock
        <5>2. run' = [run EXCEPT ![p].pc = pc, ![p].mem = run[p].mem]
          BY <1>1, <5>1 DEF LocalStates
        <5>3. QED
          BY <5>2
      <4>4. QED
        BY <1>8, <4>2, <4>3
    <3>2. run'[p].pc = pc /\ \A r \in Procs \ {p} : run'[r] = run[r]
      BY <1>1, <3>1 DEF LocalStates
    <3>3. QED
      BY <3>2
  <2>3. QED
    BY <2>1, <2>2
<1>9. ASSUME NEW p \in Procs, Rollup(p) \/ Crash(p) PROVE FALSE
  BY <1>9, <1>3 DEF Rollup, Crash
<1>10. ASSUME NEW p \in Procs, Store(p) \/ Extract(p) \/ Resume(p) \/ Embed(p)
                                \/ Upsert(p) \/ Create(p)
       PROVE  FALSE
  <2>1. run[p].doc \in Nat /\ Len(docs) + 1 \in Nat
    BY Typed DEF LocalStates
  <2>2. \/ \E o \in Outcomes : EndFile(p, o)
        \/ \E pc \in {"store", "extract", "resume", "embed", "upsert"}, d \in Nat :
              Goto(p, pc, d)
    BY <1>10, <2>1 DEF Store, Extract, StoreOrExtract, Resume, Embed, Upsert, Create,
                       EndDoc, Outcomes
  <2>3. QED
    BY <2>2, <1>4, <1>5
<1>11. ASSUME NEW p \in Procs, NextFile(p)
       PROVE  /\ UNCHANGED docs /\ Copies(Package(q)[run[q].pos]) = {}
              /\ run'[q].job = run[q].job /\ run'[q].pos = run[q].pos
  <2>1. \A d \in DOMAIN docs : d \in Nat
    BY Typed
  <2>2. \/ \E o \in Outcomes : EndFile(p, o)
        \/ \E d \in Nat : Goto(p, "resume", d)
        \/ Goto(p, "create", 0) /\ Copies(Package(p)[run[p].pos]) = {}
    BY <1>11, <2>1 DEF NextFile, Existing, Copies, Outcomes
  <2>3. Goto(p, "create", 0) /\ Copies(Package(p)[run[p].pos]) = {}
    BY <2>2, <1>4, <1>5
  <2>4. p = q /\ run'[p].job = run[p].job /\ run'[p].pos = run[p].pos
    BY <2>3, GotoMoves, 0 \in Nat DEF PCs
  <2>5. QED
    BY <1>11, <2>3, <2>4 DEF NextFile
<1>12. ASSUME NEW p \in Procs, RequeueBlocked(p) \/ ReconcileOrphaned(p) PROVE FALSE
  BY <1>2, <1>12 DEF RequeueBlocked, ReconcileOrphaned
<1>13. ASSUME NEW j \in Jobs, Upload(j) \/ ExpireLease(j) PROVE FALSE
  BY <1>2, <1>13 DEF Upload, ExpireLease
<1>14. ASSUME NEW d \in DOMAIN docs, Purge(d) PROVE FALSE
  BY <1>2, <1>14 DEF Purge
<1>15. ASSUME NEW k \in Packages, ExpireLock(k) PROVE FALSE
  BY <1>2, <1>15 DEF ExpireLock
<1>16. ASSUME ProviderDown \/ ProviderUp \/ UNCHANGED vars PROVE FALSE
  BY <1>2, <1>16 DEF ProviderDown, ProviderUp, vars
<1>17. QED
  BY <1>6, <1>7, <1>8, <1>9, <1>10, <1>11, <1>12, <1>13, <1>14, <1>15, <1>16
     DEF Next, Process

LEMMA StepKeepsCopies ==
  ASSUME DisjointPackages, TypeInv, CopyInv, [Next]_vars
  PROVE  Fresh' /\ OneLiveCopy'
<1>1. docs \in Seq(Documents) /\ Len(docs) \in Nat /\ DOMAIN docs = 1..Len(docs)
  BY Typed
<1>2. CASE \A p \in Procs : ~Create(p)
  <2>1. DocsKept
    BY <1>2, StepKeepsDocs
  <2>2. OneLiveCopy'
    BY <2>1 DEF DocsKept, CopyInv, OneLiveCopy, Copies, Live
  <2>3. ASSUME NEW q \in Procs, run'[q].pc = "create", NEW d \in DOMAIN docs',
               docs'[d].content = Entries[run'[q].job][run'[q].pos]
        PROVE  docs'[d].deleted
    <3>1. CASE run'[q] = run[q]
      BY <2>1, <2>3, <3>1 DEF DocsKept, CopyInv, Fresh
    <3>2. CASE run'[q] # run[q]
      BY <2>3, <3>2, LookupBeforeCreate DEF Copies, Live, Package
    <3>3. QED
      BY <3>1, <3>2
  <2>4. QED
    BY <2>2, <2>3 DEF Fresh
<1>3. ASSUME NEW p \in Procs, Create(p) PROVE Fresh' /\ OneLiveCopy'
  <2> DEFINE doc == [content |-> Package(p)[run[p].pos], job |-> run[p].job,
                     status |-> "open", deleted |-> FALSE, chunks |-> 0]
  <2>1. run[p].pc = "create" /\ docs' = Append(docs, doc) /\ UNCHANGED lock
    BY <1>3 DEF Create
  <2>2. doc.content = Entries[run[p].job][run[p].pos]
    BY DEF Package
  <2> HIDE DEF doc
  <2>3. /\ DOMAIN docs' = 1..(Len(docs) + 1) /\ docs'[Len(docs) + 1] = doc
        /\ \A d \in 1..Len(docs) : docs'[d] = docs[d]
    <3>1. doc \in Documents
      <4>1. run[p].job \in Jobs /\ run[p].pos \in DOMAIN Entries[run[p].job]
        BY <2>1, Typed DEF LocalStates, InPackage
      <4>2. QED
        BY <4>1 DEF doc, Documents, DocStatuses, Package, Contents
    <3>2. QED
      BY <1>1, <2>1, <3>1
  <2>4. \A d \in DOMAIN docs : docs[d].content = doc.content => docs[d].deleted
    BY <2>1, <2>2 DEF CopyInv, Fresh
  <2>5. OneLiveCopy'
    <3> SUFFICES ASSUME NEW c \in Contents, NEW d \in DOMAIN docs', NEW e \in DOMAIN docs',
                        ~docs'[d].deleted, ~docs'[e].deleted,
                        docs'[d].content = c, docs'[e].content = c
                 PROVE  d = e
      BY DEF OneLiveCopy, Copies, Live
    <3>1. CASE d \in 1..Len(docs) /\ e \in 1..Len(docs)
      BY <1>1, <2>3, <3>1 DEF CopyInv, OneLiveCopy, Copies, Live
    <3>2. CASE d = Len(docs) + 1 \/ e = Len(docs) + 1
      BY <1>1, <2>3, <2>4, <3>2
    <3>3. QED
      BY <1>1, <2>3, <3>1, <3>2
  <2>6. ASSUME NEW q \in Procs, run'[q].pc = "create", NEW d \in DOMAIN docs',
               docs'[d].content = Entries[run'[q].job][run'[q].pos]
        PROVE  docs'[d].deleted
    <3>1. q # p /\ run'[q] = run[q]
      <4>1. Goto(p, "store", Len(docs) + 1) /\ Len(docs) + 1 \in Nat
        BY <1>1, <1>3 DEF Create
      <4>2. QED
        BY <2>6, <4>1, GotoMoves DEF PCs
    <3>2. CASE d \in 1..Len(docs)
      BY <1>1, <2>3, <2>6, <3>1, <3>2 DEF CopyInv, Fresh
    <3>3. CASE d = Len(docs) + 1
      <4>1. Entries[run[q].job][run[q].pos] = Entries[run[p].job][run[p].pos]
        BY <2>2, <2>3, <2>6, <3>1, <3>3
      <4>2. \A r \in {p, q} : /\ run[r].job \in Jobs /\ run[r].pc = "create"
                              /\ run[r].pos \in DOMAIN Entries[run[r].job]
        BY <2>1, <2>6, <3>1, Typed DEF LocalStates, InPackage
      <4>3. Entries[run[q].job] = Entries[run[p].job]
        BY <4>1, <4>2 DEF DisjointPackages
      <4>4. lock[Entries[run[q].job]] = q /\ lock[Entries[run[p].job]] = p
        BY <4>2 DEF CopyInv, LockHeld, Inside
      <4>5. QED
        BY <3>1, <4>3, <4>4
    <3>4. QED
      BY <1>1, <2>3, <3>2, <3>3
  <2>7. QED
    BY <2>5, <2>6 DEF Fresh
<1>4. QED
  BY <1>2, <1>3

-----------------------------------------------------------------------------
(* A text is chunked once                                                  *)

\* A process moves by its own steps only.
LEMMA OwnSteps ==
  ASSUME TypeInv, [Next]_vars, NEW q \in Procs, run'[q] # run[q]
  PROVE  \/ Process(q) \/ Crash(q)
         \/ \E j \in Jobs : Claim(q, j)
         \/ \E t \in BOOLEAN : Raise(q, t)
<1>1. run \in [Procs -> LocalStates(Len(docs))]
  BY Typed
<1>2. ASSUME NEW p \in Procs, Process(p), p # q PROVE run'[q] = run[q]
  <2>1. CASE Load(p) \/ EndBackoff(p)
    BY <1>1, <1>2, <2>1 DEF Load, EndBackoff
  <2>2. CASE AcquireLock(p) \/ Start(p) \/ Rollup(p)
    BY <1>1, <1>2, <2>2 DEF AcquireLock, Start, Rollup, Stop
  <2>3. CASE \/ NextFile(p) \/ Create(p) \/ Store(p) \/ Extract(p) \/ Resume(p)
             \/ Embed(p) \/ Upsert(p)
    BY <1>2, <2>3, FileActions, FileStepMoves
  <2>4. QED
    BY <1>2, <2>1, <2>2, <2>3 DEF Process
<1>3. ASSUME NEW p \in Procs, p # q,
             Crash(p) \/ (\E j \in Jobs : Claim(p, j)) \/ (\E t \in BOOLEAN : Raise(p, t))
      PROVE  run'[q] = run[q]
  BY <1>1, <1>3 DEF Crash, Stop, Claim, Raise
<1>4. ASSUME \/ \E p \in Procs : RequeueBlocked(p) \/ ReconcileOrphaned(p)
             \/ \E j \in Jobs : Upload(j) \/ ExpireLease(j)
             \/ \E d \in DOMAIN docs : Purge(d)
             \/ \E k \in Packages : ExpireLock(k)
             \/ ProviderDown \/ ProviderUp \/ UNCHANGED vars
      PROVE  UNCHANGED run
  BY <1>4 DEF RequeueBlocked, ReconcileOrphaned, Upload, ExpireLease, Purge, ExpireLock,
              ProviderDown, ProviderUp, vars
<1> QED
  BY <1>2, <1>3, <1>4 DEF Next

\* Where the loop over the files begins anew.
LEMMA Beginnings ==
  ASSUME TypeInv, NEW q \in Procs,
         \/ Stop(q) \/ Crash(q)
         \/ \E j \in Jobs : Claim(q, j)
         \/ \E t \in BOOLEAN : Raise(q, t)
  PROVE  /\ run'[q].pc \in {"idle", "load", "backoff"}
         /\ run'[q].pos = 1 /\ run'[q].outcomes = {}
<1>1. run \in [Procs -> LocalStates(Len(docs))]
  BY Typed
<1>2. /\ IdleRun \in LocalStates(0) /\ IdleRun.pc = "idle"
      /\ IdleRun.pos = 1 /\ IdleRun.outcomes = {}
  BY IdleTyped DEF IdleRun, LocalStates
<1>3. CASE Stop(q) \/ Crash(q)
  BY <1>1, <1>2, <1>3 DEF Crash, Stop
<1>4. ASSUME NEW j \in Jobs, Claim(q, j)
      PROVE  run'[q].pc = "load" /\ run'[q].pos = 1 /\ run'[q].outcomes = {}
  <2>1. run'[q] = [IdleRun EXCEPT !.pc = "load", !.job = j]
    BY <1>1, <1>4 DEF Claim
  <2> QED
    BY <1>2, <2>1 DEF LocalStates
<1>5. ASSUME NEW t \in BOOLEAN, Raise(q, t)
      PROVE  run'[q].pc \in {"idle", "backoff"} /\ run'[q].pos = 1 /\ run'[q].outcomes = {}
  <2>1. \/ run'[q] = IdleRun
        \/ \E m : run'[q] = [IdleRun EXCEPT !.pc = "backoff", !.job = run[q].job, !.mem = m]
    BY <1>1, <1>5 DEF Raise
  <2> QED
    BY <1>2, <2>1 DEF LocalStates
<1> QED
  BY <1>3, <1>4, <1>5

\* The way from the claim to the first file.
LEMMA Approaches ==
  ASSUME TypeInv, NEW q \in Procs,
         Load(q) \/ EndBackoff(q) \/ AcquireLock(q) \/ Start(q), ~Stop(q)
  PROVE  /\ run[q].pc \in {"load", "backoff", "lock", "start"}
         /\ run'[q].pc \in {"lock", "start", "file"}
         /\ run'[q].job = run[q].job /\ run'[q].pos = run[q].pos
         /\ run'[q].outcomes = run[q].outcomes
         /\ UNCHANGED docs
<1>1. run \in [Procs -> LocalStates(Len(docs))]
  BY Typed
<1>2. CASE Load(q) \/ Start(q)
  <2>0. CASE Load(q)
    BY <1>1, <2>0 DEF Load, LocalStates
  <2>1. CASE Start(q)
    <3>1. PICK m : run' = [run EXCEPT ![q].pc = "file", ![q].mem = m]
      BY <2>1 DEF Start
    <3>2. run'[q] = [run[q] EXCEPT !.pc = "file", !.mem = m]
      BY <1>1, <3>1
    <3>3. run[q].pc = "start" /\ UNCHANGED docs
      BY <2>1 DEF Start
    <3> QED
      BY <1>1, <3>2, <3>3 DEF LocalStates
  <2> QED
    BY <1>2, <2>0, <2>1
<1>3. CASE EndBackoff(q) \/ AcquireLock(q)
  <2>1. PICK pc \in {"lock", "start"} : run' = [run EXCEPT ![q].pc = pc]
    BY <1>3 DEF EndBackoff, AcquireLock
  <2>2. run'[q] = [run[q] EXCEPT !.pc = pc]
    BY <1>1, <2>1
  <2> QED
    BY <1>1, <1>3, <2>2 DEF LocalStates, EndBackoff, AcquireLock
<1> QED
  BY <1>2, <1>3

LEMMA GotoLocal ==
  ASSUME TypeInv, NEW p \in Procs, NEW pc \in PCs, NEW d \in Nat, Goto(p, pc, d)
  PROVE  run'[p].doc = d /\ run'[p].outcomes = run[p].outcomes /\ UNCHANGED jobs
<1>1. run[p] \in LocalStates(Len(docs)) /\ run'[p] = [run[p] EXCEPT !.pc = pc, !.doc = d]
  BY Typed DEF Goto
<1> QED
  BY <1>1 DEF LocalStates, Goto

LEMMA EndFileLocal ==
  ASSUME TypeInv, NEW p \in Procs, NEW o \in Outcomes, EndFile(p, o)
  PROVE  /\ run'[p].pos = run[p].pos + 1 /\ run'[p].outcomes = run[p].outcomes \cup {o}
         /\ run'[p].pc = IF run[p].pos = Len(Package(p)) THEN "rollup" ELSE "file"
<1> DEFINE pc == IF run[p].pos = Len(Package(p)) THEN "rollup" ELSE "file"
<1>1. run[p] \in LocalStates(Len(docs))
      /\ run'[p] = [run[p] EXCEPT !.pc = pc, !.pos = @ + 1, !.doc = 0,
                                  !.outcomes = @ \cup {o}]
  BY Typed DEF EndFile
<1> HIDE DEF pc
<1>2. run'[p].pc = pc
  BY <1>1 DEF LocalStates
<1>3. run'[p].pos = run[p].pos + 1 /\ run'[p].outcomes = run[p].outcomes \cup {o}
  BY <1>1 DEF LocalStates
<1> QED
  BY <1>2, <1>3 DEF pc

\* Where run_import_job works on a document, and where it is past Start.
Working == {"store", "extract", "resume", "embed", "upsert"}
InFiles == {"file", "create", "rollup"} \cup Working

\* What a step on a document does to it: it goes on, ends with a status that
\* its outcome tells, or gets its chunks.
WorksOn(p, d) ==
  /\ DOMAIN docs' = DOMAIN docs
  /\ \A e \in DOMAIN docs \ {d} : docs'[e] = docs[e]
  /\ docs'[d].content = docs[d].content /\ docs'[d].job = docs[d].job
  /\ docs'[d].deleted = docs[d].deleted
  /\ \/ /\ \E pc \in {"extract", "embed", "upsert"} :
             /\ Goto(p, pc, d) /\ pc # run[p].pc
             /\ pc = "extract" => run[p].pc = "store" /\ ~CancelSeen(p)
        /\ docs'[d].chunks = docs[d].chunks
        /\ docs'[d].status \in {docs[d].status, "open"}
     \/ /\ \/ /\ CancelSeen(p) /\ run[p].pc \in {"store", "extract"}
              /\ EndFile(p, "cancelled") /\ docs'[d].status = "cancelled"
           \/ EndFile(p, "failed") /\ docs'[d].status = "failed"
           \/ EndFile(p, "blocked") /\ docs'[d].status = "paused"
        /\ docs'[d].chunks = docs[d].chunks
     \/ /\ EndFile(p, "indexed") /\ docs'[d].status = "indexed"
        /\ docs'[d].chunks = docs[d].chunks + 1

LEMMA SetDocIs ==
  ASSUME TypeInv, NEW d \in DOMAIN docs, NEW s, SetDoc(d, s)
  PROVE  /\ DOMAIN docs' = DOMAIN docs
         /\ \A e \in DOMAIN docs \ {d} : docs'[e] = docs[e]
         /\ docs'[d].content = docs[d].content /\ docs'[d].job = docs[d].job
         /\ docs'[d].deleted = docs[d].deleted /\ docs'[d].chunks = docs[d].chunks
         /\ docs'[d].status = s
<1>1. docs \in [DOMAIN docs -> Documents]
  BY Typed
<1>2. docs'[d] = [docs[d] EXCEPT !.status = s]
  BY <1>1 DEF SetDoc
<1> QED
  BY <1>1, <1>2 DEF SetDoc, Documents

LEMMA WorkSteps ==
  ASSUME TypeInv, NEW p \in Procs, run[p].pc \in Working, run[p].doc \in DOMAIN docs,
         Process(p)
  PROVE  WorksOn(p, run[p].doc)
<1> DEFINE d == run[p].doc
<1>1. Store(p) \/ Extract(p) \/ Resume(p) \/ Embed(p) \/ Upsert(p)
  BY DEF Process, Working, Load, AcquireLock, Start, NextFile, Create, Rollup, EndBackoff
<1>3. ASSUME NEW s \in DocStatuses, NEW o \in Outcomes, EndDoc(p, s, o),
             \/ s = "cancelled" /\ o = "cancelled" /\ CancelSeen(p)
                  /\ run[p].pc \in {"store", "extract"}
             \/ s = "failed" /\ o = "failed"
             \/ s = "paused" /\ o = "blocked"
      PROVE  WorksOn(p, d)
  <2>1. SetDoc(d, s) /\ EndFile(p, o)
    BY <1>3 DEF EndDoc
  <2> QED
    BY <1>3, <2>1, SetDocIs DEF WorksOn
<1>4. ASSUME NEW pc \in {"extract", "embed"}, Goto(p, pc, d), SetDoc(d, "open"),
             pc # run[p].pc, pc = "extract" => run[p].pc = "store" /\ ~CancelSeen(p)
      PROVE  WorksOn(p, d)
  BY <1>4, SetDocIs DEF WorksOn
<1>5. CASE Store(p) \/ Extract(p)
  BY <1>5, <1>3, <1>4 DEF Store, Extract, StoreOrExtract, DocStatuses, Outcomes
<1>6. CASE Resume(p)
  BY <1>6, <1>3, <1>4 DEF Resume, DocStatuses, Outcomes
<1>7. CASE Embed(p)
  <2>1. CASE EndDoc(p, "paused", "blocked") \/ EndDoc(p, "failed", "failed")
    BY <2>1, <1>3 DEF DocStatuses, Outcomes
  <2>2. CASE Goto(p, "upsert", d) /\ UNCHANGED docs
    BY <1>7, <2>2 DEF WorksOn, Embed
  <2> QED
    BY <1>7, <2>1, <2>2 DEF Embed
<1>8. CASE Upsert(p)
  <2>1. docs \in [DOMAIN docs -> Documents] /\ EndFile(p, "indexed")
        /\ docs' = [docs EXCEPT ![d].chunks = @ + 1, ![d].status = "indexed"]
    BY <1>8, Typed DEF Upsert
  <2>2. docs'[d] = [docs[d] EXCEPT !.chunks = @ + 1, !.status = "indexed"]
    BY <2>1
  <2>3. DOMAIN docs' = DOMAIN docs /\ \A e \in DOMAIN docs \ {d} : docs'[e] = docs[e]
    BY <2>1
  <2>4. docs[d] \in Documents
    BY <2>1
  <2>5. /\ docs'[d].content = docs[d].content /\ docs'[d].job = docs[d].job
        /\ docs'[d].deleted = docs[d].deleted /\ docs'[d].status = "indexed"
        /\ docs'[d].chunks = docs[d].chunks + 1
    BY <2>2, <2>4 DEF Documents
  <2>6. EndFile(p, "indexed")
    BY <2>1
  <2> QED
    BY <2>3, <2>5, <2>6 DEF WorksOn
<1> QED
  BY <1>1, <1>5, <1>6, <1>7, <1>8

\* What a step makes of the file it looks at.
LEMMA FileLooks ==
  ASSUME TypeInv, NEW p \in Procs, run[p].pc = "file", Process(p)
  PROVE  LET c == Package(p)[run[p].pos] IN
         /\ UNCHANGED docs
         /\ \/ CancelSeen(p) /\ EndFile(p, "cancelled")
            \/ c \in Skipped /\ EndFile(p, "skipped")
            \/ EndFile(p, "failed")
            \/ \E d \in Copies(c) : /\ EndFile(p, "duplicate")
                                    /\ docs[d].status \in {"indexed", "cancelled"}
            \/ \E d \in Copies(c) : /\ Goto(p, "resume", d)
                                    /\ docs[d].status \in {"open", "paused"}
            \/ Goto(p, "create", 0) /\ ~CancelSeen(p)
<1>1. NextFile(p)
  BY DEF Process, Load, AcquireLock, Start, Create, Rollup, EndBackoff, Store, Extract,
         StoreOrExtract, Resume, Embed, Upsert
<1> QED
  BY <1>1 DEF NextFile, Existing

LEMMA Inserts ==
  ASSUME TypeInv, NEW p \in Procs, run[p].pc = "create", Process(p)
  PROVE  LET n == Len(docs) + 1 IN
         /\ Goto(p, "store", n)
         /\ DOMAIN docs' = 1..n /\ \A e \in 1..Len(docs) : docs'[e] = docs[e]
         /\ docs'[n].content = Entries[run[p].job][run[p].pos]
         /\ docs'[n].job = run[p].job /\ docs'[n].status = "open"
         /\ docs'[n].chunks = 0
<1> DEFINE doc == [content |-> Package(p)[run[p].pos], job |-> run[p].job,
                   status |-> "open", deleted |-> FALSE, chunks |-> 0]
<1>1. Create(p)
  BY DEF Process, Load, AcquireLock, Start, NextFile, Rollup, EndBackoff, Store, Extract,
         StoreOrExtract, Resume, Embed, Upsert
<1>2. docs' = Append(docs, doc) /\ Goto(p, "store", Len(docs) + 1)
  BY <1>1 DEF Create
<1>3. doc.content = Entries[run[p].job][run[p].pos] /\ doc.job = run[p].job
      /\ doc.status = "open" /\ doc.chunks = 0
  BY DEF Package
<1>4. doc \in Documents
  <2>1. run[p].job \in Jobs /\ run[p].pos \in DOMAIN Entries[run[p].job]
    BY Typed DEF LocalStates, InPackage
  <2> QED
    BY <2>1 DEF Documents, DocStatuses, Package, Contents
<1> HIDE DEF doc
<1>5. docs \in Seq(Documents) /\ Len(docs) \in Nat
  BY Typed
<1>6. /\ DOMAIN docs' = 1..(Len(docs) + 1) /\ docs'[Len(docs) + 1] = doc
      /\ \A e \in 1..Len(docs) : docs'[e] = docs[e]
  BY <1>2, <1>4, <1>5
<1> QED
  BY <1>2, <1>3, <1>6

\* A worker has its document in hand from the insert or the lookup to the
\* outcome; the document is of the file it is at and has no chunks.
AtDocument ==
  \A p \in Procs : run[p].pc \in Working =>
    /\ run[p].doc \in DOMAIN docs
    /\ docs[run[p].doc].content = Entries[run[p].job][run[p].pos]
    /\ docs[run[p].doc].chunks = 0

\* A document that would be resumed has no chunks.
ChunksRight ==
  \A d \in DOMAIN docs :
    /\ docs[d].chunks <= 1
    /\ docs[d].status \in {"open", "paused"} => docs[d].chunks = 0

\* Inside the lock, two processes are never at the same file.
LEMMA SameFile ==
  ASSUME TypeInv, LockHeld, DisjointPackages, NEW p \in Procs, NEW q \in Procs,
         run[p].pc \in Inside, run[q].pc \in Inside,
         NEW i \in DOMAIN Entries[run[p].job], NEW l \in DOMAIN Entries[run[q].job],
         Entries[run[p].job][i] = Entries[run[q].job][l]
  PROVE  p = q
<1>1. run[p].job \in Jobs /\ run[q].job \in Jobs
  BY Typed DEF LocalStates
<1>2. Entries[run[p].job] = Entries[run[q].job]
  BY <1>1 DEF DisjointPackages
<1> QED
  BY <1>2 DEF LockHeld

LEMMA OneAtDocument ==
  ASSUME TypeInv, LockHeld, DisjointPackages, AtDocument, NEW p \in Procs, NEW q \in Procs,
         run[p].pc \in Working, run[q].pc \in Working, run[p].doc = run[q].doc
  PROVE  p = q
<1>1. run[p].pos \in DOMAIN Entries[run[p].job] /\ run[q].pos \in DOMAIN Entries[run[q].job]
  BY Typed DEF InPackage, Working
<1>2. run[p].pc \in Inside /\ run[q].pc \in Inside
  BY DEF Working, Inside
<1> QED
  BY <1>1, <1>2, SameFile DEF AtDocument

\* What may become of a document in a step: nothing, its deletion, or a step of
\* the process that works on it.
LEMMA DocFate ==
  ASSUME TypeInv, AtDocument, [Next]_vars, NEW d \in DOMAIN docs
  PROVE  /\ d \in DOMAIN docs'
         /\ docs'[d].content = docs[d].content /\ docs'[d].job = docs[d].job
         /\ docs[d].deleted => docs'[d].deleted
         /\ \/ docs'[d] = docs[d]
            \/ /\ Purge(d) /\ docs'[d].deleted /\ docs'[d].chunks = 0
               /\ docs'[d].status \notin {"open", "paused"}
            \/ \E p \in Procs : /\ run[p].pc \in Working /\ run[p].doc = d
                                /\ WorksOn(p, d)
<1>1. docs \in [DOMAIN docs -> Documents] /\ DOMAIN docs = 1..Len(docs) /\ Len(docs) \in Nat
  BY Typed
<1>2. CASE UNCHANGED docs
  BY <1>2
<1>3. ASSUME NEW p \in Procs, Process(p), run[p].pc \in Working
      PROVE  \/ d \in DOMAIN docs' /\ docs'[d] = docs[d]
             \/ run[p].doc = d /\ WorksOn(p, d)
  <2>1. WorksOn(p, run[p].doc)
    BY <1>3, WorkSteps DEF AtDocument
  <2> QED
    BY <2>1 DEF WorksOn
<1>4. ASSUME NEW p \in Procs, Process(p), run[p].pc = "create"
      PROVE  d \in DOMAIN docs' /\ docs'[d] = docs[d]
  BY <1>1, <1>4, Inserts
<1>5. ASSUME NEW p \in Procs, Process(p), run[p].pc \notin Working, run[p].pc # "create"
      PROVE  UNCHANGED docs
  BY <1>5 DEF Process, Load, AcquireLock, Start, NextFile, Create, Store, Extract,
              StoreOrExtract, Resume, Embed, Upsert, Rollup, EndBackoff, Working
<1>6. ASSUME NEW e \in DOMAIN docs, Purge(e), e # d
      PROVE  DOMAIN docs' = DOMAIN docs /\ docs'[d] = docs[d]
  BY <1>1, <1>6 DEF Purge
<1>7. CASE Purge(d)
  <2> DEFINE s == IF docs[d].status \in {"indexed", "failed"} THEN docs[d].status
                  ELSE "cancelled"
  <2>1. docs'[d] = [docs[d] EXCEPT !.deleted = TRUE, !.chunks = 0, !.status = s]
        /\ DOMAIN docs' = DOMAIN docs
    BY <1>1, <1>7 DEF Purge
  <2>2. s \notin {"open", "paused"}
    OBVIOUS
  <2> HIDE DEF s
  <2> QED
    BY <1>1, <1>7, <2>1, <2>2 DEF Documents
<1>8. ASSUME \/ \E p \in Procs : \/ RequeueBlocked(p) \/ ReconcileOrphaned(p) \/ Crash(p)
                                 \/ \E j \in Jobs : Claim(p, j)
                                 \/ \E t \in BOOLEAN : Raise(p, t)
             \/ \E j \in Jobs : Upload(j) \/ ExpireLease(j)
             \/ \E k \in Packages : ExpireLock(k)
             \/ ProviderDown \/ ProviderUp \/ UNCHANGED vars
      PROVE  UNCHANGED docs
  BY <1>8 DEF RequeueBlocked, ReconcileOrphaned, Crash, Claim, Raise, Upload, ExpireLease,
              ExpireLock, ProviderDown, ProviderUp, vars
<1>9. CASE d \in DOMAIN docs' /\ docs'[d] = docs[d]
  BY <1>9
<1>10. ASSUME NEW p \in Procs, Process(p), run[p].pc \in Working,
              run[p].doc = d, WorksOn(p, d)
       PROVE  /\ d \in DOMAIN docs'
              /\ docs'[d].content = docs[d].content /\ docs'[d].job = docs[d].job
              /\ docs[d].deleted => docs'[d].deleted
  BY <1>10 DEF WorksOn
<1>11. CASE \E p \in Procs : Process(p)
  BY <1>2, <1>3, <1>4, <1>5, <1>9, <1>10, <1>11
<1>12. CASE \E e \in DOMAIN docs : Purge(e)
  BY <1>6, <1>7, <1>9, <1>12
<1> QED
  BY <1>2, <1>8, <1>11, <1>12 DEF Next

\* How a process comes to, and goes on with, a document.
LEMMA OwnWork ==
  ASSUME TypeInv, AtDocument, [Next]_vars, NEW q \in Procs, run'[q] # run[q],
         run'[q].pc \in Working
  PROVE  /\ run'[q].job = run[q].job /\ run'[q].pos = run[q].pos /\ UNCHANGED jobs
         /\ \/ /\ run[q].pc = "file" /\ run'[q].pc = "resume" /\ UNCHANGED docs
               /\ run'[q].doc \in Copies(Package(q)[run[q].pos])
               /\ docs[run'[q].doc].status \in {"open", "paused"}
            \/ /\ run[q].pc = "create" /\ run'[q].pc = "store"
               /\ run'[q].doc = Len(docs) + 1 /\ Process(q)
            \/ /\ run[q].pc \in Working /\ run'[q].doc = run[q].doc
               /\ run'[q].pc \in {"extract", "embed", "upsert"}
               /\ run'[q].pc = "extract" => run[q].pc = "store" /\ ~CancelSeen(q)
               /\ WorksOn(q, run[q].doc)
               /\ docs'[run[q].doc].chunks = docs[run[q].doc].chunks
<1>1. Process(q)
  BY OwnSteps, Beginnings DEF Working
<1>2. CASE run[q].pc = "file"
  <2>1. \A o \in Outcomes : ~EndFile(q, o)
    BY EndFileLocal DEF Working
  <2>2. PICK d \in Copies(Package(q)[run[q].pos]) :
           Goto(q, "resume", d) /\ docs[d].status \in {"open", "paused"} /\ UNCHANGED docs
    <3>1. ~Goto(q, "create", 0)
      BY GotoMoves DEF PCs, Working
    <3> QED
      BY <1>1, <1>2, <2>1, <3>1, FileLooks DEF Outcomes
  <2>3. d \in Nat
    BY Typed DEF Copies
  <2> QED
    BY <1>2, <2>2, <2>3, GotoMoves, GotoLocal DEF PCs
<1>3. CASE run[q].pc = "create"
  <2>1. Goto(q, "store", Len(docs) + 1) /\ Len(docs) + 1 \in Nat
    BY <1>1, <1>3, Inserts, Typed
  <2> QED
    BY <1>1, <1>3, <2>1, GotoMoves, GotoLocal DEF PCs
<1>4. CASE run[q].pc \in Working
  <2>1. WorksOn(q, run[q].doc) /\ run[q].doc \in Nat
    BY <1>1, <1>4, WorkSteps, Typed DEF AtDocument, LocalStates
  <2>2. \A o \in Outcomes : ~EndFile(q, o)
    BY EndFileLocal DEF Working
  <2>3. PICK pc \in {"extract", "embed", "upsert"} :
           /\ Goto(q, pc, run[q].doc)
           /\ pc = "extract" => run[q].pc = "store" /\ ~CancelSeen(q)
           /\ docs'[run[q].doc].chunks = docs[run[q].doc].chunks
    BY <2>1, <2>2 DEF WorksOn, Outcomes
  <2>4. pc \in PCs
    BY DEF PCs
  <2> QED
    BY <1>4, <2>1, <2>3, <2>4, GotoMoves, GotoLocal
<1>5. CASE run[q].pc \notin Working \cup {"file", "create"}
  <2>1. Load(q) \/ EndBackoff(q) \/ AcquireLock(q) \/ Start(q) \/ Stop(q)
    BY <1>1, <1>5 DEF Process, Store, Extract, StoreOrExtract, Resume, Embed, Upsert,
                      NextFile, Create, Rollup, Working
  <2> QED
    BY <2>1, Beginnings, Approaches DEF Working
<1> QED
  BY <1>2, <1>3, <1>4, <1>5

LEMMA WorkMoves ==
  ASSUME TypeInv, NEW q \in Procs, run[q].pc \in Working, WorksOn(q, run[q].doc)
  PROVE  run'[q] # run[q]
<1>1. run[q].doc \in Nat
  BY Typed DEF LocalStates
<1>2. ASSUME NEW o \in Outcomes, EndFile(q, o) PROVE run'[q] # run[q]
  BY <1>2, EndFileLocal DEF Working
<1>3. ASSUME NEW pc \in {"extract", "embed", "upsert"}, Goto(q, pc, run[q].doc), pc # run[q].pc
      PROVE  run'[q] # run[q]
  BY <1>1, <1>3, GotoMoves DEF PCs
<1> QED
  BY <1>2, <1>3 DEF WorksOn, Outcomes

LEMMA StepKeepsChunks ==
  ASSUME TypeInv, TypeInv', LockHeld, DisjointPackages, AtDocument, ChunksRight, [Next]_vars
  PROVE  AtDocument' /\ ChunksRight'
<1>0. DOMAIN docs = 1..Len(docs) /\ Len(docs) \in Nat /\ docs \in [DOMAIN docs -> Documents]
  BY Typed
<1>1. ASSUME NEW q \in Procs, run'[q].pc \in Working
      PROVE  /\ run'[q].doc \in DOMAIN docs'
             /\ docs'[run'[q].doc].content = Entries[run'[q].job][run'[q].pos]
             /\ docs'[run'[q].doc].chunks = 0
  <2>1. CASE run'[q] = run[q]
    <3> DEFINE d == run[q].doc
    <3>1. d \in DOMAIN docs /\ docs[d].chunks = 0
          /\ docs[d].content = Entries[run[q].job][run[q].pos]
      BY <1>1, <2>1 DEF AtDocument
    <3>2. ASSUME NEW p \in Procs, run[p].pc \in Working, run[p].doc = d, WorksOn(p, d)
          PROVE  FALSE
      <4>1. p = q
        BY <1>1, <2>1, <3>2, OneAtDocument
      <4> QED
        BY <1>1, <2>1, <3>2, <4>1, WorkMoves
    <3> QED
      BY <2>1, <3>1, <3>2, DocFate
  <2>2. CASE run'[q] # run[q]
    <3>1. CASE run[q].pc = "file"
      BY <1>1, <2>2, <3>1, OwnWork DEF Copies, Package, ChunksRight, Working
    <3>2. CASE run[q].pc = "create"
      <4>1. Process(q) /\ run'[q].doc = Len(docs) + 1
            /\ run'[q].job = run[q].job /\ run'[q].pos = run[q].pos
        BY <1>1, <2>2, <3>2, OwnWork DEF Working
      <4> QED
        BY <1>0, <3>2, <4>1, Inserts
    <3>3. CASE run[q].pc \in Working
      <4>1. /\ run'[q].doc = run[q].doc /\ WorksOn(q, run[q].doc)
            /\ docs'[run[q].doc].chunks = docs[run[q].doc].chunks
            /\ run'[q].job = run[q].job /\ run'[q].pos = run[q].pos
        BY <1>1, <2>2, <3>3, OwnWork DEF Working
      <4> QED
        BY <3>3, <4>1 DEF AtDocument, WorksOn
    <3> QED
      BY <1>1, <2>2, <3>1, <3>2, <3>3, OwnWork
  <2> QED
    BY <2>1, <2>2
<1>2. ASSUME NEW d \in DOMAIN docs
      PROVE  /\ docs'[d].chunks <= 1
             /\ docs'[d].status \in {"open", "paused"} => docs'[d].chunks = 0
  <2>1. CASE docs'[d] = docs[d]
    BY <2>1 DEF ChunksRight
  <2>2. ASSUME NEW p \in Procs, run[p].pc \in Working, run[p].doc = d, WorksOn(p, d)
        PROVE  /\ docs'[d].chunks <= 1
               /\ docs'[d].status \in {"open", "paused"} => docs'[d].chunks = 0
    BY <2>2 DEF WorksOn, AtDocument
  <2> QED
    BY <2>1, <2>2, DocFate
<1>3. ASSUME NEW d \in DOMAIN docs', d \notin DOMAIN docs PROVE docs'[d].chunks = 0
  <2>1. PICK p \in Procs : Create(p)
    BY <1>3, StepKeepsDocs DEF DocsKept
  <2>2. run[p].pc = "create" /\ Process(p)
    BY <2>1 DEF Create, Process
  <2> QED
    BY <1>0, <1>3, <2>2, Inserts
<1> QED
  BY <1>1, <1>2, <1>3 DEF AtDocument, ChunksRight

-----------------------------------------------------------------------------
(* What a completed job stands for                                         *)

\* Once _run_once has recorded the number of files, the row keeps it.
TotalsRight ==
  /\ \A j \in Jobs : jobs[j].total \in {0, Len(Entries[j])}
  /\ \A p \in Procs : run[p].mem.total # 0 => jobs[run[p].job].total = run[p].mem.total
  /\ \A p \in Procs : run[p].pc \in InFiles => jobs[run[p].job].total = Len(Package(p))
  /\ \A d \in DOMAIN docs : jobs[docs[d].job].total = Len(Entries[docs[d].job])

\* Only a job of one file is cancelled, and a document only when it is deleted:
\* whoever sees the cancel after its insert works for a deleted document.
CancelsRight ==
  /\ \A j \in Jobs : jobs[j].status = "cancelled" => Len(Entries[j]) = 1
  /\ \A d \in DOMAIN docs : docs[d].status = "cancelled" => docs[d].deleted
  /\ \A d \in DOMAIN docs : \E i \in DOMAIN Entries[docs[d].job] :
        docs[d].content = Entries[docs[d].job][i]
  /\ \A p \in Procs : run[p].pc = "create" => ~CancelSeen(p)
  /\ \A p \in Procs : run[p].pc \in {"store", "extract"} =>
       docs[run[p].doc].job = run[p].job
  /\ \A p \in Procs : run[p].pc \in {"store", "extract"} /\ CancelSeen(p)
       => docs[run[p].doc].deleted

\* The outcomes of a run tell of every file that is behind it and not settled;
\* the file in hand may be one of them again.
OutcomeRight(p) ==
  /\ run[p].pc \notin InFiles => run[p].pos = 1
  /\ run[p].pos = 1 => run[p].outcomes = {}
  /\ "cancelled" \in run[p].outcomes => Len(Package(p)) = 1 /\ run[p].outcomes = {"cancelled"}
  /\ run[p].pc = "rollup" => run[p].pos = Len(Package(p)) + 1
  /\ run[p].pc \in InFiles => \A i \in 1 .. run[p].pos - 1 :
       \/ Entries[run[p].job][i] \in Skipped \/ Settled(Entries[run[p].job][i])
       \/ run[p].outcomes \cap {"failed", "cancelled"} # {}
       \/ run[p].pc \in Working /\ Entries[run[p].job][i] = Entries[run[p].job][run[p].pos]

OutcomesRight == \A p \in Procs : OutcomeRight(p)

\* What a flush does to the fields the proofs follow.
LEMMA SaveIs ==
  ASSUME TypeInv, NEW p \in Procs, NEW new \in Rows, Save(p, new)
  PROVE  LET j == run[p].job IN
         /\ \A k \in Jobs \ {j} : jobs'[k] = jobs[k]
         /\ jobs'[j].total = IF new.total # run[p].mem.total THEN new.total ELSE jobs[j].total
         /\ jobs'[j].status \in {new.status, jobs[j].status}
<1>1. run[p].job \in Jobs /\ jobs \in [Jobs -> Rows] /\ run[p].mem \in Rows
  BY Typed DEF LocalStates
<1>2. jobs'[run[p].job] = Flush(jobs[run[p].job], run[p].mem, new)
  BY <1>1 DEF Save
<1>3. jobs[run[p].job] \in Rows
  BY <1>1
<1>4. \A k \in Jobs \ {run[p].job} : jobs'[k] = jobs[k]
  BY <1>1 DEF Save
<1>5. DOMAIN jobs[run[p].job] = {"status", "lockedBy", "lease", "attempts", "total", "blocked"}
  BY <1>3 DEF Rows
<1> QED
  BY <1>2, <1>4, <1>5 DEF Flush

\* A job is cancelled by a deletion or by the summary of a run, and completed
\* only by the latter.
LEMMA EndCause ==
  ASSUME TypeInv, [Next]_vars, NEW j \in Jobs, NEW s \in {"cancelled", "completed"},
         jobs'[j].status = s, jobs[j].status # s
  PROVE  \/ /\ s = "cancelled"
            /\ \E e \in DOMAIN docs : Purge(e) /\ docs[e].job = j /\ jobs[j].total <= 1
         \/ \E p \in Procs : Rollup(p) /\ run[p].job = j /\ FinalStatus(p) = s
<1>0. jobs \in [Jobs -> Rows] /\ jobs[j] \in Rows
  BY Typed
<1>1. CASE UNCHANGED jobs
  BY <1>1
<1>2. ASSUME NEW p \in Procs, RequeueBlocked(p) \/ ReconcileOrphaned(p) PROVE FALSE
  BY <1>0, <1>2 DEF RequeueBlocked, ReconcileOrphaned, Rows
<1>3. ASSUME NEW k \in Jobs, Upload(k) \/ ExpireLease(k) PROVE FALSE
  BY <1>0, <1>3 DEF Upload, ExpireLease, Rows
<1>4. ASSUME NEW p \in Procs, NEW k \in Jobs, Claim(p, k) PROVE FALSE
  BY <1>0, <1>4 DEF Claim, Rows
<1>5. ASSUME NEW p \in Procs, NEW t \in BOOLEAN, Raise(p, t) PROVE FALSE
  <2>1. run[p].job \in Jobs /\ jobs[run[p].job] \in Rows
    BY Typed DEF LocalStates
  <2>2. \/ jobs' = [jobs EXCEPT ![run[p].job] = [jobs[run[p].job] EXCEPT !.status = "failed"]]
        \/ jobs' = [jobs EXCEPT ![run[p].job] = [jobs[run[p].job] EXCEPT
                      !.status = "pending", !.attempts = @ + 1]]
    BY <1>5 DEF Raise
  <2>3. CASE run[p].job = j
    <3>1. jobs'[j].status \in {"failed", "pending"}
      BY <1>0, <2>2, <2>3 DEF Rows
    <3> QED
      BY <3>1
  <2>4. CASE run[p].job # j
    BY <1>0, <2>1, <2>2, <2>4
  <2> QED
    BY <2>3, <2>4
<1>6. ASSUME NEW p \in Procs, AcquireLock(p) \/ Start(p) PROVE FALSE
  <2>1. run[p].mem \in Rows /\ Len(Package(p)) \in Nat
    BY Typed, PackageShape DEF LocalStates, Package
  <2>2. /\ [run[p].mem EXCEPT !.status = "failed"] \in Rows
        /\ [run[p].mem EXCEPT !.status = "running", !.total = Len(Package(p))] \in Rows
    BY <2>1 DEF Rows, JobStatuses
  <2>3. PICK new \in Rows : Save(p, new) /\ new.status \in {"failed", "running"}
    BY <1>1, <1>6, <2>1, <2>2 DEF AcquireLock, Start, Rows
  <2> QED
    BY <2>3, SaveIs
<1>7. ASSUME NEW p \in Procs, Rollup(p)
      PROVE  run[p].job = j /\ FinalStatus(p) = s
  <2> DEFINE blocked == "blocked" \in run[p].outcomes
             new == [run[p].mem EXCEPT !.status = FinalStatus(p), !.blocked = blocked]
  <2>1. FinalStatus(p) \in JobStatuses /\ run[p].mem \in Rows /\ blocked \in BOOLEAN
    BY Typed DEF FinalStatus, Summary, JobStatuses, LocalStates
  <2> HIDE DEF blocked
  <2>2. new \in Rows /\ new.status = FinalStatus(p)
    BY <2>1 DEF Rows
  <2>3. Save(p, new)
    BY <1>7 DEF Rollup, blocked
  <2> HIDE DEF new
  <2> QED
    BY <2>2, <2>3, SaveIs
<1>8. ASSUME NEW p \in Procs, NEW o, EndFile(p, o) PROVE FALSE
  <2>1. UNCHANGED jobs \/ jobs' = [jobs EXCEPT ![run[p].job].lease = "live"]
    BY <1>8 DEF EndFile
  <2> QED
    BY <1>0, <2>1 DEF Rows
<1>9. ASSUME NEW p \in Procs, \/ Load(p) \/ NextFile(p) \/ Create(p) \/ Store(p) \/ Extract(p)
                              \/ Resume(p) \/ Embed(p) \/ Upsert(p) \/ EndBackoff(p)
      PROVE  FALSE
  BY <1>1, <1>8, <1>9 DEF Load, NextFile, Existing, Create, Store, Extract, StoreOrExtract,
              Resume, Embed, Upsert, EndBackoff, EndDoc, Goto
<1>10. ASSUME NEW e \in DOMAIN docs, Purge(e)
       PROVE  s = "cancelled" /\ docs[e].job = j /\ jobs[j].total <= 1
  <2>1. docs[e] \in Documents /\ docs[e].job \in Jobs
    <3>1. docs[e] \in Documents
      BY Typed
    <3> QED
      BY <3>1 DEF Documents
  <2> QED
    BY <1>0, <1>10, <2>1 DEF Purge, Rows
<1>11. ASSUME \/ ProviderDown \/ ProviderUp \/ UNCHANGED vars
              \/ \E p \in Procs : Crash(p)
              \/ \E k \in Packages : ExpireLock(k)
       PROVE  UNCHANGED jobs
  BY <1>11 DEF ProviderDown, ProviderUp, vars, Crash, ExpireLock
<1> QED
  BY <1>1, <1>2, <1>3, <1>4, <1>5, <1>6, <1>7, <1>9, <1>10, <1>11 DEF Next, Process

LEMMA StartIs ==
  ASSUME TypeInv, TotalsRight, NEW p \in Procs, Start(p), ~Stop(p)
  PROVE  /\ jobs'[run[p].job].total = Len(Entries[run[p].job])
         /\ run'[p].mem.total = Len(Entries[run[p].job])
         /\ run'[p].job = run[p].job
         /\ \A k \in Jobs \ {run[p].job} : jobs'[k] = jobs[k]
<1> DEFINE new == [run[p].mem EXCEPT !.status = "running", !.total = Len(Package(p))]
<1>1. Save(p, new) /\ run' = [run EXCEPT ![p].pc = "file", ![p].mem = new]
  BY DEF Start
<1>2. run[p] \in LocalStates(Len(docs)) /\ run[p].job \in Jobs /\ run[p].mem \in Rows
      /\ Len(Entries[run[p].job]) \in Nat /\ Len(Entries[run[p].job]) > 0
  BY Typed, PackageShape DEF LocalStates
<1>3. new \in Rows /\ new.total = Len(Entries[run[p].job])
  BY <1>2 DEF Rows, JobStatuses, Package
<1> HIDE DEF new
<1>4. run'[p] = [run[p] EXCEPT !.pc = "file", !.mem = new]
  BY <1>1, Typed
<1>5. run'[p].mem = new /\ run'[p].job = run[p].job
  BY <1>2, <1>4 DEF LocalStates
<1> QED
  BY <1>1, <1>2, <1>3, <1>5, SaveIs DEF TotalsRight

\* The recorded number of files is only ever set, and to the right one.
LEMMA TotalMoves ==
  ASSUME TypeInv, TotalsRight, [Next]_vars, NEW j \in Jobs
  PROVE  jobs'[j].total \in {jobs[j].total, Len(Entries[j])}
<1>0. jobs \in [Jobs -> Rows] /\ jobs[j] \in Rows
  BY Typed
<1>1. CASE UNCHANGED jobs
  BY <1>1
<1>2. ASSUME NEW p \in Procs, RequeueBlocked(p) \/ ReconcileOrphaned(p)
      PROVE  jobs'[j].total = jobs[j].total
  BY <1>0, <1>2 DEF RequeueBlocked, ReconcileOrphaned, Rows
<1>3. ASSUME NEW k \in Jobs, Upload(k) \/ ExpireLease(k) PROVE jobs'[j].total = jobs[j].total
  BY <1>0, <1>3 DEF Upload, ExpireLease, Rows
<1>4. ASSUME NEW p \in Procs, NEW k \in Jobs, Claim(p, k) PROVE jobs'[j].total = jobs[j].total
  BY <1>0, <1>4 DEF Claim, Rows
<1>5. ASSUME NEW p \in Procs, NEW t \in BOOLEAN, Raise(p, t)
      PROVE  jobs'[j].total = jobs[j].total
  <2>2. \/ jobs' = [jobs EXCEPT ![run[p].job] = [jobs[run[p].job] EXCEPT !.status = "failed"]]
        \/ jobs' = [jobs EXCEPT ![run[p].job] = [jobs[run[p].job] EXCEPT
                      !.status = "pending", !.attempts = @ + 1]]
    BY <1>5 DEF Raise
  <2>3. CASE run[p].job = j
    BY <1>0, <2>2, <2>3 DEF Rows
  <2>4. CASE run[p].job # j
    BY <1>0, <2>2, <2>4
  <2> QED
    BY <2>3, <2>4
<1>6. ASSUME NEW p \in Procs, NEW s, NEW b \in BOOLEAN, s \in JobStatuses,
             Save(p, [run[p].mem EXCEPT !.status = s, !.blocked = b])
      PROVE  jobs'[j].total = jobs[j].total
  <2> DEFINE new == [run[p].mem EXCEPT !.status = s, !.blocked = b]
  <2>1. run[p].mem \in Rows /\ run[p].job \in Jobs
    BY Typed DEF LocalStates
  <2>2. new \in Rows /\ new.total = run[p].mem.total
    BY <1>6, <2>1 DEF Rows
  <2>3. Save(p, new)
    BY <1>6
  <2> HIDE DEF new
  <2> QED
    BY <2>1, <2>2, <2>3, SaveIs
<1>7. ASSUME NEW p \in Procs, AcquireLock(p) \/ Start(p)
      PROVE  jobs'[j].total \in {jobs[j].total, Len(Entries[j])}
  <2>1. CASE Start(p) /\ ~Stop(p)
    BY <2>1, StartIs
  <2>2. CASE Save(p, [run[p].mem EXCEPT !.status = "failed"])
    <3> DEFINE new == [run[p].mem EXCEPT !.status = "failed"]
    <3>1. run[p].mem \in Rows /\ run[p].job \in Jobs
      BY Typed DEF LocalStates
    <3>2. new \in Rows /\ new.total = run[p].mem.total
      BY <3>1 DEF Rows, JobStatuses
    <3>3. Save(p, new)
      BY <2>2
    <3> HIDE DEF new
    <3> QED
      BY <3>1, <3>2, <3>3, SaveIs
  <2>3. CASE Start(p) /\ Stop(p)
    <3>1. ASSUME NEW m, run' = [run EXCEPT ![p].pc = "file", ![p].mem = m] PROVE FALSE
      <4>1. run'[p] = [run[p] EXCEPT !.pc = "file", !.mem = m]
            /\ run[p] \in LocalStates(Len(docs))
        BY <3>1, Typed
      <4>2. run'[p].pc = "file"
        BY <4>1 DEF LocalStates
      <4> QED
        BY <2>3, <4>2, StopLeaves DEF Inside
    <3> QED
      BY <2>2, <2>3, <3>1 DEF Start
  <2>4. CASE AcquireLock(p)
    BY <1>1, <2>2, <2>4 DEF AcquireLock
  <2> QED
    BY <1>7, <2>1, <2>3, <2>4
<1>8. ASSUME NEW p \in Procs, Rollup(p) PROVE jobs'[j].total = jobs[j].total
  <2>1. FinalStatus(p) \in JobStatuses
    BY DEF FinalStatus, Summary, JobStatuses
  <2> DEFINE b == "blocked" \in run[p].outcomes
  <2>2. b \in BOOLEAN /\ Save(p, [run[p].mem EXCEPT !.status = FinalStatus(p), !.blocked = b])
    BY <1>8 DEF Rollup
  <2> HIDE DEF b
  <2> QED
    BY <1>6, <2>1, <2>2
<1>9. ASSUME NEW p \in Procs, NEW o, EndFile(p, o) PROVE jobs'[j].total = jobs[j].total
  <2>1. UNCHANGED jobs \/ jobs' = [jobs EXCEPT ![run[p].job].lease = "live"]
    BY <1>9 DEF EndFile
  <2> QED
    BY <1>0, <2>1 DEF Rows
<1>10. ASSUME NEW p \in Procs, \/ Load(p) \/ NextFile(p) \/ Create(p) \/ Store(p)
                               \/ Extract(p) \/ Resume(p) \/ Embed(p) \/ Upsert(p)
                               \/ EndBackoff(p)
       PROVE  jobs'[j].total = jobs[j].total
  BY <1>1, <1>9, <1>10 DEF Load, NextFile, Existing, Create, Store, Extract, StoreOrExtract,
              Resume, Embed, Upsert, EndBackoff, EndDoc, Goto
<1>11. ASSUME NEW e \in DOMAIN docs, Purge(e) PROVE jobs'[j].total = jobs[j].total
  BY <1>0, <1>11 DEF Purge, Rows
<1>12. ASSUME \/ ProviderDown \/ ProviderUp \/ UNCHANGED vars
              \/ \E p \in Procs : Crash(p)
              \/ \E k \in Packages : ExpireLock(k)
       PROVE  UNCHANGED jobs
  BY <1>12 DEF ProviderDown, ProviderUp, vars, Crash, ExpireLock
<1> QED
  BY <1>1, <1>2, <1>3, <1>4, <1>5, <1>7, <1>8, <1>10, <1>11, <1>12 DEF Next, Process

\* The copy of the row a process holds has the number of files, or none.
LEMMA CopyMoves ==
  ASSUME TypeInv, TotalsRight, [Next]_vars, NEW q \in Procs, run'[q] # run[q]
  PROVE  \/ run'[q].mem.total \in {0, jobs'[run'[q].job].total}
         \/ run'[q].job = run[q].job /\ run'[q].mem = run[q].mem
<1>1. run \in [Procs -> LocalStates(Len(docs))] /\ jobs \in [Jobs -> Rows]
  BY Typed
<1>2. IdleRun \in LocalStates(0) /\ IdleRun.mem.total = 0
  BY IdleTyped DEF IdleRun, NewRow, LocalStates
<1>3. CASE Stop(q) \/ Crash(q)
  BY <1>1, <1>2, <1>3 DEF Crash, Stop
<1>4. ASSUME NEW j \in Jobs, Claim(q, j) PROVE run'[q].mem.total = 0
  <2>1. run'[q] = [IdleRun EXCEPT !.pc = "load", !.job = j]
    BY <1>1, <1>4 DEF Claim
  <2> QED
    BY <1>2, <2>1 DEF LocalStates
<1>5. ASSUME NEW t \in BOOLEAN, Raise(q, t)
      PROVE  run'[q].mem.total \in {0, jobs'[run'[q].job].total}
  <2>0. run[q].job \in Jobs
    BY <1>1 DEF LocalStates
  <2>1. \/ run'[q] = IdleRun
        \/ \E m : /\ run'[q] = [IdleRun EXCEPT !.pc = "backoff", !.job = run[q].job, !.mem = m]
                  /\ jobs' = [jobs EXCEPT ![run[q].job] = m]
    BY <1>1, <1>5 DEF Raise
  <2>2. CASE run'[q] = IdleRun
    BY <1>2, <2>2
  <2>3. ASSUME NEW m, run'[q] = [IdleRun EXCEPT !.pc = "backoff", !.job = run[q].job, !.mem = m],
               jobs' = [jobs EXCEPT ![run[q].job] = m]
        PROVE  run'[q].mem.total = jobs'[run'[q].job].total
    <3>1. run'[q].mem = m /\ run'[q].job = run[q].job
      BY <1>2, <2>3 DEF LocalStates
    <3> QED
      BY <1>1, <2>0, <2>3, <3>1
  <2> QED
    BY <2>1, <2>2, <2>3
<1>6. CASE Load(q)
  <2>1. run'[q] = [run[q] EXCEPT !.pc = "lock", !.mem = jobs[run[q].job]] /\ UNCHANGED jobs
    BY <1>1, <1>6 DEF Load
  <2> QED
    BY <1>1, <2>1 DEF LocalStates
<1>7. CASE Start(q) /\ ~Stop(q)
  BY <1>7, StartIs
<1>8. CASE EndBackoff(q) \/ (AcquireLock(q) /\ ~Stop(q))
  <2>1. PICK pc : run' = [run EXCEPT ![q].pc = pc]
    BY <1>8 DEF EndBackoff, AcquireLock
  <2>2. run'[q] = [run[q] EXCEPT !.pc = pc]
    BY <1>1, <2>1
  <2> QED
    BY <1>1, <2>2 DEF LocalStates
<1>9. CASE \/ NextFile(q) \/ Create(q) \/ Store(q) \/ Extract(q) \/ Resume(q)
           \/ Embed(q) \/ Upsert(q)
  <2>1. CASE \E o \in Outcomes : EndFile(q, o)
    <3>1. PICK o \in Outcomes : EndFile(q, o)
      BY <2>1
    <3> DEFINE pc == IF run[q].pos = Len(Package(q)) THEN "rollup" ELSE "file"
    <3>2. run'[q] = [run[q] EXCEPT !.pc = pc, !.pos = @ + 1, !.doc = 0,
                                   !.outcomes = @ \cup {o}]
      BY <1>1, <3>1 DEF EndFile
    <3> HIDE DEF pc
    <3> QED
      BY <1>1, <3>2 DEF LocalStates
  <2>2. CASE \E pc \in PCs, d \in Nat : Goto(q, pc, d)
    <3>1. PICK pc, d : run' = [run EXCEPT ![q].pc = pc, ![q].doc = d]
      BY <2>2 DEF Goto
    <3>2. run'[q] = [run[q] EXCEPT !.pc = pc, !.doc = d]
      BY <1>1, <3>1
    <3> QED
      BY <1>1, <3>2 DEF LocalStates
  <2> QED
    BY <1>9, <2>1, <2>2, FileActions
<1> QED
  BY <1>3, <1>4, <1>5, <1>6, <1>7, <1>8, <1>9, OwnSteps DEF Process, Rollup

LEMMA StepKeepsTotals ==
  ASSUME TypeInv, TypeInv', AtDocument, TotalsRight, [Next]_vars
  PROVE  TotalsRight'
<1>0. /\ \A j \in Jobs : Len(Entries[j]) \in Nat /\ Len(Entries[j]) > 0
      /\ \A p \in Procs : run[p].job \in Jobs /\ run'[p].job \in Jobs
  BY PackageShape DEF TypeInv, TypeOK
<1>1. ASSUME NEW j \in Jobs
      PROVE  /\ jobs'[j].total \in {0, Len(Entries[j])}
             /\ jobs[j].total # 0 => jobs'[j].total = jobs[j].total
  BY <1>0, TotalMoves DEF TotalsRight
<1>2. ASSUME NEW q \in Procs
      PROVE  run'[q].mem.total # 0 => jobs'[run'[q].job].total = run'[q].mem.total
  BY <1>0, <1>1, CopyMoves DEF TotalsRight
<1>3. ASSUME NEW q \in Procs, run'[q].pc \in InFiles
      PROVE  jobs'[run'[q].job].total = Len(Entries[run'[q].job])
  <2>1. CASE run[q].pc \in InFiles /\ run'[q].job = run[q].job
    BY <1>0, <1>1, <2>1 DEF TotalsRight, Package
  <2>2. CASE run'[q] # run[q] /\ ~(run[q].pc \in InFiles /\ run'[q].job = run[q].job)
    <3>1. Process(q)
      BY <1>3, <2>2, OwnSteps, Beginnings DEF InFiles, Working
    <3>2. CASE Load(q) \/ EndBackoff(q) \/ AcquireLock(q) \/ Start(q) \/ Rollup(q)
      <4>1. ~Stop(q)
        BY <1>3, Beginnings DEF InFiles, Working
      <4>2. CASE Load(q) \/ EndBackoff(q) \/ AcquireLock(q)
        <5>1. run'[q].pc \in {"lock", "start"}
          BY <4>1, <4>2, Typed DEF Load, EndBackoff, AcquireLock, LocalStates
        <5> QED
          BY <1>3, <5>1 DEF InFiles, Working
      <4>3. CASE Start(q)
        BY <4>1, <4>3, StartIs
      <4> QED
        BY <3>2, <4>1, <4>2, <4>3 DEF Rollup
    <3>3. CASE \/ NextFile(q) \/ Create(q) \/ Store(q) \/ Extract(q) \/ Resume(q)
               \/ Embed(q) \/ Upsert(q)
      <4>1. run'[q].job = run[q].job
        BY <3>3, FileActions, FileStepMoves
      <4>2. run[q].pc \in InFiles
        BY <3>3 DEF NextFile, Create, Store, Extract, StoreOrExtract, Resume, Embed, Upsert,
                    InFiles, Working
      <4> QED
        BY <2>2, <4>1, <4>2
    <3> QED
      BY <3>1, <3>2, <3>3 DEF Process
  <2> QED
    BY <1>3, <2>1, <2>2
<1>4. ASSUME NEW d \in DOMAIN docs' PROVE jobs'[docs'[d].job].total = Len(Entries[docs'[d].job])
  <2>1. CASE d \in DOMAIN docs
    <3>1. docs'[d].job = docs[d].job
      BY <2>1, DocFate
    <3>2. docs[d] \in Documents /\ docs[d].job \in Jobs
      <4>1. docs[d] \in Documents
        BY <2>1, Typed
      <4> QED
        BY <4>1 DEF Documents
    <3> QED
      BY <1>0, <1>1, <2>1, <3>1, <3>2 DEF TotalsRight
  <2>2. CASE d \notin DOMAIN docs
    <3>1. PICK p \in Procs : Create(p)
      BY <1>4, <2>2, StepKeepsDocs DEF DocsKept
    <3>2. run[p].pc = "create" /\ Process(p)
      BY <3>1 DEF Create, Process
    <3>3. docs'[d].job = run[p].job
      BY <1>4, <2>2, <3>2, Inserts, Typed
    <3> QED
      BY <1>0, <1>1, <3>2, <3>3 DEF TotalsRight, InFiles, Package
  <2> QED
    BY <2>1, <2>2
<1> QED
  BY <1>1, <1>2, <1>3, <1>4 DEF TotalsRight, Package

LEMMA OwnCreate ==
  ASSUME TypeInv, AtDocument, [Next]_vars, NEW q \in Procs, run'[q] # run[q],
         run'[q].pc = "create"
  PROVE  run'[q].job = run[q].job /\ UNCHANGED jobs /\ ~CancelSeen(q)
<1>1. Process(q)
  BY OwnSteps, Beginnings
<1>2. \A o \in Outcomes : ~EndFile(q, o)
  BY EndFileLocal
<1>3. CASE run[q].pc = "file"
  <2>1. \A d \in Nat : ~Goto(q, "resume", d)
    BY GotoMoves DEF PCs
  <2>2. \A d \in DOMAIN docs : d \in Nat
    BY Typed
  <2>3. Goto(q, "create", 0) /\ ~CancelSeen(q)
    BY <1>1, <1>2, <1>3, <2>1, <2>2, FileLooks DEF Copies, Outcomes
  <2> QED
    BY <2>3, GotoMoves, GotoLocal, 0 \in Nat DEF PCs
<1>4. CASE run[q].pc = "create"
  <2>1. Goto(q, "store", Len(docs) + 1) /\ Len(docs) + 1 \in Nat
    BY <1>1, <1>4, Inserts, Typed
  <2> QED
    BY <2>1, GotoMoves DEF PCs
<1>5. CASE run[q].pc \in Working
  <2>1. WorksOn(q, run[q].doc) /\ run[q].doc \in Nat
    BY <1>1, <1>5, WorkSteps, Typed DEF AtDocument, LocalStates
  <2>2. \A pc \in {"extract", "embed", "upsert"} : ~Goto(q, pc, run[q].doc)
    BY <2>1, GotoMoves DEF PCs
  <2> QED
    BY <1>2, <2>1, <2>2 DEF WorksOn, Outcomes
<1>6. CASE run[q].pc \notin Working \cup {"file", "create"}
  <2>1. Load(q) \/ EndBackoff(q) \/ AcquireLock(q) \/ Start(q) \/ Stop(q)
    BY <1>1, <1>6 DEF Process, Store, Extract, StoreOrExtract, Resume, Embed, Upsert,
                      NextFile, Create, Rollup, Working
  <2> QED
    BY <2>1, Beginnings, Approaches
<1> QED
  BY <1>3, <1>4, <1>5, <1>6

\* A job that is cancelled in a step had one file, and was cancelled by the
\* deletion of a document of it or by the run that holds its lock.
LEMMA Cancels ==
  ASSUME TypeInv, LockHeld, TotalsRight, CancelsRight, OutcomesRight, [Next]_vars,
         NEW j \in Jobs, jobs'[j].status = "cancelled", jobs[j].status # "cancelled"
  PROVE  /\ Len(Entries[j]) = 1
         /\ \/ \E e \in DOMAIN docs : /\ Purge(e) /\ docs[e].job = j
                                      /\ docs[e].content = Entries[j][1]
            \/ \A q \in Procs : run[q].pc \in Inside /\ run[q].job = j => run[q].pc = "rollup"
<1>1. /\ Len(Entries[j]) \in Nat /\ Len(Entries[j]) > 0
      /\ DOMAIN Entries[j] = 1..Len(Entries[j])
  BY PackageShape
<1>2. ASSUME NEW e \in DOMAIN docs, Purge(e), docs[e].job = j, jobs[j].total <= 1
      PROVE  Len(Entries[j]) = 1 /\ docs[e].content = Entries[j][1]
  <2>1. jobs[j].total = Len(Entries[j])
    BY <1>2 DEF TotalsRight
  <2>2. Len(Entries[j]) = 1
    <3>1. jobs[j] \in Rows
      BY Typed
    <3>2. jobs[j].total \in Nat
      BY <3>1 DEF Rows
    <3>3. PICK t \in Nat : t = jobs[j].total
      BY <3>2
    <3>4. t <= 1
      BY <1>2, <3>3
    <3>5. t = Len(Entries[j])
      BY <2>1, <3>3
    <3>6. t > 0
      BY <1>1, <3>5
    <3>7. t = 1
      BY <3>3, <3>4, <3>6
    <3> QED
      BY <3>5, <3>7
  <2>3. \A i \in DOMAIN Entries[j] : i = 1
    BY <1>1, <2>2
  <2> QED
    BY <1>2, <2>2, <2>3 DEF CancelsRight
<1>3. ASSUME NEW p \in Procs, Rollup(p), run[p].job = j, FinalStatus(p) = "cancelled"
      PROVE  /\ Len(Entries[j]) = 1
             /\ \A q \in Procs : run[q].pc \in Inside /\ run[q].job = j => run[q].pc = "rollup"
  <2>1. "cancelled" \in run[p].outcomes
    BY <1>3 DEF FinalStatus, Summary
  <2>2. run[p].pc = "rollup"
    BY <1>3 DEF Rollup
  <2>3. lock[Entries[j]] = p
    BY <1>3, <2>2 DEF LockHeld, Inside
  <2> QED
    BY <1>3, <2>1, <2>2, <2>3 DEF OutcomesRight, OutcomeRight, LockHeld, Package
<1> QED
  BY <1>2, <1>3, EndCause

LEMMA StepKeepsCancels ==
  ASSUME TypeInv, TypeInv', DisjointPackages, CopyInv, AtDocument, TotalsRight,
         CancelsRight, OutcomesRight, [Next]_vars
  PROVE  CancelsRight'
<1>0. /\ \A p \in Procs : run[p].job \in Jobs /\ run'[p].job \in Jobs
      /\ DOMAIN docs = 1..Len(docs) /\ Len(docs) \in Nat
      /\ \A d \in DOMAIN docs : docs[d] \in Documents
  BY Typed DEF TypeInv, TypeOK
<1>1. \A j \in Jobs : jobs'[j].status = "cancelled" => Len(Entries[j]) = 1
  BY Cancels DEF CancelsRight, CopyInv
<1>2. ASSUME NEW d \in DOMAIN docs', d \notin DOMAIN docs
      PROVE  \E p \in Procs : /\ run[p].pc = "create" /\ docs'[d].job = run[p].job
                              /\ docs'[d].content = Entries[run[p].job][run[p].pos]
                              /\ docs'[d].status = "open"
  <2>1. PICK p \in Procs : Create(p)
    BY <1>2, StepKeepsDocs DEF DocsKept
  <2>2. run[p].pc = "create" /\ Process(p)
    BY <2>1 DEF Create, Process
  <2> QED
    BY <1>0, <1>2, <2>2, Inserts
<1>3. ASSUME NEW d \in DOMAIN docs', docs'[d].status = "cancelled" PROVE docs'[d].deleted
  <2>1. CASE d \in DOMAIN docs
    <3>1. ASSUME NEW p \in Procs, run[p].pc \in Working, run[p].doc = d, WorksOn(p, d)
          PROVE  docs[d].deleted
      BY <1>3, <2>1, <3>1 DEF WorksOn, CancelsRight
    <3> QED
      BY <1>3, <2>1, <3>1, DocFate DEF CancelsRight
  <2> QED
    BY <1>2, <1>3, <2>1
<1>4. ASSUME NEW d \in DOMAIN docs'
      PROVE  \E i \in DOMAIN Entries[docs'[d].job] : docs'[d].content = Entries[docs'[d].job][i]
  <2>1. CASE d \in DOMAIN docs
    BY <2>1, DocFate DEF CancelsRight
  <2>2. CASE d \notin DOMAIN docs
    BY <1>2, <2>2, Typed DEF InPackage
  <2> QED
    BY <2>1, <2>2
<1>5. ASSUME NEW q \in Procs, run'[q].pc = "create" PROVE jobs'[run'[q].job].status # "cancelled"
  <2>1. CASE run'[q] # run[q]
    BY <1>5, <2>1, OwnCreate DEF CancelSeen
  <2>2. CASE run'[q] = run[q]
    <3> DEFINE j == run[q].job
    <3> SUFFICES ASSUME jobs'[j].status = "cancelled" PROVE FALSE
      BY <2>2
    <3>1. jobs[j].status # "cancelled" /\ run[q].pc = "create" /\ j \in Jobs
      BY <1>0, <1>5, <2>2 DEF CancelsRight, CancelSeen
    <3>2. run[q].pos \in DOMAIN Entries[j] /\ DOMAIN Entries[j] = 1..Len(Entries[j])
      BY <3>1, PackageShape, Typed DEF InPackage
    <3>3. PICK e \in DOMAIN docs : Purge(e) /\ docs[e].content = Entries[j][1] /\ Len(Entries[j]) = 1
      BY <3>1, Cancels DEF CopyInv, Inside
    <3>4. docs[e].deleted
      BY <3>1, <3>2, <3>3 DEF CopyInv, Fresh
    <3> QED
      BY <3>3, <3>4 DEF Purge, Live
  <2> QED
    BY <2>1, <2>2
<1>6. ASSUME NEW q \in Procs, run'[q].pc \in {"store", "extract"}
      PROVE  /\ docs'[run'[q].doc].job = run'[q].job
             /\ jobs'[run'[q].job].status = "cancelled" => docs'[run'[q].doc].deleted
  <2>1. CASE run'[q] # run[q]
    <3>1. /\ run'[q].job = run[q].job /\ UNCHANGED jobs
          /\ \/ run[q].pc = "create" /\ Process(q) /\ run'[q].doc = Len(docs) + 1
             \/ /\ run[q].pc = "store" /\ ~CancelSeen(q) /\ run'[q].doc = run[q].doc
                /\ WorksOn(q, run[q].doc)
      BY <1>6, <2>1, OwnWork DEF Working
    <3>2. CASE run[q].pc = "create"
      BY <3>1, <3>2, Inserts DEF CancelsRight, CancelSeen
    <3>3. CASE run[q].pc = "store"
      BY <3>1, <3>3 DEF CancelsRight, CancelSeen, WorksOn
    <3> QED
      BY <3>1, <3>2, <3>3
  <2>2. CASE run'[q] = run[q]
    <3> DEFINE j == run[q].job
               d == run[q].doc
    <3>1. /\ run[q].pc \in {"store", "extract"} /\ j \in Jobs /\ d \in DOMAIN docs
          /\ docs[d].content = Entries[j][run[q].pos] /\ docs[d].job = j
      BY <1>0, <1>6, <2>2 DEF CancelsRight, AtDocument, Working
    <3>2. /\ docs'[d].job = j
          /\ docs[d].deleted => docs'[d].deleted
      BY <3>1, DocFate
    <3>3. ASSUME jobs'[j].status = "cancelled", ~docs[d].deleted PROVE docs'[d].deleted
      <4>1. jobs[j].status # "cancelled"
        BY <3>1, <3>3 DEF CancelsRight, CancelSeen
      <4>2. PICK e \in DOMAIN docs : /\ Purge(e) /\ docs[e].content = Entries[j][1]
                                     /\ Len(Entries[j]) = 1
        BY <3>1, <3>3, <4>1, Cancels DEF CopyInv, Inside
      <4>3. run[q].pos = 1
        <5>1. run[q].pos \in DOMAIN Entries[j] /\ DOMAIN Entries[j] = 1..Len(Entries[j])
          BY <3>1, PackageShape, Typed DEF InPackage
        <5> QED
          BY <4>2, <5>1
      <4>4. docs[d].content \in Contents
        BY <1>0, <3>1 DEF Documents
      <4>5. e = d
        BY <3>1, <3>3, <4>2, <4>3, <4>4 DEF CopyInv, OneLiveCopy, Copies, Live, Purge
      <4>6. docs[d] \in Documents /\ DOMAIN docs = 1..Len(docs) /\ d \in 1..Len(docs)
        BY <1>0, <3>1
      <4> QED
        BY <4>2, <4>5, <4>6 DEF Purge, Documents
    <3> QED
      BY <2>2, <3>2, <3>3
  <2> QED
    BY <2>1, <2>2
<1> QED
  BY <1>1, <1>3, <1>4, <1>5, <1>6 DEF CancelsRight, CancelSeen

\* The content is settled in the next state.
SettledNext(c) ==
  \E d \in DOMAIN docs' : /\ docs'[d].content = c
                          /\ docs'[d].deleted \/ docs'[d].status \in {"indexed", "paused"}

\* What is settled stays so while the process that needs it holds the lock,
\* unless the same document is taken up again for a later file of the package.
LEMMA SettledStays ==
  ASSUME TypeInv, DisjointPackages, LockHeld, AtDocument, [Next]_vars,
         NEW q \in Procs, run[q].pc \in Inside,
         NEW i \in DOMAIN Entries[run[q].job], Settled(Entries[run[q].job][i])
  PROVE  \/ SettledNext(Entries[run[q].job][i])
         \/ /\ run[q].pc \in Working /\ WorksOn(q, run[q].doc) /\ run'[q] # run[q]
            /\ Entries[run[q].job][i] = Entries[run[q].job][run[q].pos]
<1> DEFINE c == Entries[run[q].job][i]
<1>1. PICK d \in DOMAIN docs : /\ docs[d].content = c
                               /\ docs[d].deleted \/ docs[d].status \in {"indexed", "paused"}
  BY DEF Settled
<1>2. d \in DOMAIN docs' /\ docs'[d].content = c
  BY <1>1, DocFate
<1>3. CASE docs'[d] = docs[d] \/ docs'[d].deleted
  <2>1. docs'[d].deleted \/ docs'[d].status \in {"indexed", "paused"}
    BY <1>1, <1>3
  <2>2. \E e \in DOMAIN docs' : /\ docs'[e].content = c
                                /\ docs'[e].deleted \/ docs'[e].status \in {"indexed", "paused"}
    BY <1>2, <2>1
  <2>3. QED
    BY <2>2 DEF SettledNext
<1>4. ASSUME NEW p \in Procs, run[p].pc \in Working, run[p].doc = d, WorksOn(p, d)
      PROVE  p = q /\ c = Entries[run[q].job][run[q].pos] /\ run'[q] # run[q]
  <2>1. Entries[run[p].job][run[p].pos] = c
    BY <1>1, <1>4 DEF AtDocument
  <2>2. run[p].pc \in Inside /\ run[p].pos \in DOMAIN Entries[run[p].job]
    BY <1>4, Typed DEF Working, Inside, InPackage
  <2>3. p = q
    BY <2>1, <2>2, SameFile
  <2> QED
    BY <1>4, <2>1, <2>3, WorkMoves
<1> QED
  BY <1>2, <1>3, <1>4, DocFate

\* The end of a file, when its outcome tells what became of it.
LEMMA OutcomeAdded ==
  ASSUME TypeInv, NEW q \in Procs, OutcomeRight(q), NEW o \in Outcomes,
         run[q].pc \in InFiles \ {"rollup"}, EndFile(q, o),
         o = "cancelled" => Len(Entries[run[q].job]) = 1,
         \A i \in 1 .. run[q].pos :
           \/ Entries[run[q].job][i] \in Skipped \/ SettledNext(Entries[run[q].job][i])
           \/ o \in {"failed", "cancelled"}
           \/ run[q].outcomes \cap {"failed", "cancelled"} # {}
  PROVE  OutcomeRight(q)'
<1>1. /\ run'[q].pos = run[q].pos + 1 /\ run'[q].outcomes = run[q].outcomes \cup {o}
      /\ run'[q].pc = IF run[q].pos = Len(Entries[run[q].job]) THEN "rollup" ELSE "file"
      /\ run'[q].job = run[q].job
  BY EndFileLocal, EndFileMoves DEF Package
<1>2. run[q].job \in Jobs /\ run[q].pos \in DOMAIN Entries[run[q].job]
  BY Typed DEF LocalStates, InPackage
<1>3. run[q].pos \in 1 .. Len(Entries[run[q].job]) /\ Len(Entries[run[q].job]) \in Nat
  BY <1>2, PackageShape
<1>4. ASSUME Len(Entries[run[q].job]) = 1 PROVE run[q].outcomes = {}
  <2>1. run[q].pos = 1
    BY <1>3, <1>4
  <2> QED
    BY <2>1 DEF OutcomeRight
<1>5. "cancelled" \in run[q].outcomes => Len(Entries[run[q].job]) = 1
  BY DEF OutcomeRight, Package
<1>6. ASSUME "cancelled" \in run'[q].outcomes
      PROVE  Len(Entries[run'[q].job]) = 1 /\ run'[q].outcomes = {"cancelled"}
  BY <1>1, <1>4, <1>5, <1>6
<1>7. ASSUME NEW i \in 1 .. run'[q].pos - 1
      PROVE  \/ Entries[run'[q].job][i] \in Skipped \/ SettledNext(Entries[run'[q].job][i])
             \/ run'[q].outcomes \cap {"failed", "cancelled"} # {}
  <2>1. i \in 1 .. run[q].pos
    BY <1>1, <1>3, <1>7
  <2>2. \/ Entries[run[q].job][i] \in Skipped \/ SettledNext(Entries[run[q].job][i])
        \/ o \in {"failed", "cancelled"}
        \/ run[q].outcomes \cap {"failed", "cancelled"} # {}
    BY <2>1
  <2>3. ASSUME o \in {"failed", "cancelled"} \/ run[q].outcomes \cap {"failed", "cancelled"} # {}
        PROVE  run'[q].outcomes \cap {"failed", "cancelled"} # {}
    BY <1>1, <2>3
  <2> QED
    BY <1>1, <2>2, <2>3
<1>8. run'[q].pos # 1 /\ run'[q].pc \in {"file", "rollup"}
      /\ (run'[q].pc = "rollup" => run'[q].pos = Len(Entries[run'[q].job]) + 1)
  BY <1>1, <1>3
<1> QED
  BY <1>6, <1>7, <1>8 DEF OutcomeRight, Package, InFiles, Settled, SettledNext

\* A file goes on.
LEMMA OutcomesKept ==
  ASSUME TypeInv, NEW q \in Procs, OutcomeRight(q),
         NEW pc \in {"resume", "create", "store", "extract", "embed", "upsert"},
         NEW d \in Nat, Goto(q, pc, d), run[q].pc \in InFiles,
         \A i \in 1 .. run[q].pos - 1 :
           \/ Entries[run[q].job][i] \in Skipped \/ SettledNext(Entries[run[q].job][i])
           \/ run[q].outcomes \cap {"failed", "cancelled"} # {}
           \/ pc \in Working /\ Entries[run[q].job][i] = Entries[run[q].job][run[q].pos]
  PROVE  OutcomeRight(q)'
<1>1. /\ run'[q].pc = pc /\ run'[q].job = run[q].job /\ run'[q].pos = run[q].pos
      /\ run'[q].outcomes = run[q].outcomes
  BY GotoMoves, GotoLocal DEF PCs
<1>2. pc \in InFiles /\ pc # "rollup"
  BY DEF InFiles, Working
<1> QED
  BY <1>1, <1>2 DEF OutcomeRight, Package, Settled, SettledNext

LEMMA StepKeepsOutcomes ==
  ASSUME TypeInv, TypeInv', DisjointPackages, CopyInv, AtDocument, CancelsRight,
         OutcomesRight, [Next]_vars
  PROVE  OutcomesRight'
<1> SUFFICES ASSUME NEW q \in Procs PROVE OutcomeRight(q)'
  BY DEF OutcomesRight
<1> DEFINE j == run[q].job
           c == Entries[j][run[q].pos]
<1>0. /\ j \in Jobs /\ run[q].pos \in Nat /\ Len(Entries[j]) \in Nat
      /\ DOMAIN Entries[j] = 1..Len(Entries[j])
      /\ run[q].pc # "rollup" => run[q].pos \in 1..Len(Entries[j])
      /\ run[q].pc \in InFiles => run[q].pc \in Inside
      /\ OutcomeRight(q)
  BY Typed, PackageShape DEF LocalStates, InPackage, InFiles, Working, Inside, OutcomesRight
<1>1. ASSUME NEW i \in 1 .. run[q].pos - 1, run[q].pc \in InFiles
      PROVE  i \in DOMAIN Entries[j]
  <2>1. run[q].pos <= Len(Entries[j]) + 1
    BY <1>0 DEF OutcomeRight, Package
  <2> QED
    BY <1>0, <1>1, <2>1
<1>2. ASSUME NEW i \in 1 .. run[q].pos - 1, run[q].pc \in InFiles
      PROVE  \/ Entries[j][i] \in Skipped \/ SettledNext(Entries[j][i])
             \/ run[q].outcomes \cap {"failed", "cancelled"} # {}
             \/ run[q].pc \in Working /\ Entries[j][i] = c
  BY <1>0, <1>1, <1>2, SettledStays DEF OutcomeRight, CopyInv
<1>3. CASE run'[q] = run[q]
  <2>1. ASSUME NEW i \in 1 .. run[q].pos - 1, run[q].pc \in InFiles
        PROVE  \/ Entries[j][i] \in Skipped \/ SettledNext(Entries[j][i])
               \/ run[q].outcomes \cap {"failed", "cancelled"} # {}
               \/ run[q].pc \in Working /\ Entries[j][i] = c
    BY <1>2, <2>1
  <2> QED
    BY <1>0, <1>3, <2>1 DEF OutcomeRight, Package, Settled, SettledNext
<1>4. CASE Stop(q) \/ Crash(q) \/ (\E k \in Jobs : Claim(q, k)) \/ (\E t \in BOOLEAN : Raise(q, t))
  <2>1. run'[q].pc \notin InFiles /\ run'[q].pos = 1 /\ run'[q].outcomes = {}
    BY <1>4, Beginnings DEF InFiles, Working
  <2> QED
    BY <2>1 DEF OutcomeRight, InFiles
<1>5. CASE (Load(q) \/ EndBackoff(q) \/ AcquireLock(q) \/ Start(q)) /\ ~Stop(q)
  <2>1. run'[q].pos = 1 /\ run'[q].outcomes = {} /\ run'[q].pc \in {"lock", "start", "file"}
    BY <1>0, <1>5, Approaches DEF OutcomeRight, InFiles, Working
  <2> QED
    BY <2>1 DEF OutcomeRight
\* How a file can end, and what is then known of it.
<1>6. ASSUME NEW o \in Outcomes, EndFile(q, o), run[q].pc \in InFiles \ {"rollup"},
             o = "cancelled" => CancelSeen(q),
             c \in Skipped \/ SettledNext(c) \/ o \in {"failed", "cancelled"}
      PROVE  OutcomeRight(q)'
  <2>1. o = "cancelled" => Len(Entries[j]) = 1
    BY <1>0, <1>6 DEF CancelsRight, CancelSeen
  <2>2. ASSUME NEW i \in 1 .. run[q].pos
        PROVE  \/ Entries[j][i] \in Skipped \/ SettledNext(Entries[j][i])
               \/ o \in {"failed", "cancelled"}
               \/ run[q].outcomes \cap {"failed", "cancelled"} # {}
    <3>1. CASE i = run[q].pos
      BY <1>6, <3>1
    <3>2. CASE i # run[q].pos
      <4>1. i \in 1 .. run[q].pos - 1
        BY <1>0, <3>2
      <4>2. Entries[j][i] = c =>
              Entries[j][i] \in Skipped \/ SettledNext(Entries[j][i]) \/ o \in {"failed", "cancelled"}
        BY <1>6
      <4> QED
        BY <1>2, <1>6, <4>1, <4>2
    <3> QED
      BY <3>1, <3>2
  <2> QED
    BY <1>0, <1>6, <2>1, <2>2, OutcomeAdded
<1>7. ASSUME NEW pc \in {"resume", "create", "store", "extract", "embed", "upsert"},
             NEW d \in Nat, Goto(q, pc, d), run[q].pc \in InFiles,
             run[q].pc \in Working => pc \in Working
      PROVE  OutcomeRight(q)'
  BY <1>0, <1>2, <1>7, OutcomesKept
<1>8. CASE run[q].pc = "file" /\ Process(q)
  <2>1. run[q].pc \in InFiles \ {"rollup"} /\ run[q].pc \notin Working /\ c = Package(q)[run[q].pos]
    BY <1>8 DEF InFiles, Working, Package
  <2>2. UNCHANGED docs /\ \A d \in DOMAIN docs : d \in Nat
    BY <1>8, FileLooks, Typed
  <2>3. ASSUME NEW d \in Copies(c), docs[d].status \in {"indexed", "cancelled"}
        PROVE  SettledNext(c)
    <3>1. d \in DOMAIN docs' /\ docs'[d].content = c /\ docs'[d].status = "indexed"
      BY <2>2, <2>3 DEF Copies, Live, CancelsRight
    <3> QED
      BY <3>1 DEF SettledNext
  <2>4. CASE CancelSeen(q) /\ EndFile(q, "cancelled")
    BY <1>6, <2>1, <2>4 DEF Outcomes
  <2>5. CASE c \in Skipped /\ EndFile(q, "skipped")
    BY <1>6, <2>1, <2>5 DEF Outcomes
  <2>6. CASE EndFile(q, "failed")
    BY <1>6, <2>1, <2>6 DEF Outcomes
  <2>7. CASE \E d \in Copies(c) : /\ EndFile(q, "duplicate")
                                  /\ docs[d].status \in {"indexed", "cancelled"}
    BY <1>6, <2>1, <2>3, <2>7 DEF Outcomes
  <2>8. CASE (\E d \in Copies(c) : Goto(q, "resume", d)) \/ Goto(q, "create", 0)
    BY <1>7, <2>1, <2>2, <2>8 DEF Copies
  <2> QED
    BY <1>8, <2>1, <2>4, <2>5, <2>6, <2>7, <2>8, FileLooks
<1>9. CASE run[q].pc = "create" /\ Process(q)
  BY <1>7, <1>9, Inserts, Typed DEF InFiles, Working
<1>10. CASE run[q].pc \in Working /\ Process(q)
  <2> DEFINE d == run[q].doc
  <2>1. WorksOn(q, d) /\ d \in DOMAIN docs /\ docs[d].content = c /\ d \in Nat
    BY <1>10, WorkSteps, Typed DEF AtDocument, LocalStates
  <2>2. d \in DOMAIN docs' /\ docs'[d].content = c
    BY <2>1 DEF WorksOn
  <2>3. docs'[d].status \in {"indexed", "paused"} => SettledNext(c)
    BY <2>2 DEF SettledNext
  <2>4. run[q].pc \in InFiles \ {"rollup"}
    BY <1>10 DEF InFiles, Working
  <2>5. ASSUME NEW pc \in {"extract", "embed", "upsert"}, Goto(q, pc, d)
        PROVE  OutcomeRight(q)'
    BY <1>7, <2>1, <2>4, <2>5 DEF Working
  <2>6. CASE CancelSeen(q) /\ EndFile(q, "cancelled")
    BY <1>6, <2>4, <2>6 DEF Outcomes
  <2>7. CASE EndFile(q, "failed")
    BY <1>6, <2>4, <2>7 DEF Outcomes
  <2>8. CASE EndFile(q, "blocked") /\ docs'[d].status = "paused"
    BY <1>6, <2>3, <2>4, <2>8 DEF Outcomes
  <2>9. CASE EndFile(q, "indexed") /\ docs'[d].status = "indexed"
    BY <1>6, <2>3, <2>4, <2>9 DEF Outcomes
  <2> QED
    BY <2>1, <2>5, <2>6, <2>7, <2>8, <2>9 DEF WorksOn
<1>11. CASE Process(q) /\ run[q].pc \notin Working \cup {"file", "create"}
  <2>1. Load(q) \/ EndBackoff(q) \/ AcquireLock(q) \/ Start(q) \/ Stop(q)
    BY <1>11 DEF Process, Store, Extract, StoreOrExtract, Resume, Embed, Upsert,
                 NextFile, Create, Rollup, Working
  <2> QED
    BY <1>4, <1>5, <2>1
<1> QED
  BY <1>3, <1>4, <1>5, <1>8, <1>9, <1>10, <1>11, OwnSteps

-----------------------------------------------------------------------------
(* The theorems                                                            *)

ImportRight == /\ CopyInv /\ AtDocument /\ ChunksRight
               /\ TotalsRight /\ CancelsRight /\ OutcomesRight

LEMMA InitRight == Init => TypeInv /\ ImportRight
<1> SUFFICES ASSUME Init PROVE ImportRight
  BY InitTyped
<1>1. DOMAIN docs = {}
  BY DEF Init
<1>2. \A p \in Procs : /\ run[p].pc = "idle" /\ run[p].pos = 1 /\ run[p].outcomes = {}
                       /\ run[p].mem.total = 0
  BY IdleTyped DEF Init, IdleRun, NewRow
<1>3. \A j \in Jobs : jobs[j].total = 0 /\ jobs[j].status = "none"
  BY DEF Init, NewRow
<1>4. CopyInv
  BY <1>1, <1>2 DEF CopyInv, LockHeld, Fresh, OneLiveCopy, Copies, Inside
<1>5. AtDocument /\ ChunksRight /\ TotalsRight
  BY <1>1, <1>2, <1>3 DEF AtDocument, ChunksRight, TotalsRight, Working, InFiles
<1>6. CancelsRight /\ OutcomesRight
  BY <1>1, <1>2, <1>3 DEF CancelsRight, OutcomesRight, OutcomeRight, Working, InFiles
<1> QED
  BY <1>4, <1>5, <1>6 DEF ImportRight

LEMMA StepRight ==
  ASSUME MaxLapses = 0, DisjointPackages
  PROVE  TypeInv /\ ImportRight /\ [Next]_vars => TypeInv' /\ ImportRight'
  BY StepTyped, StepKeepsLock, StepKeepsCopies, StepKeepsChunks, StepKeepsTotals,
     StepKeepsCancels, StepKeepsOutcomes DEF ImportRight, CopyInv

\* Whatever is killed, fails, is deleted or is uploaded again, run_import_job
\* keeps one live document per content and chunks its text once: JobLock keeps a
\* package to one worker from the duplicate lookup to the insert, and from there
\* to the commit of the chunks.  Both assumptions are needed: the lock must not
\* run out under its holder (no lapse), and two packages that share a file must
\* share the lock.
THEOREM ImportsAreSafe ==
  ASSUME MaxLapses = 0, DisjointPackages
  PROVE  Spec => []ImportInv
<1>1. TypeInv /\ ImportRight => ImportInv
  BY DEF TypeInv, ImportRight, CopyInv, ChunksRight, ChunksOnce, ImportInv
<1> QED
  BY <1>1, InitRight, StepRight, PTL DEF Spec

\* A job completes only when each of its sources is settled, whatever other
\* workers, resumed runs, deletions and outages there were: no outcome that
\* _job_rollup sums up is forgotten or out of date by then.
THEOREM CompletedIsComplete ==
  ASSUME MaxLapses = 0, DisjointPackages
  PROVE  Spec => CompletionsAreTrue
<1>1. ASSUME TypeInv, ImportRight, [Next]_vars, NEW j \in Jobs,
             jobs[j].status # "completed", jobs'[j].status = "completed"
      PROVE  FilesSettled(j)'
  <2>1. PICK p \in Procs : Rollup(p) /\ run[p].job = j /\ FinalStatus(p) = "completed"
    BY <1>1, EndCause
  <2>2. UNCHANGED docs /\ run[p].pc = "rollup"
    BY <2>1 DEF Rollup
  <2>3. "failed" \notin run[p].outcomes
    BY <2>1 DEF FinalStatus, Summary
  <2>4. "cancelled" \in run[p].outcomes => "indexed" \in run[p].outcomes
    BY <2>1 DEF FinalStatus, Summary
  <2>5. OutcomeRight(p)
    BY <1>1 DEF ImportRight, OutcomesRight
  <2>6. "cancelled" \notin run[p].outcomes
    BY <2>4, <2>5 DEF OutcomeRight
  <2>7. run[p].pos - 1 = Len(Entries[j]) /\ DOMAIN Entries[j] = 1..Len(Entries[j])
    BY <2>1, <2>2, <2>5, PackageShape DEF OutcomeRight, Package
  <2>8. \A i \in DOMAIN Entries[j] : Entries[j][i] \in Skipped \/ Settled(Entries[j][i])
    BY <2>1, <2>2, <2>3, <2>5, <2>6, <2>7 DEF OutcomeRight, InFiles, Working
  <2>9. \A c : Settled(c) => Settled(c)'
    BY <2>2 DEF Settled
  <2> QED
    BY <2>8, <2>9 DEF FilesSettled
<1>2. TypeInv /\ ImportRight /\ [Next]_vars =>
        [\A j \in Jobs : jobs[j].status # "completed" /\ jobs'[j].status = "completed"
           => FilesSettled(j)']_vars
  BY <1>1
<1> QED
  BY <1>2, InitRight, StepRight, PTL DEF Spec, CompletionsAreTrue
=============================================================================
