---------------------------- MODULE BackfillProofs ----------------------------
(***************************************************************************)
(* Proofs about the backfills of older rows: the ordinals of messages and  *)
(* the source units of knowledge claims.                                   *)
(*                                                                         *)
(* Ordinals.  The two ways a message gets its ordinal never disagree: the  *)
(* BEFORE INSERT trigger and the backfill, for any number of jobs,         *)
(* processes, conversations, chat requests, crashes and lapsed leases.     *)
(* The argument: an ordinal, once given, is the position of its message in *)
(* the conversation, and the unnumbered messages form a prefix.  The       *)
(* trigger computes the next position because it counts unnumbered rows    *)
(* too; it still is the next position at commit because the advisory lock  *)
(* keeps other inserts out; and row_number() over a prefix is the position.*)
(* Progress and completion tell the truth: a generation of a job belongs   *)
(* to one process, so what the process the fence admits has counted is     *)
(* what has been committed for the job since it was queued.                *)
(*                                                                         *)
(* Source units.  A completed run of the claim backfill left no claim out, *)
(* its report is exact, one run is at work, a rehearsal counts no claim    *)
(* twice, no unit keeps the text of a deleted document and no claim is     *)
(* tied to a dead unit, for any documents, claims, callers, kills,         *)
(* extractions, purges and erasures.  The argument: the advisory lock      *)
(* makes the caller's copy of the run row the row; the row lock keeps the  *)
(* claim in hand without a source; and what lies behind the cursor and has *)
(* no source is among the run's failures, because the cursor stands still  *)
(* from the first claim on that a lock hid.                                *)
(***************************************************************************)
EXTENDS MessageBackfill, SourceProvenance, FiniteSetTheorems, WellFoundedInduction, TLAPS

\* An ordinal is a position, and what is unnumbered comes first.
Positional(s) ==
  \A i \in DOMAIN s :
    /\ s[i] \in {Unnumbered, i}
    /\ s[i] = Unnumbered => \A k \in 1..i : s[k] = Unnumbered

\* An uncommitted insert owns its conversation's lock and the next position.
InsertsOwnTheirPlace ==
  \A w \in Writers : insert[w] # IdleInsert =>
    /\ insert[w].conv \in Conversations
    /\ lock[insert[w].conv] = <<"writer", w>>
    /\ insert[w].number = Len(messages[insert[w].conv]) + 1

OrdinalInv ==
  /\ messages \in [Conversations -> Seq(Nat)]
  /\ lock \in [Conversations -> {<<>>} \cup ({"proc"} \X Procs)
                                  \cup ({"writer"} \X Writers)]
  /\ insert \in [Writers -> [conv : Nat, number : Nat]]
  /\ \A c \in Conversations : Positional(messages[c])
  /\ InsertsOwnTheirPlace

-----------------------------------------------------------------------------
(* The operators on ordinals                                               *)

\* The trigger gives a new row the next position.
LEMMA NextOrdinalIsNextPosition ==
  ASSUME NEW s \in Seq(Nat), Positional(s)
  PROVE  NextOrdinal(s) = Len(s) + 1
<1> DEFINE S == {Len(s)} \cup {s[i] : i \in DOMAIN s}
<1>1. Len(s) \in Nat /\ DOMAIN s = 1..Len(s)
  OBVIOUS
<1>2. \A x \in S : x \in Nat /\ x <= Len(s)
  BY <1>1 DEF Positional, Unnumbered
<1>3. Max(S) = Len(s)
  <2>1. Len(s) \in S /\ \A y \in S : Len(s) >= y
    BY <1>1, <1>2
  <2>2. \A x \in S : (\A y \in S : x >= y) => x = Len(s)
    BY <1>1, <1>2
  <2> QED
    BY <2>1, <2>2 DEF Max
<1> QED
  BY <1>3 DEF NextOrdinal

\* row_number() over the unnumbered prefix gives every row its position.
LEMMA WithOrdinalsIsPosition ==
  ASSUME NEW s \in Seq(Nat), Positional(s)
  PROVE  /\ WithOrdinals(s) \in Seq(Nat)
         /\ Len(WithOrdinals(s)) = Len(s)
         /\ \A i \in DOMAIN s : WithOrdinals(s)[i] = i
<1>1. Len(s) \in Nat /\ DOMAIN s = 1..Len(s)
  OBVIOUS
<1>2. ASSUME NEW i \in DOMAIN s
      PROVE  WithOrdinals(s)[i] = i
  <2>1. CASE s[i] # Unnumbered
    BY <2>1 DEF WithOrdinals, Positional
  <2>2. CASE s[i] = Unnumbered
    <3>1. {k \in UnnumberedIn(s) : k <= i} = 1..i
      BY <1>1, <1>2, <2>2 DEF Positional, UnnumberedIn
    <3>2. Cardinality(1..i) = i
      BY <1>1, <1>2, FS_Interval
    <3> QED
      BY <2>2, <3>1, <3>2 DEF WithOrdinals
  <2> QED
    BY <2>1, <2>2
<1>3. WithOrdinals(s) = [i \in 1..Len(s) |-> i]
  BY <1>1, <1>2 DEF WithOrdinals
<1> QED
  BY <1>1, <1>2, <1>3

LEMMA NumberedIsPositional ==
  ASSUME NEW s \in Seq(Nat), Positional(s)
  PROVE  Positional(WithOrdinals(s))
<1>1. \A i \in DOMAIN WithOrdinals(s) : i \in 1..Len(s) /\ WithOrdinals(s)[i] = i
  BY WithOrdinalsIsPosition
<1> QED
  BY <1>1, WithOrdinalsIsPosition DEF Positional, Unnumbered

LEMMA AppendedIsPositional ==
  ASSUME NEW s \in Seq(Nat), Positional(s)
  PROVE  Positional(Append(s, Len(s) + 1))
<1> DEFINE t == Append(s, Len(s) + 1)
<1>1. /\ Len(s) \in Nat /\ DOMAIN s = 1..Len(s)
      /\ DOMAIN t = 1..(Len(s) + 1)
      /\ t[Len(s) + 1] = Len(s) + 1
      /\ \A i \in 1..Len(s) : t[i] = s[i]
  OBVIOUS
<1>2. ASSUME NEW i \in DOMAIN t
      PROVE  /\ t[i] \in {Unnumbered, i}
             /\ t[i] = Unnumbered => \A k \in 1..i : t[k] = Unnumbered
  <2>1. CASE i \in 1..Len(s)
    BY <1>1, <2>1 DEF Positional
  <2>2. CASE i = Len(s) + 1
    BY <1>1, <2>2 DEF Unnumbered
  <2> QED
    BY <1>1, <1>2, <2>1, <2>2
<1> QED
  BY <1>2 DEF Positional

\* A positional conversation never shows backfill_conversation a conflict.
LEMMA PositionalHasNoConflict ==
  ASSUME NEW s \in Seq(Nat), Positional(s)
  PROVE  ~Conflicting(s)
<1> SUFFICES ASSUME NEW i \in DOMAIN s, s[i] # Unnumbered
             PROVE  ~(s[i] <= Cardinality(UnnumberedIn(s)))
  BY DEF Conflicting
<1>1. Len(s) \in Nat /\ DOMAIN s = 1..Len(s) /\ i \in Nat /\ i >= 1 /\ s[i] = i
  BY DEF Positional
<1>2. UnnumberedIn(s) \subseteq 1..(i - 1)
  BY <1>1 DEF UnnumberedIn, Positional
<1>3. IsFiniteSet(1..(i - 1)) /\ Cardinality(1..(i - 1)) = i - 1
  <2>1. i - 1 \in Int /\ 1 \in Int
    BY <1>1
  <2>2. /\ IsFiniteSet(1..(i - 1))
        /\ Cardinality(1..(i - 1)) = IF 1 > i - 1 THEN 0 ELSE i - 1 - 1 + 1
    BY <2>1, FS_Interval
  <2> QED
    BY <1>1, <2>2
<1>4. /\ IsFiniteSet(UnnumberedIn(s))
      /\ Cardinality(UnnumberedIn(s)) <= i - 1
  BY <1>2, <1>3, FS_Subset
<1>5. Cardinality(UnnumberedIn(s)) \in Nat
  BY <1>4, FS_CardinalityType
<1> QED
  BY <1>1, <1>4, <1>5

-----------------------------------------------------------------------------
(* What a step can do to the conversations                                 *)

\* A worker's transaction numbers one conversation or none, and frees at most
\* locks that workers hold.
WorkerStep ==
  /\ \A c \in Conversations :
       /\ messages'[c] \in {messages[c], WithOrdinals(messages[c])}
       /\ lock'[c] = lock[c] \/ \A w \in Writers : lock[c] # <<"writer", w>>
  /\ messages' = [c \in Conversations |-> messages'[c]]
  /\ lock' \in [Conversations -> {<<>>} \cup ({"proc"} \X Procs)
                                   \cup ({"writer"} \X Writers)]
  /\ UNCHANGED <<insert, open>>

LEMMA ReleaseKeepsWriters ==
  ASSUME OrdinalInv, NEW p \in Procs, Release(p)
  PROVE  /\ \A c \in Conversations :
              lock'[c] = lock[c] \/ \A w \in Writers : lock[c] # <<"writer", w>>
         /\ lock' \in [Conversations -> {<<>>} \cup ({"proc"} \X Procs)
                                          \cup ({"writer"} \X Writers)]
  BY DEF Release, OrdinalInv

\* Every fenced write, whatever it does to the job row.
LEMMA FencedWriteIsWorkerStep ==
  ASSUME OrdinalInv, NEW p \in Procs, Release(p), UNCHANGED <<open, insert>>,
         \/ UNCHANGED messages
         \/ messages' = [messages EXCEPT
              ![run[p].conv] = IF Conflicting(messages[run[p].conv])
                               THEN messages[run[p].conv]
                               ELSE WithOrdinals(messages[run[p].conv])]
  PROVE  WorkerStep
  BY ReleaseKeepsWriters DEF WorkerStep, OrdinalInv

LEMMA LocalIsWorkerStep ==
  ASSUME OrdinalInv, UNCHANGED <<messages, lock, insert, open>>
  PROVE  WorkerStep
  BY DEF WorkerStep, OrdinalInv

LEMMA WorkIsWorkerStep ==
  ASSUME OrdinalInv, NEW p \in Procs,
         Work(p) \/ Raise(p) \/ Crash(p) \/ \E j \in Jobs : Claim(p, j)
  PROVE  WorkerStep
<1>1. CASE Dispatch(p) \/ MarkUnavailable(p) \/ Start(p) \/ MarkFailed(p)
  BY <1>1, FencedWriteIsWorkerStep
     DEF Dispatch, MarkUnavailable, Start, MarkFailed, Write, NoWork
<1>2. CASE Finish(p)
  BY <1>2, FencedWriteIsWorkerStep, LocalIsWorkerStep DEF Finish, Write, NoWork
<1>3. CASE SequenceCheckpoint(p)
  BY <1>3, FencedWriteIsWorkerStep, LocalIsWorkerStep
     DEF SequenceCheckpoint, HonourCancel, Write, NoWork
<1>4. CASE PickCandidate(p)
  <2>1. CASE UNCHANGED lock
    BY <1>4, <2>1, LocalIsWorkerStep DEF PickCandidate
  <2>2. CASE ~UNCHANGED lock
    <3>1. PICK c : lock[c] = <<>> /\ lock' = [lock EXCEPT ![c] = <<"proc", p>>]
      BY <1>4, <2>2 DEF PickCandidate
    <3>2. UNCHANGED <<messages, insert, open>>
      BY <1>4 DEF PickCandidate
    <3>3. lock' \in [Conversations -> {<<>>} \cup ({"proc"} \X Procs)
                                       \cup ({"writer"} \X Writers)]
      BY <3>1 DEF OrdinalInv
    <3>4. ASSUME NEW d \in Conversations
          PROVE  lock'[d] = lock[d] \/ \A w \in Writers : lock[d] # <<"writer", w>>
      <4>1. CASE d = c
        BY <4>1, <3>1
      <4>2. CASE d # c
        BY <4>2, <3>1 DEF OrdinalInv
      <4> QED
        BY <4>1, <4>2
    <3> QED
      BY <3>2, <3>3, <3>4 DEF WorkerStep, OrdinalInv
  <2> QED
    BY <2>1, <2>2
<1>5. CASE NumberConversation(p)
  BY <1>5, FencedWriteIsWorkerStep DEF NumberConversation, Write
<1>6. CASE SourceBatch(p)
  BY <1>6, FencedWriteIsWorkerStep, LocalIsWorkerStep
     DEF SourceBatch, HonourCancel, Write, NoWork
<1>7. CASE SourceProgress(p)
  BY <1>7, FencedWriteIsWorkerStep DEF SourceProgress, Write, NoWork
<1>8. CASE Raise(p) \/ Crash(p)
  BY <1>8, FencedWriteIsWorkerStep DEF Raise, Crash
<1>9. CASE \E j \in Jobs : Claim(p, j)
  BY <1>9, LocalIsWorkerStep DEF Claim
<1> QED
  BY <1>1, <1>2, <1>3, <1>4, <1>5, <1>6, <1>7, <1>8, <1>9 DEF Work

LEMMA JobRequestIsWorkerStep ==
  ASSUME OrdinalInv, NEW j \in Jobs,
         RequestCancel(j) \/ RetryJob(j) \/ LapseLease(j)
  PROVE  WorkerStep
  BY LocalIsWorkerStep DEF RequestCancel, RetryJob, LapseLease

-----------------------------------------------------------------------------
(* The invariant                                                           *)

LEMMA OrdinalInit == Init => OrdinalInv
<1> SUFFICES ASSUME Init PROVE OrdinalInv
  OBVIOUS
<1>1. \A c \in Conversations : History[c] \in Nat
  BY BackfillConstants
<1>2. \A c \in Conversations :
        messages[c] \in Seq(Nat) /\ Positional(messages[c])
  BY <1>1 DEF Init, Positional, Unnumbered
<1>3. insert \in [Writers -> [conv : Nat, number : Nat]]
  BY DEF Init, IdleInsert
<1> QED
  BY <1>2, <1>3 DEF Init, OrdinalInv, InsertsOwnTheirPlace

LEMMA WorkerStepKeepsOrdinals ==
  ASSUME OrdinalInv, WorkerStep
  PROVE  OrdinalInv'
<1>1. ASSUME NEW c \in Conversations
      PROVE  /\ messages'[c] \in Seq(Nat)
             /\ Len(messages'[c]) = Len(messages[c])
             /\ Positional(messages'[c])
  <2>1. messages[c] \in Seq(Nat) /\ Positional(messages[c])
    BY <1>1 DEF OrdinalInv
  <2> QED
    BY <1>1, <2>1, WithOrdinalsIsPosition, NumberedIsPositional DEF WorkerStep
<1>2. messages' \in [Conversations -> Seq(Nat)]
  BY <1>1 DEF WorkerStep
<1>3. InsertsOwnTheirPlace'
  BY <1>1 DEF WorkerStep, OrdinalInv, InsertsOwnTheirPlace
<1> QED
  BY <1>1, <1>2, <1>3 DEF WorkerStep, OrdinalInv

LEMMA InsertKeepsOrdinals ==
  ASSUME OrdinalInv, NEW w \in Writers, NEW c \in Conversations,
         InsertMessage(w, c)
  PROVE  OrdinalInv'
<1>1. NextOrdinal(messages[c]) = Len(messages[c]) + 1
      /\ NextOrdinal(messages[c]) \in Nat
  BY NextOrdinalIsNextPosition DEF OrdinalInv
<1>2. c \in Nat /\ c # 0
  BY BackfillConstants
<1>3. insert' \in [Writers -> [conv : Nat, number : Nat]]
  BY <1>1, <1>2 DEF InsertMessage, OrdinalInv
<1>4. \A v \in Writers : v # w => insert'[v] = insert[v]
  BY DEF InsertMessage, OrdinalInv
<1>5. insert'[w] = [conv |-> c, number |-> Len(messages[c]) + 1]
  BY <1>1 DEF InsertMessage, OrdinalInv
<1>6. /\ lock'[c] = <<"writer", w>>
      /\ \A d \in Conversations : d # c => lock'[d] = lock[d]
      /\ lock' \in [Conversations -> {<<>>} \cup ({"proc"} \X Procs)
                                       \cup ({"writer"} \X Writers)]
  BY DEF InsertMessage, OrdinalInv
<1>7. InsertsOwnTheirPlace'
  <2> SUFFICES ASSUME NEW v \in Writers, insert'[v] # IdleInsert
               PROVE  /\ insert'[v].conv \in Conversations
                      /\ lock'[insert'[v].conv] = <<"writer", v>>
                      /\ insert'[v].number = Len(messages[insert'[v].conv]) + 1
    BY DEF InsertsOwnTheirPlace, InsertMessage
  <2>1. CASE v = w
    BY <2>1, <1>5, <1>6
  <2>2. CASE v # w
    <3>1. /\ insert[v].conv \in Conversations
          /\ lock[insert[v].conv] = <<"writer", v>>
          /\ insert[v].number = Len(messages[insert[v].conv]) + 1
      BY <2>2, <1>4 DEF OrdinalInv, InsertsOwnTheirPlace
    <3>2. insert[v].conv # c
      BY <3>1 DEF InsertMessage
    <3> QED
      BY <2>2, <3>1, <3>2, <1>4, <1>6
  <2> QED
    BY <2>1, <2>2
<1> QED
  BY <1>3, <1>6, <1>7 DEF OrdinalInv, InsertMessage

LEMMA EndInsertKeepsOrdinals ==
  ASSUME OrdinalInv, NEW w \in Writers, EndInsert(w)
  PROVE  OrdinalInv'
<1> DEFINE c == insert[w].conv
<1>1. /\ c \in Conversations /\ lock[c] = <<"writer", w>>
      /\ insert[w].number = Len(messages[c]) + 1
  BY DEF EndInsert, OrdinalInv, InsertsOwnTheirPlace
<1>2. messages[c] \in Seq(Nat) /\ Positional(messages[c])
  BY <1>1 DEF OrdinalInv
<1>3. \A d \in Conversations :
        /\ messages'[d] \in Seq(Nat) /\ Positional(messages'[d])
        /\ d # c => messages'[d] = messages[d]
  <2>1. Append(messages[c], Len(messages[c]) + 1) \in Seq(Nat)
    BY <1>2
  <2>2. Positional(Append(messages[c], Len(messages[c]) + 1))
    BY <1>2, AppendedIsPositional
  <2>3. \/ UNCHANGED messages
        \/ messages' = [messages EXCEPT
                          ![c] = Append(messages[c], Len(messages[c]) + 1)]
    BY <1>1 DEF EndInsert
  <2> QED
    BY <1>1, <2>1, <2>2, <2>3 DEF OrdinalInv
<1>4. messages' \in [Conversations -> Seq(Nat)]
  BY <1>3 DEF EndInsert, OrdinalInv
<1>5. /\ insert'[w] = IdleInsert
      /\ \A v \in Writers : v # w => insert'[v] = insert[v]
      /\ insert' \in [Writers -> [conv : Nat, number : Nat]]
  BY DEF EndInsert, OrdinalInv, IdleInsert
<1>6. /\ \A d \in Conversations : \A v \in Writers :
           v # w /\ lock[d] = <<"writer", v>> => lock'[d] = <<"writer", v>>
      /\ lock' \in [Conversations -> {<<>>} \cup ({"proc"} \X Procs)
                                       \cup ({"writer"} \X Writers)]
  BY DEF EndInsert, OrdinalInv
<1>7. InsertsOwnTheirPlace'
  <2> SUFFICES ASSUME NEW v \in Writers, insert'[v] # IdleInsert
               PROVE  /\ insert'[v].conv \in Conversations
                      /\ lock'[insert'[v].conv] = <<"writer", v>>
                      /\ insert'[v].number = Len(messages'[insert'[v].conv]) + 1
    BY DEF InsertsOwnTheirPlace
  <2>1. v # w
    BY <1>5
  <2>2. /\ insert[v].conv \in Conversations
        /\ lock[insert[v].conv] = <<"writer", v>>
        /\ insert[v].number = Len(messages[insert[v].conv]) + 1
    BY <2>1, <1>5 DEF OrdinalInv, InsertsOwnTheirPlace
  <2>3. insert[v].conv # c
    BY <1>1, <2>1, <2>2
  <2> QED
    BY <2>1, <2>2, <2>3, <1>3, <1>5, <1>6
<1> QED
  BY <1>3, <1>4, <1>5, <1>6, <1>7 DEF OrdinalInv

LEMMA DeleteKeepsOrdinals ==
  ASSUME OrdinalInv, NEW c \in Conversations, DeleteConversation(c)
  PROVE  OrdinalInv'
<1>1. /\ messages'[c] = <<>>
      /\ \A d \in Conversations : d # c => messages'[d] = messages[d]
      /\ messages' \in [Conversations -> Seq(Nat)]
  BY DEF DeleteConversation, OrdinalInv
<1>2. Positional(<<>>)
  BY DEF Positional
<1>3. \A d \in Conversations : Positional(messages'[d])
  BY <1>1, <1>2 DEF OrdinalInv
<1>4. InsertsOwnTheirPlace'
  BY <1>1 DEF DeleteConversation, OrdinalInv, InsertsOwnTheirPlace
<1> QED
  BY <1>1, <1>3, <1>4 DEF DeleteConversation, OrdinalInv

LEMMA OrdinalStep == OrdinalInv /\ [Next]_vars => OrdinalInv'
<1> SUFFICES ASSUME OrdinalInv, [Next]_vars PROVE OrdinalInv'
  OBVIOUS
<1>1. CASE UNCHANGED vars
  BY <1>1, LocalIsWorkerStep, WorkerStepKeepsOrdinals DEF vars
<1>2. CASE \E p \in Procs : Work(p) \/ Raise(p) \/ Crash(p)
                             \/ \E j \in Jobs : Claim(p, j)
  BY <1>2, WorkIsWorkerStep, WorkerStepKeepsOrdinals
<1>3. CASE \E w \in Writers : EndInsert(w)
  BY <1>3, EndInsertKeepsOrdinals
<1>4. CASE \E w \in Writers : \E c \in Conversations : InsertMessage(w, c)
  BY <1>4, InsertKeepsOrdinals
<1>5. CASE \E c \in Conversations : DeleteConversation(c)
  BY <1>5, DeleteKeepsOrdinals
<1>6. CASE \E j \in Jobs : RequestCancel(j) \/ RetryJob(j) \/ LapseLease(j)
  BY <1>6, JobRequestIsWorkerStep, WorkerStepKeepsOrdinals
<1> QED
  BY <1>1, <1>2, <1>3, <1>4, <1>5, <1>6 DEF Next

LEMMA OrdinalInvHolds == Spec => []OrdinalInv
<1> QED
  BY OrdinalInit, OrdinalStep, PTL DEF Spec

-----------------------------------------------------------------------------
(* The theorems                                                            *)

\* Ordinals are unique and follow creation order, however trigger-numbered
\* inserts and the numbering job interleave.
THEOREM OrdinalsOrdered == Spec => []OrdinalsFollowCreation
<1>1. OrdinalInv => OrdinalsFollowCreation
  BY DEF OrdinalInv, OrdinalsFollowCreation, Positional, Unnumbered
<1> QED
  BY <1>1, OrdinalInvHolds, PTL

\* The conflict branch of backfill_conversation is unreachable.
THEOREM ConflictUnreachable == Spec => []NoConflict
<1>1. OrdinalInv => NoConflict
  BY PositionalHasNoConflict DEF OrdinalInv, NoConflict
<1> QED
  BY <1>1, OrdinalInvHolds, PTL

\* No step changes an ordinal a reader may have seen: what the trigger
\* messages_deny_sequence_number_rewrite forbids is never even attempted.
THEOREM OrdinalsStay == Spec => OrdinalsAreImmutable
<1> DEFINE Keeps == \A c \in Conversations : c \in open' =>
                      \A i \in DOMAIN messages[c] :
                        messages[c][i] # Unnumbered
                          => messages'[c][i] = messages[c][i]
<1>1. ASSUME OrdinalInv, WorkerStep
      PROVE  Keeps
  <2> SUFFICES ASSUME NEW c \in Conversations, NEW i \in DOMAIN messages[c],
                      messages[c][i] # Unnumbered
               PROVE  messages'[c][i] = messages[c][i]
    OBVIOUS
  <2>1. messages'[c] \in {messages[c], WithOrdinals(messages[c])}
    BY <1>1 DEF WorkerStep
  <2>2. WithOrdinals(messages[c])[i] = messages[c][i]
    BY DEF WithOrdinals
  <2> QED
    BY <2>1, <2>2
<1>2. ASSUME OrdinalInv, NEW w \in Writers, EndInsert(w)
      PROVE  Keeps
  <2> SUFFICES ASSUME NEW c \in Conversations, NEW i \in DOMAIN messages[c]
               PROVE  messages'[c][i] = messages[c][i]
    OBVIOUS
  <2>1. messages[c] \in Seq(Nat) /\ insert[w].number \in Nat
    BY <1>2 DEF OrdinalInv
  <2>2. messages'[c] \in {messages[c], Append(messages[c], insert[w].number)}
    BY <1>2 DEF EndInsert, OrdinalInv
  <2>3. Append(messages[c], insert[w].number)[i] = messages[c][i]
    BY <2>1
  <2> QED
    BY <2>2, <2>3
<1>3. ASSUME OrdinalInv, NEW w \in Writers, NEW c \in Conversations,
             InsertMessage(w, c)
      PROVE  Keeps
  BY <1>3 DEF InsertMessage
<1>4. ASSUME OrdinalInv, NEW c \in Conversations, DeleteConversation(c)
      PROVE  Keeps
  BY <1>4 DEF DeleteConversation, OrdinalInv
<1>5. OrdinalInv /\ [Next]_vars => [Keeps]_vars
  <2> SUFFICES ASSUME OrdinalInv, Next PROVE Keeps
    OBVIOUS
  <2>1. CASE \E p \in Procs : Work(p) \/ Raise(p) \/ Crash(p)
                               \/ \E j \in Jobs : Claim(p, j)
    BY <2>1, <1>1, WorkIsWorkerStep
  <2>2. CASE \E j \in Jobs : RequestCancel(j) \/ RetryJob(j) \/ LapseLease(j)
    BY <2>2, <1>1, JobRequestIsWorkerStep
  <2> QED
    BY <2>1, <2>2, <1>2, <1>3, <1>4 DEF Next
<1>6. Spec => [][Next]_vars
  BY PTL DEF Spec
<1> QED
  BY <1>5, <1>6, OrdinalInvHolds, PTL DEF OrdinalsAreImmutable

-----------------------------------------------------------------------------
(* The truth of progress and completion.                                   *)
(*                                                                         *)
(* A generation of a job belongs to one process: what that process has     *)
(* counted is what has been committed for the job, as long as the fence    *)
(* still admits it, and nobody else commits for the job meanwhile.         *)

Rows == JobRows({WorkerId[p] : p \in Procs})
Active(p) == run[p].pc # "idle"
IsSequence(p) == JobType[run[p].job] = "sequence"
Working == {"loop", "candidate", "locked", "progress", "finish"}

\* One process per generation of a job.
OneGeneration ==
  /\ \A p \in Procs : Active(p) => run[p].gen <= jobs[run[p].job].gen
  /\ \A p, q \in Procs :
       Active(p) /\ Active(q) /\ p # q /\ run[p].job = run[q].job
         => run[p].gen # run[q].gen

\* The local state of a process that has counted x for a job of which y is
\* committed.
CountsRight(p, x, y) == IF IsSequence(p) THEN x = y ELSE x <= y

RunRight(p) ==
  /\ run[p].conflicted = {}
  /\ run[p].pc \in {"dispatch", "unavailable", "start"} => run[p].processed = 0
  /\ run[p].pc = "locked" => run[p].conv \in Conversations
  /\ Active(p) /\ Fenced(p) =>
       /\ run[p].pc \in Working
            => CountsRight(p, run[p].processed, done[run[p].job])
       /\ run[p].pc = "finish" /\ IsSequence(p)
            => Pending = {} \/ run[p].processed >= RunCap

TruthInv ==
  /\ TypeOK /\ OrdinalInv /\ OneGeneration
  /\ \A p \in Procs : RunRight(p)
  /\ ProgressIsWork /\ CompletedMeansNumbered

-----------------------------------------------------------------------------
(* Finiteness: totals are natural numbers                                  *)

LEMMA PendingFinite ==
  Cardinality(Pending) \in Nat
<1>1. IsFiniteSet(Conversations) /\ Pending \in SUBSET Conversations
  BY BackfillConstants DEF Pending
<1> QED
  BY <1>1, FS_Subset, FS_CardinalityType

LEMMA UnsourcedFinite ==
  ASSUME TypeOK
  PROVE  /\ IsFiniteSet(Unsourced)
         /\ Unsourced \subseteq Conversations \X Nat
<1> DEFINE Of(c) == {<<c, i>> : i \in DOMAIN messages[c]}
           T == {Of(c) : c \in open}
<1>1. open \subseteq Conversations /\ messages \in [Conversations -> Seq(Nat)]
  BY DEF TypeOK
<1>2. \A c \in open : IsFiniteSet(Of(c))
  <2> SUFFICES ASSUME NEW c \in open PROVE IsFiniteSet(Of(c))
    OBVIOUS
  <2>1. messages[c] \in Seq(Nat)
    BY <1>1
  <2>2. Len(messages[c]) \in Nat /\ DOMAIN messages[c] = 1..Len(messages[c])
    BY <2>1
  <2>3. IsFiniteSet(1..Len(messages[c]))
    BY <2>2, FS_Interval
  <2>4. IsFiniteSet({c})
    BY FS_Singleton
  <2>5. IsFiniteSet({c} \X (1..Len(messages[c])))
    BY <2>3, <2>4, FS_Product
  <2>6. Of(c) \in SUBSET ({c} \X (1..Len(messages[c])))
    BY <2>2
  <2> QED
    BY <2>5, <2>6, FS_Subset
<1>3. IsFiniteSet(open)
  BY <1>1, BackfillConstants, FS_Subset
<1>4. IsFiniteSet(T)
  <2>1. PICK n \in Nat : ExistsSurjection(1..n, open)
    BY <1>3, FS_NatSurjection
  <2>2. PICK g \in [1..n -> open] : \A c \in open : \E k \in 1..n : g[k] = c
    BY <2>1 DEF ExistsSurjection, Surjection
  <2>3. [k \in 1..n |-> Of(g[k])] \in [1..n -> T]
    BY <2>2
  <2>4. \A t \in T : \E k \in 1..n : [l \in 1..n |-> Of(g[l])][k] = t
    BY <2>2
  <2>5. ExistsSurjection(1..n, T)
    BY <2>3, <2>4 DEF ExistsSurjection, Surjection
  <2> QED
    BY <2>5, FS_NatSurjection
<1>5. IsFiniteSet(UNION T)
  BY <1>2, <1>4, FS_UNION
<1>6. Unsourced \in SUBSET UNION T
  BY DEF Unsourced
<1>7. Unsourced \subseteq Conversations \X Nat
  <2> SUFFICES ASSUME NEW x \in Unsourced PROVE x \in Conversations \X Nat
    OBVIOUS
  <2>1. PICK c \in open : x \in Of(c)
    BY DEF Unsourced
  <2>2. messages[c] \in Seq(Nat) /\ c \in Conversations
    BY <1>1
  <2>3. DOMAIN messages[c] \subseteq Nat
    BY <2>2
  <2> QED
    BY <2>1, <2>2, <2>3
<1> QED
  BY <1>5, <1>6, <1>7, FS_Subset

LEMMA NatLeast ==
  ASSUME NEW T, T \subseteq Nat, T # {}
  PROVE  \E x \in T : \A y \in T : x <= y
<1> DEFINE R == {s \in Nat \X Nat : s[1] < s[2]}
<1>1. IsWellFoundedOn(R, Nat)
  BY NatLessThanWellFounded DEF OpToRel
<1>2. PICK x \in T : \A y \in T : <<y, x>> \notin R
  BY <1>1, WFMin
<1>3. ASSUME NEW y \in T
      PROVE  x <= y
  <2>1. <<y, x>> \notin R /\ x \in Nat /\ y \in Nat
    BY <1>2
  <2>2. ~(y < x)
    BY <2>1
  <2> QED
    BY <2>1, <2>2
<1> QED
  BY <1>3

LEMMA MaxMinOfTwo ==
  ASSUME NEW a \in Nat, NEW b \in Nat
  PROVE  /\ Max({a, b}) \in Nat /\ Max({a, b}) >= a /\ Max({a, b}) >= b
         /\ Min({a, b}) \in Nat /\ Min({a, b}) <= a /\ Min({a, b}) <= b
<1>1. \E x \in {a, b} : \A y \in {a, b} : x >= y
  OBVIOUS
<1>2. \E x \in {a, b} : \A y \in {a, b} : x <= y
  OBVIOUS
<1>3. /\ Max({a, b}) \in {a, b} /\ \A y \in {a, b} : Max({a, b}) >= y
  BY <1>1 DEF Max
<1>4. /\ Min({a, b}) \in {a, b} /\ \A y \in {a, b} : Min({a, b}) <= y
  BY <1>2 DEF Min
<1> QED
  BY <1>3, <1>4

-----------------------------------------------------------------------------
(* What every step keeps                                                   *)

\* Numbered conversations stay numbered.
NumberedStays == Pending = {} => Pending' = {}

LEMMA PendingEmpty ==
  Pending = {} <=> \A c \in Conversations : \A i \in DOMAIN messages[c] :
                      messages[c][i] # Unnumbered
  BY DEF Pending, UnnumberedIn

LEMMA NumberedStep ==
  ASSUME TruthInv, [Next]_vars
  PROVE  NumberedStays
<1> SUFFICES ASSUME Pending = {}
             PROVE  \A c \in Conversations : \A i \in DOMAIN messages'[c] :
                      messages'[c][i] # Unnumbered
  BY PendingEmpty DEF NumberedStays, Pending, UnnumberedIn
<1>1. \A c \in Conversations : \A i \in DOMAIN messages[c] :
        messages[c][i] # Unnumbered
  BY PendingEmpty
<1>2. OrdinalInv
  BY DEF TruthInv
<1>3. CASE WorkerStep
  <2> SUFFICES ASSUME NEW c \in Conversations, NEW i \in DOMAIN messages'[c]
               PROVE  messages'[c][i] # Unnumbered
    OBVIOUS
  <2>1. messages'[c] \in {messages[c], WithOrdinals(messages[c])}
    BY <1>3 DEF WorkerStep
  <2>2. /\ DOMAIN WithOrdinals(messages[c]) = DOMAIN messages[c]
        /\ \A k \in DOMAIN messages[c] :
             WithOrdinals(messages[c])[k] = messages[c][k]
    BY <1>1 DEF WithOrdinals
  <2> QED
    BY <1>1, <2>1, <2>2
<1>4. CASE UNCHANGED messages
  BY <1>1, <1>4
<1>5. ASSUME NEW w \in Writers, EndInsert(w)
      PROVE  \A c \in Conversations : \A i \in DOMAIN messages'[c] :
               messages'[c][i] # Unnumbered
  <2> DEFINE d == insert[w].conv
  <2>1. /\ d \in Conversations /\ insert[w].number = Len(messages[d]) + 1
        /\ messages[d] \in Seq(Nat)
    BY <1>2, <1>5 DEF EndInsert, OrdinalInv, InsertsOwnTheirPlace
  <2>2. \A i \in DOMAIN Append(messages[d], insert[w].number) :
          Append(messages[d], insert[w].number)[i] # Unnumbered
    BY <1>1, <2>1 DEF Unnumbered
  <2>3. \A c \in Conversations :
          \/ messages'[c] = messages[c]
          \/ c = d /\ messages'[c] = Append(messages[d], insert[w].number)
    BY <1>2, <1>5 DEF EndInsert, OrdinalInv
  <2> QED
    BY <1>1, <2>2, <2>3
<1>6. ASSUME NEW d \in Conversations, DeleteConversation(d)
      PROVE  \A c \in Conversations : \A i \in DOMAIN messages'[c] :
               messages'[c][i] # Unnumbered
  BY <1>1, <1>2, <1>6 DEF DeleteConversation, OrdinalInv
<1>7. CASE UNCHANGED vars
  BY <1>4, <1>7 DEF vars
<1>8. CASE \E p \in Procs : Work(p) \/ Raise(p) \/ Crash(p)
                             \/ \E j \in Jobs : Claim(p, j)
  BY <1>2, <1>3, <1>8, WorkIsWorkerStep
<1>9. CASE \E j \in Jobs : RequestCancel(j) \/ RetryJob(j) \/ LapseLease(j)
  BY <1>2, <1>3, <1>9, JobRequestIsWorkerStep
<1>10. CASE \E w \in Writers : \E c \in Conversations : InsertMessage(w, c)
  BY <1>4, <1>10 DEF InsertMessage
<1> QED
  BY <1>5, <1>6, <1>7, <1>8, <1>9, <1>10 DEF Next

-----------------------------------------------------------------------------
(* The worker's steps                                                      *)

LEMMA IdleRunTyped ==
  /\ IdleRun \in Runs /\ IdleRun.pc = "idle" /\ IdleRun.conflicted = {}
  /\ IdleRun.processed = 0
<1>1. (CHOOSE j \in Jobs : TRUE) \in Jobs
  BY BackfillConstants
<1> QED
  BY <1>1 DEF IdleRun, Runs, PCs

LEMMA RunTyped ==
  ASSUME TypeOK, NEW p \in Procs
  PROVE  /\ run[p] \in Runs /\ run[p].job \in Jobs /\ run[p].gen \in Nat
         /\ run[p].pc \in PCs
         /\ run[p].processed \in Nat /\ run[p].total \in Nat
         /\ run[p].conv \in Conversations \cup {0}
         /\ jobs[run[p].job] \in Rows /\ done[run[p].job] \in Nat
<1>1. run[p] \in Runs
  BY DEF TypeOK
<1>2. run[p].job \in Jobs
  BY <1>1 DEF Runs
<1> QED
  BY <1>1, <1>2 DEF Runs, TypeOK, Rows

LEMMA RowTyped ==
  ASSUME NEW row \in Rows
  PROVE  /\ row.gen \in Nat /\ row.current \in Nat /\ row.status \in Statuses
         /\ row.retries \in Nat
  BY DEF Rows, JobRows

\* What a step of p leaves: its local state r, and the row and the count of
\* committed work of its job.
LEMMA WriteKeeps ==
  ASSUME TruthInv, OrdinalInv', NumberedStays, NEW p \in Procs, Active(p),
         NEW r \in Runs, run' = [run EXCEPT ![p] = r],
         \/ r = IdleRun
         \/ r.job = run[p].job /\ r.gen = run[p].gen /\ r.conflicted = {},
         UNCHANGED <<open, insert>>, sourced' \subseteq Conversations \X Nat,
         count' \in [inserts : Nat, faults : Nat, errors : Nat],
         NEW new \in Rows, NEW d \in Nat,
         jobs' = [jobs EXCEPT ![run[p].job] = new],
         done' = [done EXCEPT ![run[p].job] = d],
         \/ new = jobs[run[p].job] /\ d = done[run[p].job]
         \/ Fenced(p) /\ new.gen = jobs[run[p].job].gen,
         new.current <= d, IsSequence(p) => new.current = d,
         IsSequence(p) /\ new.status = "completed" /\ new.current < RunCap
           => Pending' = {},
         r.pc \in {"dispatch", "unavailable", "start"} => r.processed = 0,
         r.pc = "locked" => r.conv \in Conversations,
         r # IdleRun /\ Holds(new, WorkerId[p], run[p].gen) =>
           /\ r.pc \in Working => CountsRight(p, r.processed, d)
           /\ r.pc = "finish" /\ IsSequence(p)
                => Pending' = {} \/ r.processed >= RunCap
  PROVE  TruthInv'
<1> DEFINE j == run[p].job
<1>1. /\ run' \in [Procs -> Runs] /\ run'[p] = r
      /\ \A q \in Procs \ {p} : run'[q] = run[q]
  BY DEF TruthInv, TypeOK
<1>2. /\ jobs' \in [Jobs -> Rows] /\ jobs'[j] = new /\ j \in Jobs
      /\ done' \in [Jobs -> Nat] /\ done'[j] = d
      /\ \A k \in Jobs \ {j} : jobs'[k] = jobs[k] /\ done'[k] = done[k]
  BY RunTyped DEF TruthInv, TypeOK, Rows
<1>3. TypeOK'
  BY <1>1, <1>2 DEF TruthInv, TypeOK, OrdinalInv, Rows
<1>4. \A q \in Procs : run[q].job \in Jobs /\ run[q].gen \in Nat
  BY RunTyped DEF TruthInv
<1>5. IdleRun.pc = "idle" /\ IdleRun.conflicted = {}
  BY IdleRunTyped
<1>6. new.gen = jobs[j].gen
  OBVIOUS
<1>7. OneGeneration'
  <2>1. ASSUME NEW q \in Procs, run'[q].pc # "idle"
        PROVE  /\ Active(q) /\ run'[q].job = run[q].job /\ run'[q].gen = run[q].gen
               /\ run'[q].gen <= jobs'[run'[q].job].gen
    <3>1. CASE q = p
      BY <1>1, <1>2, <1>5, <1>6, <2>1, <3>1 DEF TruthInv, OneGeneration
    <3>2. CASE q # p
      <4>1. Active(q) /\ run[q].gen <= jobs[run[q].job].gen
        BY <1>1, <2>1, <3>2 DEF TruthInv, OneGeneration, Active
      <4> QED
        BY <1>1, <1>2, <1>4, <1>6, <3>2, <4>1
    <3> QED
      BY <3>1, <3>2
  <2> QED
    BY <2>1 DEF TruthInv, OneGeneration, Active
<1>8. ASSUME NEW q \in Procs
      PROVE  RunRight(q)'
  <2>1. CASE q = p
    <3>1. run'[p] = r /\ jobs'[j] = new /\ done'[j] = d
      BY <1>1, <1>2
    <3>2. CASE r = IdleRun
      BY <1>5, <2>1, <3>1, <3>2 DEF RunRight, Active
    <3>3. CASE r # IdleRun
      <4>1. /\ r.job = j /\ r.gen = run[p].gen /\ r.conflicted = {}
            /\ IsSequence(p)' <=> IsSequence(p)
            /\ Fenced(p)' <=> Holds(new, WorkerId[p], run[p].gen)
        BY <3>1, <3>3 DEF IsSequence, Fenced
      <4> QED
        BY <2>1, <3>1, <3>3, <4>1 DEF RunRight, CountsRight
    <3> QED
      BY <3>2, <3>3
  <2>2. CASE q # p
    <3>1. run'[q] = run[q] /\ RunRight(q) /\ run[q].job \in Jobs
      BY <1>1, <1>4, <2>2 DEF TruthInv
    <3>2. CASE /\ jobs'[run[q].job] = jobs[run[q].job]
               /\ done'[run[q].job] = done[run[q].job]
      <4>1. /\ Fenced(q)' <=> Fenced(q)
            /\ Active(q)' <=> Active(q)
            /\ IsSequence(q)' <=> IsSequence(q)
        BY <3>1, <3>2 DEF Fenced, Active, IsSequence
      <4> QED
        BY <3>1, <3>2, <4>1 DEF RunRight, CountsRight, NumberedStays
    <3>3. CASE ~(/\ jobs'[run[q].job] = jobs[run[q].job]
                 /\ done'[run[q].job] = done[run[q].job])
      <4>1. run[q].job = j /\ Fenced(p) /\ new.gen = jobs[j].gen
        BY <1>2, <1>4, <3>3
      <4>2. Active(q) => run[q].gen # run[p].gen
        BY <2>2, <4>1 DEF TruthInv, OneGeneration
      <4>3. Active(q)' => ~Fenced(q)'
        BY <1>2, <3>1, <4>1, <4>2 DEF Active, Fenced, Holds
      <4> QED
        BY <3>1, <4>3 DEF RunRight
    <3> QED
      BY <3>2, <3>3
  <2> QED
    BY <2>1, <2>2
<1>9. ProgressIsWork'
  BY <1>2 DEF TruthInv, ProgressIsWork, IsSequence
<1>10. CompletedMeansNumbered'
  BY <1>2 DEF TruthInv, CompletedMeansNumbered, IsSequence, NumberedStays
<1> QED
  BY <1>3, <1>7, <1>8, <1>9, <1>10 DEF TruthInv

\* The bounded counters.
Counts == [inserts : Nat, faults : Nat, errors : Nat]

\* The columns a worker's statement keeps or sets.
LEMMA WorkerRows ==
  ASSUME NEW row \in Rows
  PROVE  /\ Renewed(row) \in Rows /\ Renewed(row).gen = row.gen
         /\ Renewed(row).current = row.current /\ Renewed(row).status = row.status
         /\ Completed(row) \in Rows /\ Completed(row).gen = row.gen
         /\ Completed(row).current = row.current
         /\ Cancelled(row) \in Rows /\ Cancelled(row).gen = row.gen
         /\ Cancelled(row).current = row.current
         /\ Cancelled(row).status = "cancelled"
         /\ \A e \in {"unexpected", "capability_unavailable"} :
              /\ Failed(row, e) \in Rows /\ Failed(row, e).gen = row.gen
              /\ Failed(row, e).current = row.current
              /\ Failed(row, e).status = "failed"
         /\ \A n \in Nat, t \in Nat :
              /\ Progressed(row, n, t) \in Rows
              /\ Progressed(row, n, t).gen = row.gen
              /\ Progressed(row, n, t).current = n
              /\ Progressed(row, n, t).status = row.status
<1>1. Renewed(row) \in Rows
  BY DEF Renewed, Rows, JobRows, Leases
<1>2. Completed(row) \in Rows
  BY DEF Completed, Rows, JobRows, Statuses
<1>3. Cancelled(row) \in Rows
  BY DEF Cancelled, Rows, JobRows, Statuses
<1>4. \A e \in {"unexpected", "capability_unavailable"} : Failed(row, e) \in Rows
  BY DEF Failed, Rows, JobRows, Statuses, ErrorCategories
<1>5. \A n \in Nat, t \in Nat : Progressed(row, n, t) \in Rows
  BY DEF Progressed, Rows, JobRows
<1>6. /\ Renewed(row).gen = row.gen
      /\ Renewed(row).current = row.current /\ Renewed(row).status = row.status
      /\ Completed(row).gen = row.gen /\ Completed(row).current = row.current
      /\ Cancelled(row).gen = row.gen /\ Cancelled(row).current = row.current
      /\ Cancelled(row).status = "cancelled"
  BY DEF Renewed, Completed, Cancelled, Rows, JobRows
<1>7. \A e : /\ Failed(row, e).gen = row.gen
             /\ Failed(row, e).current = row.current
             /\ Failed(row, e).status = "failed"
  BY DEF Failed, Rows, JobRows
<1>8. \A n, t : /\ Progressed(row, n, t).gen = row.gen
                /\ Progressed(row, n, t).current = n
                /\ Progressed(row, n, t).status = row.status
  BY DEF Progressed, Rows, JobRows
<1> QED
  BY <1>1, <1>2, <1>3, <1>4, <1>5, <1>6, <1>7, <1>8

LEMMA ProgressedRow ==
  ASSUME NEW row \in Rows, NEW n \in Nat, NEW t \in Nat
  PROVE  \E new \in Rows : /\ new = Progressed(row, n, t) /\ new.gen = row.gen
                           /\ new.current = n /\ new.status = row.status
  BY WorkerRows

\* A step of p that leaves the tables of the jobs alone.
LEMMA LocalKeeps ==
  ASSUME TruthInv, OrdinalInv', NumberedStays, NEW p \in Procs, Active(p),
         NEW r \in Runs, run' = [run EXCEPT ![p] = r],
         \/ r = IdleRun
         \/ r.job = run[p].job /\ r.gen = run[p].gen /\ r.conflicted = {},
         UNCHANGED <<jobs, sourced, open, insert, done>>, count' \in Counts,
         r.pc \in {"dispatch", "unavailable", "start"} => r.processed = 0,
         r.pc = "locked" => r.conv \in Conversations,
         r # IdleRun /\ Fenced(p) =>
           /\ r.pc \in Working => CountsRight(p, r.processed, done[run[p].job])
           /\ r.pc = "finish" /\ IsSequence(p)
                => Pending' = {} \/ r.processed >= RunCap
  PROVE  TruthInv'
<1>1. PICK new \in Rows, d \in Nat :
        new = jobs[run[p].job] /\ d = done[run[p].job]
  BY RunTyped DEF TruthInv
<1>2. /\ jobs' = [jobs EXCEPT ![run[p].job] = new]
      /\ done' = [done EXCEPT ![run[p].job] = d]
      /\ sourced' \subseteq Conversations \X Nat
  BY <1>1, RunTyped DEF TruthInv, TypeOK
<1>3. new.current <= d /\ (IsSequence(p) => new.current = d)
  BY <1>1, RunTyped DEF TruthInv, ProgressIsWork, IsSequence
<1>4. IsSequence(p) /\ new.status = "completed" /\ new.current < RunCap
        => Pending' = {}
  BY <1>1, RunTyped DEF TruthInv, CompletedMeansNumbered, IsSequence, NumberedStays
<1>5. Holds(new, WorkerId[p], run[p].gen) => Fenced(p)
  BY <1>1 DEF Fenced
<1> QED
  BY <1>1, <1>2, <1>3, <1>4, <1>5, WriteKeeps DEF Counts

LEMMA StopOrFailKeeps ==
  ASSUME TruthInv, OrdinalInv', NumberedStays, NEW p \in Procs, Active(p),
         Stop(p) \/ Goto(p, "fail"),
         UNCHANGED <<jobs, sourced, open, insert, done>>, count' \in Counts
  PROVE  TruthInv'
<1>1. CASE Stop(p)
  BY <1>1, IdleRunTyped, LocalKeeps DEF Stop
<1>2. CASE Goto(p, "fail")
  <2> DEFINE r == [run[p] EXCEPT !.pc = "fail"]
  <2>1. /\ r \in Runs /\ r.job = run[p].job /\ r.gen = run[p].gen /\ r.pc = "fail"
        /\ r.conflicted = {}
    BY RunTyped DEF Runs, PCs, TruthInv, RunRight
  <2>2. run' = [run EXCEPT ![p] = r]
    BY <1>2 DEF Goto
  <2> HIDE DEF r
  <2> QED
    BY <2>1, <2>2, LocalKeeps DEF Working
<1> QED
  BY <1>1, <1>2

\* The row of a fenced process is that of a running job, and what it counted
\* is what the row says.
LEMMA FencedFacts ==
  ASSUME TruthInv, NEW p \in Procs, Active(p), Fenced(p)
  PROVE  /\ jobs[run[p].job].status = "running"
         /\ jobs[run[p].job].current <= done[run[p].job]
         /\ IsSequence(p) => jobs[run[p].job].current = done[run[p].job]
         /\ run[p].pc \in Working =>
              CountsRight(p, run[p].processed, done[run[p].job])
         /\ run[p].pc = "finish" /\ IsSequence(p)
              => Pending = {} \/ run[p].processed >= RunCap
<1>1. run[p].job \in Jobs
  BY RunTyped DEF TruthInv
<1> QED
  BY <1>1 DEF TruthInv, RunRight, ProgressIsWork, IsSequence, Fenced, Holds

\* A fenced write that commits no work and ends the run or moves on.
LEMMA AcceptedKeeps ==
  ASSUME TruthInv, OrdinalInv', NumberedStays, NEW p \in Procs, Active(p), Fenced(p),
         NEW new \in Rows, jobs' = [jobs EXCEPT ![run[p].job] = new],
         new.gen = jobs[run[p].job].gen, new.current = jobs[run[p].job].current,
         IsSequence(p) /\ new.status = "completed" /\ new.current < RunCap
           => Pending' = {},
         UNCHANGED <<open, insert, sourced, done>>, count' \in Counts,
         \/ Stop(p)
         \/ \E pc \in {"start", "unavailable"} :
              run[p].pc = "dispatch" /\ Goto(p, pc)
         \/ run[p].pc \in Working /\ \E pc \in {"candidate", "loop"} : Goto(p, pc)
  PROVE  TruthInv'
<1> DEFINE j == run[p].job
           d == done[j]
<1>1. /\ j \in Jobs /\ d \in Nat /\ done' = [done EXCEPT ![j] = d]
      /\ sourced' \subseteq Conversations \X Nat
      /\ new.current <= d /\ (IsSequence(p) => new.current = d)
  BY RunTyped, FencedFacts DEF TruthInv, TypeOK
<1>2. PICK r \in Runs :
        /\ run' = [run EXCEPT ![p] = r]
        /\ \/ r = IdleRun
           \/ r.job = run[p].job /\ r.gen = run[p].gen /\ r.conflicted = {}
        /\ r.pc \in {"dispatch", "unavailable", "start"} => r.processed = 0
        /\ r.pc # "locked" /\ r.pc # "finish"
        /\ r # IdleRun /\ r.pc \in Working => CountsRight(p, r.processed, d)
  <2>1. CASE Stop(p)
    BY <2>1, IdleRunTyped DEF Stop
  <2>2. ASSUME NEW pc \in {"start", "unavailable"}, run[p].pc = "dispatch", Goto(p, pc)
        PROVE  \E r \in Runs :
                 /\ run' = [run EXCEPT ![p] = r]
                 /\ r.job = run[p].job /\ r.gen = run[p].gen /\ r.conflicted = {}
                 /\ r.processed = 0 /\ r.pc = pc
    <3> DEFINE r == [run[p] EXCEPT !.pc = pc]
    <3>1. r \in Runs /\ r.job = run[p].job /\ r.gen = run[p].gen /\ r.pc = pc
          /\ r.processed = run[p].processed /\ r.conflicted = run[p].conflicted
      BY RunTyped DEF Runs, PCs, TruthInv
    <3>2. run' = [run EXCEPT ![p] = r]
      BY <2>2 DEF Goto
    <3> HIDE DEF r
    <3>3. run[p].processed = 0 /\ run[p].conflicted = {}
      BY <2>2 DEF TruthInv, RunRight
    <3> QED
      BY <3>1, <3>2, <3>3
  <2>3. ASSUME NEW pc \in {"candidate", "loop"}, run[p].pc \in Working, Goto(p, pc)
        PROVE  \E r \in Runs :
                 /\ run' = [run EXCEPT ![p] = r]
                 /\ r.job = run[p].job /\ r.gen = run[p].gen /\ r.conflicted = {}
                 /\ r.processed = run[p].processed /\ r.pc = pc
    <3> DEFINE r == [run[p] EXCEPT !.pc = pc]
    <3>1. r \in Runs /\ r.job = run[p].job /\ r.gen = run[p].gen /\ r.pc = pc
          /\ r.processed = run[p].processed /\ r.conflicted = run[p].conflicted
      BY RunTyped DEF Runs, PCs, TruthInv
    <3>2. run' = [run EXCEPT ![p] = r]
      BY <2>3 DEF Goto
    <3> HIDE DEF r
    <3>3. run[p].conflicted = {}
      BY DEF TruthInv, RunRight
    <3> QED
      BY <3>1, <3>2, <3>3
  <2> QED
    BY <2>1, <2>2, <2>3, FencedFacts DEF Working
<1> HIDE DEF j, d
<1> QED
  BY <1>1, <1>2, WriteKeeps DEF Counts, j, d

\* One case per action of a worker.
LEMMA WorkSteps ==
  ASSUME TruthInv, OrdinalInv', NumberedStays, NEW p \in Procs,
         Work(p) \/ Raise(p) \/ Crash(p)
  PROVE  TruthInv'
<1> DEFINE j == run[p].job
           Lost == /\ UNCHANGED <<jobs, messages, sourced, done, open, insert>>
                   /\ Stop(p) \/ Goto(p, "fail")
<1>1. /\ j \in Jobs /\ jobs[j] \in Rows /\ done[j] \in Nat
      /\ run[p] \in Runs /\ run[p].processed \in Nat /\ run[p].total \in Nat
      /\ run[p].conv \in Conversations \cup {0} /\ run[p].conflicted = {}
      /\ jobs[j].current \in Nat
  BY RunTyped, RowTyped DEF TruthInv, RunRight
<1>2. count \in Counts
  BY DEF TruthInv, TypeOK, Counts
<1>3. Active(p)
  BY DEF Work, Raise, Crash, Dispatch, MarkUnavailable, Start, MarkFailed, Finish,
         SequenceCheckpoint, PickCandidate, NumberConversation, SourceBatch,
         SourceProgress, Sequencing, Sourcing, Active
<1>4. count' \in Counts /\ Lost => TruthInv'
  BY <1>3, StopOrFailKeeps
<1>5. \A c \in Counts : [c EXCEPT !.errors = c.errors + 1] \in Counts
                      /\ [c EXCEPT !.faults = c.faults + 1] \in Counts
  BY DEF Counts
<1>6. CASE Dispatch(p)
  <2>1. count' \in Counts
    BY <1>2, <1>5, <1>6 DEF Dispatch
  <2>2. CASE Lost
    BY <1>4, <2>1, <2>2
  <2>3. CASE ~Lost
    <3>1. /\ Fenced(p) /\ jobs' = [jobs EXCEPT ![j] = jobs[j]]
          /\ UNCHANGED <<open, insert, sourced, done>>
          /\ run[p].pc = "dispatch"
          /\ \E pc \in {"start", "unavailable"} : Goto(p, pc)
      BY <1>6, <2>3 DEF Dispatch, Write, NoWork
    <3>2. jobs[j].status # "completed"
      BY <1>3, <3>1, FencedFacts
    <3> HIDE DEF j
    <3> QED
      BY <1>1, <1>3, <2>1, <3>1, <3>2, AcceptedKeeps DEF j
  <2> QED
    BY <2>2, <2>3
<1>7. CASE MarkUnavailable(p) \/ MarkFailed(p)
  <2>1. count' \in Counts
    BY <1>2, <1>7 DEF MarkUnavailable, MarkFailed
  <2>2. CASE Lost
    BY <1>4, <2>1, <2>2
  <2>3. CASE ~Lost
    <3>1. PICK e \in {"unexpected", "capability_unavailable"} :
            /\ Fenced(p) /\ jobs' = [jobs EXCEPT ![j] = Failed(jobs[j], e)]
            /\ UNCHANGED <<open, insert, sourced, done>> /\ Stop(p)
      BY <1>7, <2>3 DEF MarkUnavailable, MarkFailed, Write, NoWork
    <3>2. /\ Failed(jobs[j], e) \in Rows /\ Failed(jobs[j], e).gen = jobs[j].gen
          /\ Failed(jobs[j], e).current = jobs[j].current
          /\ Failed(jobs[j], e).status # "completed"
      BY <1>1, WorkerRows
    <3> QED
      BY <1>3, <2>1, <3>1, <3>2, AcceptedKeeps
  <2> QED
    BY <2>2, <2>3
<1>8. CASE Start(p)
  <2>1. count' \in Counts
    BY <1>2, <1>8 DEF Start
  <2>2. CASE Lost
    BY <1>4, <2>1, <2>2
  <2>3. CASE ~Lost
    <3>1. PICK t \in Nat :
            /\ Fenced(p) /\ Accepts(jobs[j], Progressed(jobs[j], 0, t))
            /\ jobs' = [jobs EXCEPT ![j] = Progressed(jobs[j], 0, t)]
            /\ run' = [run EXCEPT ![p].pc = "loop", ![p].total = t]
            /\ UNCHANGED <<open, insert, sourced, done, messages>>
            /\ run[p].pc = "start"
      <4>1. Cardinality(Pending) \in Nat /\ Cardinality(Unsourced) \in Nat
        BY PendingFinite, UnsourcedFinite, FS_CardinalityType DEF TruthInv
      <4> QED
        BY <1>8, <2>3, <4>1 DEF Start, Write, NoWork
    <3> DEFINE r == [run[p] EXCEPT !.pc = "loop", !.total = t]
    <3>2. r \in Runs /\ r.job = j /\ r.gen = run[p].gen /\ r.conflicted = {}
          /\ r.pc = "loop" /\ r.processed = run[p].processed
      BY <1>1 DEF Runs, PCs
    <3>3. run' = [run EXCEPT ![p] = r]
      BY <3>1
    <3>4. PICK new \in Rows : /\ new = Progressed(jobs[j], 0, t)
                              /\ new.gen = jobs[j].gen /\ new.current = 0
                              /\ new.status = jobs[j].status
      <4>1. PICK row \in Rows, n \in Nat : row = jobs[j] /\ n = 0
        BY <1>1
      <4>2. \E new \in Rows : /\ new = Progressed(row, n, t) /\ new.gen = row.gen
                              /\ new.current = n /\ new.status = row.status
        BY ProgressedRow
      <4> QED
        BY <4>1, <4>2
    <3>5. PICK d \in Nat : d = done[j]
      BY <1>1
    <3>6. /\ jobs[j].status = "running" /\ jobs[j].current <= d
          /\ IsSequence(p) => jobs[j].current = d
      BY <1>3, <3>1, <3>5, FencedFacts
    <3>7. jobs[j].current = 0
      BY <1>1, <3>1, <3>4, <3>6 DEF Accepts, NoProgressRegression
    <3>8. run[p].processed = 0
      BY <3>1 DEF TruthInv, RunRight
    <3>9. CountsRight(p, r.processed, d)
      BY <3>2, <3>5, <3>6, <3>7, <3>8 DEF CountsRight
    <3>10. done' = [done EXCEPT ![j] = d]
      BY <1>1, <3>1, <3>5 DEF TruthInv, TypeOK
    <3>11. sourced' \subseteq Conversations \X Nat
      BY <3>1 DEF TruthInv, TypeOK
    <3>12. /\ jobs' = [jobs EXCEPT ![j] = new] /\ UNCHANGED <<open, insert>>
           /\ Fenced(p) /\ new.current <= d /\ (IsSequence(p) => new.current = d)
           /\ new.gen = jobs[j].gen /\ new.status # "completed"
      BY <3>1, <3>4, <3>6, <3>7
    <3> HIDE DEF r, j
    <3> QED
      BY <1>3, <2>1, <3>2, <3>3, <3>9, <3>10, <3>11, <3>12,
         WriteKeeps DEF Counts, j
  <2> QED
    BY <2>2, <2>3
<1>9. CASE Finish(p)
  <2>1. count' \in Counts
    BY <1>2, <1>9 DEF Finish
  <2>2. CASE Lost
    BY <1>4, <2>1, <2>2
  <2>3. CASE ~Lost
    <3>1. /\ Fenced(p) /\ jobs' = [jobs EXCEPT ![j] = Completed(jobs[j])]
          /\ UNCHANGED <<open, insert, sourced, done>> /\ Stop(p)
          /\ run[p].pc = "finish"
      BY <1>9, <2>3 DEF Finish, Write, NoWork
    <3>2. /\ Completed(jobs[j]) \in Rows /\ Completed(jobs[j]).gen = jobs[j].gen
          /\ Completed(jobs[j]).current = jobs[j].current
      BY <1>1, WorkerRows
    <3>3. IsSequence(p) /\ jobs[j].current < RunCap => Pending' = {}
      <4>1. IsSequence(p) => jobs[j].current = run[p].processed
        BY <1>3, <3>1, FencedFacts DEF Working, CountsRight
      <4>2. IsSequence(p) => Pending = {} \/ run[p].processed >= RunCap
        BY <1>3, <3>1, FencedFacts
      <4> QED
        BY <1>1, <4>1, <4>2, BackfillConstants DEF NumberedStays
    <3> HIDE DEF j
    <3> QED
      BY <1>3, <2>1, <3>1, <3>2, <3>3, AcceptedKeeps DEF j
  <2> QED
    BY <2>2, <2>3
\* A cancel request is honoured by either loop.
<1>10. ASSUME HonourCancel(p), count' \in Counts
       PROVE  TruthInv'
  <2>1. CASE Lost
    BY <1>4, <1>10, <2>1
  <2>2. CASE ~Lost
    <3>1. /\ Fenced(p) /\ jobs' = [jobs EXCEPT ![j] = Cancelled(jobs[j])]
          /\ UNCHANGED <<open, insert, sourced, done>> /\ Stop(p)
      BY <1>10, <2>2 DEF HonourCancel, Write, NoWork
    <3>2. /\ Cancelled(jobs[j]) \in Rows /\ Cancelled(jobs[j]).gen = jobs[j].gen
          /\ Cancelled(jobs[j]).current = jobs[j].current
          /\ Cancelled(jobs[j]).status # "completed"
      BY <1>1, WorkerRows
    <3> QED
      BY <1>3, <1>10, <3>1, <3>2, AcceptedKeeps
  <2> QED
    BY <2>1, <2>2
\* A loop ends at its cap, or with nothing left to do.
<1>11. ASSUME Goto(p, "finish"), UNCHANGED <<jobs, sourced, open, insert, done, count>>,
              run[p].pc \in Working,
              IsSequence(p) => Pending = {} \/ run[p].processed >= RunCap
       PROVE  TruthInv'
  <2> DEFINE r == [run[p] EXCEPT !.pc = "finish"]
  <2>1. r \in Runs /\ r.job = j /\ r.gen = run[p].gen /\ r.conflicted = {}
        /\ r.pc = "finish" /\ r.processed = run[p].processed
    BY <1>1 DEF Runs, PCs
  <2>2. run' = [run EXCEPT ![p] = r]
    BY <1>11 DEF Goto
  <2>3. Fenced(p) => CountsRight(p, r.processed, done[j])
    BY <1>3, <1>11, <2>1, FencedFacts
  <2>4. IsSequence(p) => Pending' = {} \/ r.processed >= RunCap
    BY <1>11, <2>1 DEF NumberedStays
  <2> HIDE DEF r
  <2> QED
    BY <1>2, <1>3, <1>11, <2>1, <2>2, <2>3, <2>4, LocalKeeps
<1>12. CASE SequenceCheckpoint(p)
  <2>1. CASE run[p].processed >= RunCap
    BY <1>11, <1>12, <2>1 DEF SequenceCheckpoint, Sequencing, Working
  <2>2. CASE ~(run[p].processed >= RunCap) /\ HonourCancel(p)
    BY <1>2, <1>10, <1>12, <2>2 DEF SequenceCheckpoint
  <2>3. CASE Lost
    BY <1>2, <1>4, <1>12, <2>3 DEF SequenceCheckpoint
  <2>4. CASE ~(run[p].processed >= RunCap) /\ ~HonourCancel(p) /\ ~Lost
    <3>1. /\ Fenced(p) /\ jobs' = [jobs EXCEPT ![j] = Renewed(jobs[j])]
          /\ UNCHANGED <<open, insert, sourced, done, count>> /\ Goto(p, "candidate")
          /\ run[p].pc \in Working
      BY <1>12, <2>4 DEF SequenceCheckpoint, Sequencing, Write, NoWork, Working
    <3>2. /\ Renewed(jobs[j]) \in Rows /\ Renewed(jobs[j]).gen = jobs[j].gen
          /\ Renewed(jobs[j]).current = jobs[j].current
          /\ Renewed(jobs[j]).status # "completed"
      BY <1>1, <1>3, <3>1, WorkerRows, FencedFacts
    <3> QED
      BY <1>2, <1>3, <3>1, <3>2, AcceptedKeeps
  <2> QED
    BY <2>1, <2>2, <2>3, <2>4
<1>13. CASE PickCandidate(p)
  <2>1. /\ run[p].pc = "candidate"
        /\ UNCHANGED <<jobs, messages, sourced, open, insert, done, count>>
    BY <1>13 DEF PickCandidate, Sequencing
  <2>2. CASE Pending = {}
    <3>1. Goto(p, "finish")
      BY <1>13, <2>2 DEF PickCandidate
    <3> QED
      BY <1>11, <2>1, <2>2, <3>1 DEF Working
  <2>3. CASE Pending # {}
    <3> DEFINE c == Min(Pending)
               t == Max({run[p].total, run[p].processed + 1})
               r == [run[p] EXCEPT !.pc = "locked", !.conv = c, !.total = t]
    <3>1. Pending \ run[p].conflicted = Pending
      BY <1>1
    <3>2. run' = [run EXCEPT ![p] = r]
      BY <1>13, <2>3, <3>1 DEF PickCandidate
    <3>3. c \in Conversations
      <4>1. Pending \subseteq Conversations /\ Conversations \subseteq Nat
        BY BackfillConstants DEF Pending
      <4>2. lock[c] = <<>> /\ lock' = [lock EXCEPT ![c] = <<"proc", p>>]
        BY <1>13, <2>3, <3>1 DEF PickCandidate
      <4>3. \E x \in Pending : \A y \in Pending : x <= y
        BY <2>3, <4>1, NatLeast
      <4> QED
        BY <4>1, <4>3 DEF Min
    <3>4. t \in Nat
      <4>1. run[p].processed + 1 \in Nat
        BY <1>1
      <4> QED
        BY <1>1, <4>1, MaxMinOfTwo
    <3> HIDE DEF c, t
    <3>5. r \in Runs /\ r.job = j /\ r.gen = run[p].gen /\ r.conflicted = {}
          /\ r.pc = "locked" /\ r.processed = run[p].processed /\ r.conv = c
      BY <1>1, <3>3, <3>4 DEF Runs, PCs
    <3>6. Fenced(p) => CountsRight(p, r.processed, done[j])
      BY <1>3, <2>1, <3>5, FencedFacts DEF Working
    <3> HIDE DEF r
    <3> QED
      BY <1>2, <1>3, <2>1, <3>2, <3>3, <3>5, <3>6, LocalKeeps
  <2> QED
    BY <2>2, <2>3
<1>14. CASE NumberConversation(p)
  <2>1. count' \in Counts
    BY <1>2, <1>14 DEF NumberConversation
  <2>2. CASE Lost
    BY <1>4, <2>1, <2>2
  <2>3. CASE ~Lost
    <3> DEFINE r == [run[p] EXCEPT !.pc = "loop", !.processed = run[p].processed + 1,
                                   !.conv = 0]
    <3>1. run[p].conv \in Conversations /\ run[p].pc = "locked" /\ IsSequence(p)
      BY <1>14 DEF NumberConversation, Sequencing, TruthInv, RunRight, IsSequence
    <3>2. ~Conflicting(messages[run[p].conv])
      BY <3>1, PositionalHasNoConflict DEF TruthInv, OrdinalInv
    <3>3. /\ Fenced(p)
          /\ jobs' = [jobs EXCEPT ![j] =
                        Progressed(jobs[j], run[p].processed + 1, run[p].total)]
          /\ done' = [done EXCEPT ![j] = done[j] + 1]
          /\ UNCHANGED <<open, insert, sourced>>
          /\ run' = [run EXCEPT ![p].pc = "loop", ![p].processed = @ + 1, ![p].conv = 0,
                                ![p].conflicted = @]
      BY <1>14, <2>3, <3>2 DEF NumberConversation, Write
    <3>4. run' = [run EXCEPT ![p] = r]
      BY <1>1, <3>3 DEF Runs
    <3>5. r \in Runs /\ r.job = j /\ r.gen = run[p].gen /\ r.conflicted = {}
          /\ r.pc = "loop" /\ r.processed = run[p].processed + 1
      <4>1. PICK x \in Nat : x = run[p].processed + 1
        BY <1>1
      <4> QED
        BY <1>1, <4>1 DEF Runs, PCs
    <3> HIDE DEF r
    <3>6. PICK new \in Rows :
            /\ new = Progressed(jobs[j], run[p].processed + 1, run[p].total)
            /\ new.gen = jobs[j].gen /\ new.current = run[p].processed + 1
            /\ new.status = jobs[j].status
      <4>1. PICK row \in Rows, n \in Nat, t \in Nat :
              row = jobs[j] /\ n = run[p].processed + 1 /\ t = run[p].total
        BY <1>1
      <4>2. \E new \in Rows : /\ new = Progressed(row, n, t) /\ new.gen = row.gen
                              /\ new.current = n /\ new.status = row.status
        BY ProgressedRow
      <4> QED
        BY <4>1, <4>2
    <3>7. PICK d \in Nat : d = done[j] + 1
      BY <1>1
    <3>8. jobs[j].status = "running" /\ run[p].processed = done[j]
      BY <1>3, <3>1, <3>3, FencedFacts DEF Working, CountsRight
    <3>9. CountsRight(p, r.processed, d) /\ new.current = d
      BY <3>1, <3>5, <3>6, <3>7, <3>8 DEF CountsRight
    <3>10. sourced' \subseteq Conversations \X Nat
      BY <3>3 DEF TruthInv, TypeOK
    <3>11. /\ jobs' = [jobs EXCEPT ![j] = new] /\ done' = [done EXCEPT ![j] = d]
           /\ UNCHANGED <<open, insert>> /\ Fenced(p)
           /\ new.gen = jobs[j].gen /\ new.status # "completed"
      BY <3>3, <3>6, <3>7, <3>8
    <3>12. new.current <= d
      BY <3>9
    <3> HIDE DEF j
    <3> QED
      BY <1>3, <2>1, <3>4, <3>5, <3>9, <3>10, <3>11, <3>12, WriteKeeps
         DEF Counts, j
  <2> QED
    BY <2>2, <2>3
<1>15. CASE SourceBatch(p)
  <2>1. run[p].pc = "loop" /\ ~IsSequence(p) /\ count' = count
    BY <1>15 DEF SourceBatch, Sourcing, IsSequence
  <2>2. CASE run[p].processed >= Min({run[p].total, RunCap})
    BY <1>11, <1>15, <2>1, <2>2 DEF SourceBatch, Working
  <2>3. CASE HonourCancel(p)
    BY <1>2, <1>10, <2>1, <2>3
  <2>4. CASE Lost
    BY <1>2, <1>4, <2>1, <2>4
  <2>5. CASE /\ ~(run[p].processed >= Min({run[p].total, RunCap}))
             /\ ~HonourCancel(p) /\ ~Lost
    <3>1. PICK B \in Batches(p) :
            /\ Fenced(p) /\ jobs' = [jobs EXCEPT ![j] = Renewed(jobs[j])]
            /\ sourced' = sourced \cup B
            /\ done' = [done EXCEPT ![j] = done[j] + Cardinality(B)]
            /\ run' = [run EXCEPT
                         ![p].pc = IF B = {} THEN "finish" ELSE "progress",
                         ![p].processed = run[p].processed + Cardinality(B)]
            /\ UNCHANGED <<open, insert>>
      BY <1>15, <2>5 DEF SourceBatch, Write
    <3>2. B \in SUBSET Unsourced
      BY DEF Batches
    <3>3. PICK n \in Nat : n = Cardinality(B)
      BY <3>2, UnsourcedFinite, FS_Subset, FS_CardinalityType DEF TruthInv
    <3>4. sourced' \subseteq Conversations \X Nat
      BY <3>1, <3>2, UnsourcedFinite DEF TruthInv, TypeOK
    <3>5. PICK pc \in {"finish", "progress"} :
            run' = [run EXCEPT ![p].pc = pc, ![p].processed = run[p].processed + n]
      BY <3>1, <3>3
    <3> DEFINE r == [run[p] EXCEPT !.pc = pc, !.processed = run[p].processed + n]
    <3>6. run' = [run EXCEPT ![p] = r]
      BY <3>5
    <3>7. r \in Runs /\ r.job = j /\ r.gen = run[p].gen /\ r.conflicted = {}
          /\ r.pc = pc /\ r.processed = run[p].processed + n
      <4>1. PICK x \in Nat : x = run[p].processed + n
        BY <1>1
      <4> QED
        BY <1>1, <4>1 DEF Runs, PCs
    <3> HIDE DEF r
    <3>8. PICK new \in Rows : /\ new = Renewed(jobs[j]) /\ new.gen = jobs[j].gen
                              /\ new.current = jobs[j].current
                              /\ new.status = jobs[j].status
      BY <1>1, WorkerRows
    <3>9. PICK d \in Nat : d = done[j] + n
      BY <1>1
    <3>10. done' = [done EXCEPT ![j] = d]
      BY <3>1, <3>3, <3>9
    <3>11. /\ jobs[j].status = "running" /\ jobs[j].current <= done[j]
           /\ run[p].processed <= done[j]
      BY <1>3, <2>1, <3>1, FencedFacts DEF Working, CountsRight
    <3>12. CountsRight(p, r.processed, d) /\ new.current <= d
      BY <1>1, <2>1, <3>7, <3>8, <3>9, <3>11 DEF CountsRight
    <3>13. jobs' = [jobs EXCEPT ![j] = new] /\ count' \in Counts
      BY <1>2, <2>1, <3>1, <3>8
    <3> HIDE DEF j
    <3> QED
      BY <1>3, <2>1, <3>1, <3>4, <3>6, <3>7, <3>8, <3>10, <3>12, <3>13, WriteKeeps
         DEF Counts, j
  <2> QED
    BY <2>2, <2>3, <2>4, <2>5
<1>16. CASE SourceProgress(p)
  <2>1. run[p].pc = "progress" /\ ~IsSequence(p) /\ count' = count
    BY <1>16 DEF SourceProgress, Sourcing, IsSequence
  <2>2. CASE Lost
    BY <1>2, <1>4, <2>1, <2>2
  <2>3. CASE ~Lost
    <3>1. PICK m \in Nat, t \in Nat : /\ m = Min({run[p].processed, run[p].total})
                                      /\ t = Max({run[p].total, run[p].processed})
                                      /\ m <= run[p].processed
      BY <1>1, MaxMinOfTwo
    <3>2. /\ Fenced(p) /\ jobs' = [jobs EXCEPT ![j] = Progressed(jobs[j], m, t)]
          /\ UNCHANGED <<open, insert, sourced, done>> /\ Goto(p, "loop")
      BY <1>16, <2>3, <3>1 DEF SourceProgress, Write, NoWork
    <3> DEFINE r == [run[p] EXCEPT !.pc = "loop"]
    <3>3. run' = [run EXCEPT ![p] = r]
      BY <3>2 DEF Goto
    <3>4. r \in Runs /\ r.job = j /\ r.gen = run[p].gen /\ r.conflicted = {}
          /\ r.pc = "loop" /\ r.processed = run[p].processed
      BY <1>1 DEF Runs, PCs
    <3> HIDE DEF r
    <3>5. PICK new \in Rows : /\ new = Progressed(jobs[j], m, t)
                              /\ new.gen = jobs[j].gen /\ new.current = m
                              /\ new.status = jobs[j].status
      BY <1>1, WorkerRows
    <3>6. PICK d \in Nat : d = done[j]
      BY <1>1
    <3>7. done' = [done EXCEPT ![j] = d]
      BY <3>2, <3>6 DEF TruthInv, TypeOK
    <3>8. jobs[j].status = "running" /\ CountsRight(p, run[p].processed, d)
      BY <1>3, <2>1, <3>2, <3>6, FencedFacts DEF Working
    <3>9. new.current <= d
      BY <1>1, <2>1, <3>1, <3>5, <3>6, <3>8 DEF CountsRight
    <3>10. sourced' \subseteq Conversations \X Nat /\ count' \in Counts
      BY <1>2, <2>1, <3>2 DEF TruthInv, TypeOK
    <3>11. jobs' = [jobs EXCEPT ![j] = new]
      BY <3>2, <3>5
    <3> HIDE DEF j
    <3> QED
      BY <1>3, <2>1, <3>2, <3>3, <3>4, <3>5, <3>7, <3>8, <3>9, <3>10, <3>11, WriteKeeps
         DEF Counts, j
  <2> QED
    BY <2>2, <2>3
<1>17. CASE Raise(p) \/ Crash(p)
  BY <1>2, <1>4, <1>5, <1>17 DEF Raise, Crash
<1> QED
  BY <1>6, <1>7, <1>8, <1>9, <1>12, <1>13, <1>14, <1>15, <1>16, <1>17 DEF Work

-----------------------------------------------------------------------------
(* Claims, the owner, requests                                             *)

LEMMA OwnerRows ==
  ASSUME NEW row \in Rows
  PROVE  /\ \A g \in Nat : \A w \in {WorkerId[p] : p \in Procs} :
              [row EXCEPT !.status = "running", !.lockedBy = w,
                          !.gen = g, !.lease = "live"] \in Rows
         /\ CancelRequested(row) \in Rows
         /\ Retried(row, row) \in Rows
         /\ [row EXCEPT !.lease = "expired"] \in Rows
<1>1. \A g \in Nat : \A w \in {WorkerId[p] : p \in Procs} :
        [row EXCEPT !.status = "running", !.lockedBy = w,
                    !.gen = g, !.lease = "live"] \in Rows
  BY DEF Rows, JobRows, Statuses, Leases
<1>2. CancelRequested(row) \in Rows
  BY DEF CancelRequested, Rows, JobRows
<1>3. Retried(row, row) \in Rows
  <2>1. PICK n \in Nat : n = row.retries + 1
    BY RowTyped
  <2>2. PICK e \in ErrorCategories :
          e = IF row.error = "none" THEN row.error ELSE "none"
    BY DEF ErrorCategories
  <2>3. PICK c \in Nat : c = IF row.current = 0 THEN row.current ELSE 0
    OBVIOUS
  <2>4. PICK t \in Nat \cup {NULL} : t = IF row.total = NULL THEN row.total ELSE NULL
    OBVIOUS
  <2>5. PICK a \in BOOLEAN, b \in BOOLEAN :
          /\ a = (row.cancelRequested /\ ~row.cancelRequested)
          /\ b = (row.cancelAcknowledged /\ ~row.cancelAcknowledged)
    OBVIOUS
  <2>6. Retried(row, row) =
          [row EXCEPT !.status = "queued", !.retries = n, !.error = e,
                      !.cancelRequested = a, !.cancelAcknowledged = b,
                      !.current = c, !.total = t]
    BY <2>1, <2>2, <2>3, <2>4, <2>5 DEF Retried
  <2>7. [row EXCEPT !.status = "queued", !.retries = n, !.error = e,
                    !.cancelRequested = a, !.cancelAcknowledged = b,
                    !.current = c, !.total = t] \in Rows
    BY DEF Rows, JobRows, Statuses
  <2> QED
    BY <2>6, <2>7
<1>4. [row EXCEPT !.lease = "expired"] \in Rows
  BY DEF Rows, JobRows, Leases
<1> QED
  BY <1>1, <1>2, <1>3, <1>4

LEMMA ClaimKeeps ==
  ASSUME TruthInv, OrdinalInv', NumberedStays, NEW p \in Procs, NEW j \in Jobs,
         Claim(p, j)
  PROVE  TruthInv'
<1>1. jobs[j] \in Rows /\ jobs[j].gen \in Nat
  BY RowTyped DEF TruthInv, TypeOK, Rows
<1>2. PICK g \in Nat : g = jobs[j].gen + 1
  BY <1>1
<1>3. PICK new \in Rows :
        /\ new = Claimed(jobs[j], WorkerId[p]) /\ new.gen = g
        /\ new.status = "running" /\ new.current = jobs[j].current
  <2>1. Claimed(jobs[j], WorkerId[p]) =
          [jobs[j] EXCEPT !.status = "running", !.lockedBy = WorkerId[p],
                          !.gen = g, !.lease = "live"]
    BY <1>1, <1>2 DEF Claimed, Rows, JobRows
  <2>2. Claimed(jobs[j], WorkerId[p]) \in Rows
    <3>1. PICK w \in {WorkerId[q] : q \in Procs}, row \in Rows :
            w = WorkerId[p] /\ row = jobs[j]
      BY <1>1
    <3>2. [row EXCEPT !.status = "running", !.lockedBy = w,
                      !.gen = g, !.lease = "live"] \in Rows
      BY OwnerRows
    <3> QED
      BY <2>1, <3>1, <3>2
  <2>3. /\ Claimed(jobs[j], WorkerId[p]).gen = g
        /\ Claimed(jobs[j], WorkerId[p]).status = "running"
        /\ Claimed(jobs[j], WorkerId[p]).current = jobs[j].current
    BY <1>1, <2>1 DEF Rows, JobRows
  <2> QED
    BY <2>2, <2>3
<1>4. PICK r \in Runs :
        /\ run' = [run EXCEPT ![p] = r] /\ r.job = j /\ r.gen = g
        /\ r.pc = "dispatch" /\ r.conflicted = {} /\ r.processed = 0
  <2> DEFINE r == [IdleRun EXCEPT !.pc = "dispatch", !.job = j, !.gen = g]
  <2>1. run' = [run EXCEPT ![p] = r]
    BY <1>2 DEF Claim
  <2>2. /\ r \in Runs /\ r.job = j /\ r.gen = g
        /\ r.pc = "dispatch" /\ r.conflicted = {} /\ r.processed = 0
    BY IdleRunTyped DEF Runs, PCs
  <2> QED
    BY <2>1, <2>2
<1>5. /\ run' \in [Procs -> Runs] /\ run'[p] = r
      /\ \A q \in Procs \ {p} : run'[q] = run[q]
  BY <1>4 DEF TruthInv, TypeOK
<1>6. /\ jobs' \in [Jobs -> Rows] /\ jobs'[j] = new
      /\ \A k \in Jobs \ {j} : jobs'[k] = jobs[k]
      /\ UNCHANGED <<sourced, open, insert, done, count>>
  BY <1>3 DEF Claim, TruthInv, TypeOK, Rows
<1>7. TypeOK'
  BY <1>5, <1>6 DEF TruthInv, TypeOK, OrdinalInv, Rows
<1>8. \A q \in Procs : run[q].job \in Jobs /\ run[q].gen \in Nat
  BY RunTyped DEF TruthInv
<1>9. \A q \in Procs : Active(q) /\ run[q].job = j => run[q].gen < g
  BY <1>1, <1>2, <1>8 DEF TruthInv, OneGeneration
<1>10. OneGeneration'
  <2>1. ASSUME NEW q \in Procs, run'[q].pc # "idle"
        PROVE  run'[q].gen <= jobs'[run'[q].job].gen
    <3>1. CASE q = p
      BY <1>3, <1>4, <1>5, <1>6, <3>1
    <3>2. CASE q # p
      <4>1. Active(q) /\ run[q].gen <= jobs[run[q].job].gen /\ run'[q] = run[q]
        BY <1>5, <2>1, <3>2 DEF TruthInv, OneGeneration, Active
      <4> QED
        BY <1>3, <1>6, <1>8, <1>9, <4>1
    <3> QED
      BY <3>1, <3>2
  <2>2. ASSUME NEW q \in Procs, NEW o \in Procs, run'[q].pc # "idle",
               run'[o].pc # "idle", q # o, run'[q].job = run'[o].job
        PROVE  run'[q].gen # run'[o].gen
    <3>1. CASE q = p
      <4>1. Active(o) /\ run[o].job = j /\ run'[o] = run[o]
        BY <1>4, <1>5, <2>2, <3>1 DEF Active
      <4> QED
        BY <1>4, <1>5, <1>8, <1>9, <3>1, <4>1
    <3>2. CASE o = p
      <4>1. Active(q) /\ run[q].job = j /\ run'[q] = run[q]
        BY <1>4, <1>5, <2>2, <3>2 DEF Active
      <4> QED
        BY <1>4, <1>5, <1>8, <1>9, <3>2, <4>1
    <3>3. CASE q # p /\ o # p
      BY <1>5, <2>2, <3>3 DEF TruthInv, OneGeneration, Active
    <3> QED
      BY <3>1, <3>2, <3>3
  <2> QED
    BY <2>1, <2>2 DEF OneGeneration, Active
<1>11. ASSUME NEW q \in Procs
       PROVE  RunRight(q)'
  <2>1. CASE q = p
    BY <1>4, <1>5, <2>1 DEF RunRight, Working
  <2>2. CASE q # p /\ run[q].job = j /\ Active(q)
    <3>1. run'[q] = run[q] /\ RunRight(q)
      BY <1>5, <2>2 DEF TruthInv
    <3>2. ~Fenced(q)'
      BY <1>3, <1>6, <1>8, <1>9, <2>2, <3>1 DEF Fenced, Holds
    <3> QED
      BY <3>1, <3>2 DEF RunRight
  <2>3. CASE q # p /\ ~(run[q].job = j /\ Active(q))
    <3>1. run'[q] = run[q] /\ RunRight(q) /\ (Active(q)' <=> Active(q))
      BY <1>5, <2>3 DEF TruthInv, Active
    <3>2. Active(q) => (Fenced(q)' <=> Fenced(q))
      BY <1>6, <1>8, <2>3, <3>1 DEF Fenced
    <3>3. done' = done /\ (IsSequence(q)' <=> IsSequence(q))
      BY <1>6, <3>1 DEF IsSequence
    <3> QED
      BY <3>1, <3>2, <3>3 DEF RunRight, CountsRight, NumberedStays
  <2> QED
    BY <2>1, <2>2, <2>3
<1>12. ProgressIsWork'
  BY <1>3, <1>6 DEF TruthInv, ProgressIsWork
<1>13. CompletedMeansNumbered'
  BY <1>3, <1>6 DEF TruthInv, CompletedMeansNumbered, NumberedStays
<1> QED
  BY <1>7, <1>10, <1>11, <1>12, <1>13 DEF TruthInv

\* The owner and the clock touch one row, and fence nobody in.
LEMMA OwnerKeeps ==
  ASSUME TruthInv, OrdinalInv', NumberedStays, NEW j \in Jobs,
         NEW new \in Rows, jobs' = [jobs EXCEPT ![j] = new],
         NEW d \in Nat, done' = [done EXCEPT ![j] = d],
         UNCHANGED <<sourced, open, insert, run>>, count' \in Counts,
         new.gen = jobs[j].gen,
         \/ new.status = "queued" /\ new.current = 0 /\ d = 0
         \/ /\ new.status = jobs[j].status /\ new.lockedBy = jobs[j].lockedBy
            /\ new.current = jobs[j].current /\ d = done[j]
  PROVE  TruthInv'
<1>1. /\ jobs' \in [Jobs -> Rows] /\ jobs'[j] = new
      /\ done' \in [Jobs -> Nat] /\ done'[j] = d
      /\ \A k \in Jobs \ {j} : jobs'[k] = jobs[k] /\ done'[k] = done[k]
  BY DEF TruthInv, TypeOK, Rows
<1>2. TypeOK'
  BY <1>1 DEF TruthInv, TypeOK, OrdinalInv, Rows, Counts
<1>3. \A q \in Procs : run[q].job \in Jobs
  BY RunTyped DEF TruthInv
<1>4. \A k \in Jobs : jobs'[k].gen = jobs[k].gen
  BY <1>1
<1>5. OneGeneration'
  <2>1. run' = run
    OBVIOUS
  <2> QED
    BY <1>3, <1>4, <2>1 DEF TruthInv, OneGeneration, Active
<1>6. ASSUME NEW q \in Procs
      PROVE  RunRight(q)'
  <2>1. run'[q] = run[q] /\ RunRight(q)
    BY DEF TruthInv
  <2>2. CASE jobs'[run[q].job].status = "queued"
    <3>1. ~Fenced(q)'
      BY <2>1, <2>2 DEF Fenced, Holds
    <3> QED
      BY <2>1, <3>1 DEF RunRight
  <2>3. CASE jobs'[run[q].job].status # "queued"
    <3>1. done'[run[q].job] = done[run[q].job]
      BY <1>1, <1>3, <2>3
    <3>2. Fenced(q)' => Fenced(q)
      <4>1. /\ jobs'[run[q].job].status = jobs[run[q].job].status
            /\ jobs'[run[q].job].lockedBy = jobs[run[q].job].lockedBy
            /\ jobs'[run[q].job].gen = jobs[run[q].job].gen
        BY <1>1, <1>3, <2>3
      <4> QED
        BY <2>1, <4>1 DEF Fenced, Holds
    <3>3. (Active(q)' <=> Active(q)) /\ (IsSequence(q)' <=> IsSequence(q))
      BY <2>1 DEF Active, IsSequence
    <3> QED
      BY <2>1, <3>1, <3>2, <3>3 DEF RunRight, CountsRight, NumberedStays
  <2> QED
    BY <2>2, <2>3
<1>7. ProgressIsWork'
  BY <1>1 DEF TruthInv, ProgressIsWork
<1>8. CompletedMeansNumbered'
  BY <1>1 DEF TruthInv, CompletedMeansNumbered, NumberedStays
<1> QED
  BY <1>2, <1>5, <1>6, <1>7, <1>8 DEF TruthInv

LEMMA OwnerSteps ==
  ASSUME TruthInv, OrdinalInv', NumberedStays, NEW j \in Jobs,
         RequestCancel(j) \/ RetryJob(j) \/ LapseLease(j)
  PROVE  TruthInv'
<1>1. /\ jobs[j] \in Rows /\ done[j] \in Nat /\ done' = [done EXCEPT ![j] = done'[j]]
      /\ count \in Counts
  BY DEF TruthInv, TypeOK, Rows, Counts, RequestCancel, RetryJob, LapseLease
<1>2. CASE RequestCancel(j)
  <2>1. PICK new \in Rows :
          /\ new = CancelRequested(jobs[j]) /\ new.gen = jobs[j].gen
          /\ new.status = jobs[j].status /\ new.lockedBy = jobs[j].lockedBy
          /\ new.current = jobs[j].current
    <3>1. CancelRequested(jobs[j]) \in Rows
      BY <1>1, OwnerRows
    <3> DEFINE new == CancelRequested(jobs[j])
    <3>2. /\ new.gen = jobs[j].gen
          /\ new.status = jobs[j].status /\ new.lockedBy = jobs[j].lockedBy
          /\ new.current = jobs[j].current
      BY <1>1 DEF CancelRequested, Rows, JobRows
    <3> QED
      BY <3>1, <3>2
  <2>2. /\ jobs' = [jobs EXCEPT ![j] = new] /\ UNCHANGED <<done, count>>
        /\ UNCHANGED <<sourced, open, insert, run>>
    BY <1>2, <2>1 DEF RequestCancel
  <2> QED
    BY <1>1, <2>1, <2>2, OwnerKeeps
<1>3. CASE RetryJob(j)
  <2>1. PICK new \in Rows :
          /\ new = Retried(jobs[j], jobs[j]) /\ new.gen = jobs[j].gen
          /\ new.status = "queued" /\ new.current = 0
    <3>1. Retried(jobs[j], jobs[j]).gen = jobs[j].gen
      BY <1>1 DEF Retried, Rows, JobRows
    <3>2. /\ Retried(jobs[j], jobs[j]).status = "queued"
          /\ Retried(jobs[j], jobs[j]).current = 0
      BY <1>1 DEF Retried, Rows, JobRows
    <3>3. Retried(jobs[j], jobs[j]) \in Rows
      BY <1>1, OwnerRows
    <3> QED
      BY <3>1, <3>2, <3>3
  <2>2. /\ jobs' = [jobs EXCEPT ![j] = new] /\ done' = [done EXCEPT ![j] = 0]
        /\ UNCHANGED <<sourced, open, insert, run, count>>
    BY <1>3, <2>1 DEF RetryJob
  <2>3. PICK d \in Nat : d = 0
    OBVIOUS
  <2> QED
    BY <1>1, <2>1, <2>2, <2>3, OwnerKeeps
<1>4. CASE LapseLease(j)
  <2>1. PICK new \in Rows :
          /\ new = [jobs[j] EXCEPT !.lease = "expired"] /\ new.gen = jobs[j].gen
          /\ new.status = jobs[j].status /\ new.lockedBy = jobs[j].lockedBy
          /\ new.current = jobs[j].current
    <3>1. [jobs[j] EXCEPT !.lease = "expired"] \in Rows
      BY <1>1, OwnerRows
    <3> DEFINE new == [jobs[j] EXCEPT !.lease = "expired"]
    <3>2. /\ new.gen = jobs[j].gen
          /\ new.status = jobs[j].status /\ new.lockedBy = jobs[j].lockedBy
          /\ new.current = jobs[j].current
      BY <1>1 DEF Rows, JobRows
    <3> QED
      BY <3>1, <3>2
  <2>2. /\ jobs' = [jobs EXCEPT ![j] = new] /\ UNCHANGED done
        /\ UNCHANGED <<sourced, open, insert, run>>
    BY <1>4, <2>1 DEF LapseLease
  <2>3. count' \in Counts
    BY <1>1, <1>4 DEF LapseLease, Counts
  <2> QED
    BY <1>1, <2>1, <2>2, <2>3, OwnerKeeps
<1> QED
  BY <1>2, <1>3, <1>4

\* Requests touch messages, whose numbers and locks OrdinalInv is about.
LEMMA RequestKeeps ==
  ASSUME TruthInv, OrdinalInv', NumberedStays, UNCHANGED <<jobs, sourced, run, done>>,
         open' \subseteq Conversations, count' \in Counts
  PROVE  TruthInv'
<1>1. insert' \in [Writers -> [conv : Conversations \cup {0}, number : Nat]]
  <2> SUFFICES ASSUME NEW w \in Writers
               PROVE  /\ insert'[w] \in [conv : Nat, number : Nat]
                      /\ insert'[w].conv \in Conversations \cup {0}
    BY DEF OrdinalInv
  <2>1. insert'[w] # IdleInsert => insert'[w].conv \in Conversations
    BY DEF OrdinalInv, InsertsOwnTheirPlace
  <2> QED
    BY <2>1 DEF OrdinalInv, IdleInsert
<1>2. TypeOK'
  BY <1>1 DEF TruthInv, TypeOK, OrdinalInv, Counts
<1>3. OneGeneration'
  BY DEF TruthInv, OneGeneration, Active
<1>4. ASSUME NEW q \in Procs
      PROVE  RunRight(q)'
  <2>1. /\ RunRight(q) /\ (Fenced(q)' <=> Fenced(q)) /\ (Active(q)' <=> Active(q))
        /\ (IsSequence(q)' <=> IsSequence(q))
    BY DEF TruthInv, Fenced, Active, IsSequence
  <2> QED
    BY <2>1 DEF RunRight, CountsRight, NumberedStays
<1>5. ProgressIsWork' /\ CompletedMeansNumbered'
  BY DEF TruthInv, ProgressIsWork, CompletedMeansNumbered, NumberedStays
<1> QED
  BY <1>2, <1>3, <1>4, <1>5 DEF TruthInv

-----------------------------------------------------------------------------
LEMMA TruthInit == Init => TruthInv
<1> SUFFICES ASSUME Init PROVE TruthInv
  OBVIOUS
<1>1. NewJobRow \in Rows /\ NewJobRow.current = 0 /\ NewJobRow.status = "queued"
  BY DEF NewJobRow, Rows, JobRows, Statuses, Leases, ErrorCategories
<1>2. OrdinalInv
  BY OrdinalInit
<1>3. \A p \in Procs : ~Active(p) /\ run[p] = IdleRun
  BY IdleRunTyped DEF Init, Active
<1>4. jobs \in [Jobs -> Rows] /\ run \in [Procs -> Runs]
  BY <1>1, IdleRunTyped DEF Init
<1>5. TypeOK
  BY <1>2, <1>4, BackfillConstants DEF Init, TypeOK, OrdinalInv, Rows, IdleInsert
<1>6. OneGeneration
  BY <1>3 DEF OneGeneration
<1>7. \A p \in Procs : RunRight(p)
  BY <1>3, IdleRunTyped DEF RunRight
<1>8. ProgressIsWork /\ CompletedMeansNumbered
  BY <1>1 DEF Init, ProgressIsWork, CompletedMeansNumbered
<1> QED
  BY <1>2, <1>5, <1>6, <1>7, <1>8 DEF TruthInv

LEMMA TruthStep == TruthInv /\ [Next]_vars => TruthInv'
<1> SUFFICES ASSUME TruthInv, [Next]_vars PROVE TruthInv'
  OBVIOUS
<1>1. OrdinalInv'
  BY OrdinalStep DEF TruthInv
<1>2. NumberedStays
  BY NumberedStep
<1>3. count \in Counts /\ open \subseteq Conversations
  BY DEF TruthInv, TypeOK, Counts
<1>4. CASE \E p \in Procs : Work(p) \/ Raise(p) \/ Crash(p)
  BY <1>1, <1>2, <1>4, WorkSteps
<1>5. CASE \E p \in Procs : \E j \in Jobs : Claim(p, j)
  BY <1>1, <1>2, <1>5, ClaimKeeps
<1>6. CASE \E j \in Jobs : RequestCancel(j) \/ RetryJob(j) \/ LapseLease(j)
  BY <1>1, <1>2, <1>6, OwnerSteps
<1>7. CASE \E w \in Writers :
             EndInsert(w) \/ \E c \in Conversations : InsertMessage(w, c)
  <2>1. count' \in Counts /\ UNCHANGED <<jobs, sourced, open, run, done>>
    BY <1>3, <1>7 DEF EndInsert, InsertMessage, Counts
  <2> QED
    BY <1>1, <1>2, <1>3, <2>1, RequestKeeps
<1>8. CASE \E c \in Conversations : DeleteConversation(c)
  <2>1. /\ count' \in Counts /\ UNCHANGED <<jobs, sourced, run, done>>
        /\ open' \subseteq Conversations
    BY <1>3, <1>8 DEF DeleteConversation
  <2> QED
    BY <1>1, <1>2, <2>1, RequestKeeps
<1>9. CASE UNCHANGED vars
  <2>1. /\ count' \in Counts /\ UNCHANGED <<jobs, sourced, run, done>>
        /\ open' \subseteq Conversations
    BY <1>3, <1>9 DEF vars
  <2> QED
    BY <1>1, <1>2, <2>1, RequestKeeps
<1> QED
  BY <1>4, <1>5, <1>6, <1>7, <1>8, <1>9 DEF Next

\* Whatever processes crash, lose their lease or are overtaken, the progress
\* a backfill shows is the work committed since the job was queued (for the
\* numbering exactly, for the sources at most), and a numbering that completed
\* below its cap left nothing to number, ever.
THEOREM BackfillsTellTheTruth == Spec => []BackfillInv
<1>1. Init => TruthInv
  BY TruthInit
<1>2. TruthInv /\ [Next]_vars => TruthInv'
  BY TruthStep
<1>3. TruthInv => BackfillInv
  BY PositionalHasNoConflict DEF TruthInv, OrdinalInv, BackfillInv, NoConflict
<1> QED
  BY <1>1, <1>2, <1>3, PTL DEF Spec

-----------------------------------------------------------------------------
(* The invariant of the source units and their backfill                    *)

\* A call that has the run's advisory lock is at work.
AtWork(k) == adv[k].at \in {"pick", "claim", "end"}
\* A claim without a source.
Sourceless(i) == claims[i].here /\ claims[i].unit = NoUnit

RunRows ==
  [mode : {"real", "dry_run"},
   status : {"pending", "running", "completed", "cancelled"},
   processed : Nat, count : [Buckets -> Nat], cursor : 0..Len(OldClaims),
   failures : SUBSET Positions, seen : [Positions -> Nat]]
ClaimRows ==
  [here : BOOLEAN, chunk : {"ok", "bad", "null"}, unit : Keys \cup {NoUnit},
   held : ProvCallers \cup {Nobody, Types}, by : Nat, typed : BOOLEAN,
   age : Nat]
Calls ==
  [at : {"idle", "creating", "pick", "claim", "end"}, run : Nat,
   copy : RunRows \cup {<<>>}, after : 0..Len(OldClaims),
   excluded : SUBSET Positions, frozen : BOOLEAN, considered : Nat,
   left : Nat, claim : Positions \cup {0}]

ProvTyped ==
  /\ docs \in [ProvDocs -> {"live", "deleted", "erased"}]
  /\ units \in [Keys -> [life : Lives, text : BOOLEAN]]
  /\ claims \in [Positions -> ClaimRows]
  /\ runs \in Seq(RunRows)
  /\ adv \in [ProvCallers -> Calls]
  /\ extr \in [at : {"idle", "asked", "inserted"}, doc : ProvDocs \cup {Nobody}]
  /\ extr.at # "idle" => extr.doc \in ProvDocs
  /\ purge \in [at : {"idle", "locked"}, doc : ProvDocs \cup {Nobody}]
  /\ purge.at # "idle" => purge.doc \in ProvDocs

\* The advisory lock: a run at work has one call, whose copy is the row.
CopiesRight ==
  /\ \A k \in ProvCallers :
       IF AtWork(k)
       THEN /\ adv[k].run \in DOMAIN runs
            /\ runs[adv[k].run] = adv[k].copy
            /\ adv[k].copy.status = "running"
       ELSE adv[k].run = NoRun
  /\ \A k, l \in ProvCallers :
       AtWork(k) /\ AtWork(l) /\ adv[k].run = adv[l].run => k = l

\* The row lock: the claim a call has in hand is still without a source.
ClaimsRight ==
  /\ \A k \in ProvCallers : adv[k].at = "claim" =>
       /\ adv[k].claim \in Positions
       /\ ~Dry(k) => /\ Sourceless(adv[k].claim)
                     /\ claims[adv[k].claim].held = k
  /\ \A i \in Positions : claims[i].by # NoRun =>
       claims[i].unit # NoUnit /\ claims[i].by \in DOMAIN runs

\* One run at work, by its row.
OneActive == \A r, s \in DOMAIN runs : RunActive(r) /\ RunActive(s) => r = s

\* What a run has passed over without a source is among its failures: up to
\* the cursor of the row, and up to the claim a call has in hand.
Passed(row, upTo) ==
  \A i \in Positions : i <= upTo /\ Sourceless(i) => i \in row.failures
CursorsRight ==
  /\ \A r \in DOMAIN runs : runs[r].mode = "real" => Passed(runs[r], runs[r].cursor)
  /\ \A k \in ProvCallers : AtWork(k) /\ ~Dry(k) =>
       /\ Passed(adv[k].copy, adv[k].after)
       /\ adv[k].excluded \subseteq adv[k].copy.failures
       /\ adv[k].at = "claim" /\ ~adv[k].frozen =>
            Passed(adv[k].copy, adv[k].claim - 1)

\* A rehearsal goes forward only.
RehearsalsRight ==
  /\ \A r \in DOMAIN runs : runs[r].mode = "dry_run" =>
       \A i \in Positions : /\ runs[r].seen[i] <= 1
                            /\ i > runs[r].cursor => runs[r].seen[i] = 0
  /\ \A k \in ProvCallers : AtWork(k) /\ Dry(k) =>
       /\ ~adv[k].frozen
       /\ \A i \in Wanted(k) : i > adv[k].copy.cursor
       /\ adv[k].at = "claim" => /\ adv[k].claim > adv[k].copy.cursor
                                 /\ \A i \in Wanted(k) : i >= adv[k].claim

\* Text is there only as long as its document: a unit's, and a claim's chunk.
TextsRight ==
  /\ \A key \in Keys : /\ units[key].text => docs[key[2]] = "live"
                       /\ units[key].text => units[key].life \in {"active", "revoked"}
  /\ \A i \in Positions : claims[i].here /\ claims[i].chunk = "ok" =>
                            docs[OldClaims[i].doc] = "live"
  /\ purge.at = "locked" => docs[purge.doc] = "live"
  /\ extr.at = "inserted" => docs[extr.doc] = "live" /\ ~DocLocked(extr.doc)

ProvRight ==
  /\ ProvTyped /\ CopiesRight /\ ClaimsRight /\ OneActive /\ ReportIsExact
  /\ CursorsRight /\ CompletedLeftNone /\ RehearsalsRight /\ TextsRight

-----------------------------------------------------------------------------
(* Facts about rows                                                        *)

LEMMA PositionsAre ==
  /\ Positions = 1..Len(OldClaims) /\ Len(OldClaims) \in Nat
  /\ IsFiniteSet(Positions)
  /\ \A i \in Positions :
       /\ OldClaims[i].doc \in ProvDocs
       /\ OldClaims[i].chunk \in {"ok", "bad", "null"}
  /\ NoUnit \notin Keys
<1>1. OldClaims \in Seq([doc : ProvDocs, chunk : {"ok", "bad", "null"},
                         version : BOOLEAN])
  BY OldClaimsAssumption
<1>2. Positions = 1..Len(OldClaims) /\ Len(OldClaims) \in Nat
  BY <1>1 DEF Positions
<1>3. IsFiniteSet(Positions)
  BY <1>2, FS_Interval
<1>4. NoUnit \notin Keys
  BY DEF NoUnit, Keys
<1>5. ASSUME NEW i \in Positions
      PROVE  OldClaims[i].doc \in ProvDocs /\ OldClaims[i].chunk \in {"ok", "bad", "null"}
  <2> DEFINE T == [doc : ProvDocs, chunk : {"ok", "bad", "null"}, version : BOOLEAN]
  <2>1. OldClaims \in Seq(T) /\ i \in 1..Len(OldClaims)
    BY <1>1, <1>2, <1>5
  <2>2. OldClaims[i] \in T
    <3> HIDE DEF T
    <3> QED
      BY <2>1
  <2> QED
    BY <2>2
<1> QED
  BY <1>2, <1>3, <1>4, <1>5

LEMMA NoCallTyped == NoCall \in Calls /\ NoCall.at = "idle" /\ NoCall.run = NoRun
  BY PositionsAre DEF NoCall, Calls, NoRun

LEMMA ResolveTyped ==
  ASSUME ProvTyped, NEW i \in Positions
  PROVE  /\ Resolve(i) \in Keys \cup {NoUnit}
         /\ Resolve(i) # NoUnit => Resolve(i)[2] = OldClaims[i].doc
         /\ Resolve(i) # NoUnit /\ Resolve(i)[1] = "document_chunk" => claims[i].chunk = "ok"
         /\ Resolve(i) # NoUnit => BucketOf(Resolve(i)) \in
              {"exact_chunk", "degraded_version", "missing_document_only"}
<1>1. OldClaims[i].doc \in ProvDocs
  BY PositionsAre
<1>2. Resolve(i) \in {NoUnit, <<"document_chunk", OldClaims[i].doc>>,
        <<"document_version", OldClaims[i].doc>>, <<"document_record", OldClaims[i].doc>>}
  BY DEF Resolve
<1>3. Resolve(i) = <<"document_chunk", OldClaims[i].doc>> => claims[i].chunk = "ok"
  BY DEF Resolve, NoUnit
<1> QED
  BY <1>1, <1>2, <1>3 DEF Keys, BucketOf, NoUnit

\* What others do to the claims keeps what calls and runs rely on: a claim in
\* the hands of a call keeps its lock, and none loses its source.
ClaimsShrink ==
  \A i \in Positions :
    /\ claims'[i].unit = claims[i].unit /\ claims'[i].by = claims[i].by
    /\ claims'[i].here => claims[i].here
    /\ claims[i].held \in ProvCallers =>
         claims'[i].held = claims[i].held /\ claims'[i].here = claims[i].here

LEMMA OthersKeepCalls ==
  ASSUME ProvRight, ProvTyped', UNCHANGED <<runs, adv>>, ClaimsShrink
  PROVE  /\ CopiesRight' /\ ClaimsRight' /\ OneActive' /\ ReportIsExact'
         /\ CursorsRight' /\ CompletedLeftNone' /\ RehearsalsRight'
<1> USE DEF ClaimsShrink
<1>1. CopiesRight'
  BY DEF ProvRight, CopiesRight, AtWork
<1>2. ClaimsRight'
  BY DEF ProvRight, ClaimsRight, Sourceless, Dry
<1>3. OneActive'
  BY DEF ProvRight, OneActive, RunActive
<1>4. ReportIsExact'
  <2>1. \A r \in DOMAIN runs : {i \in Positions : claims[i].by = r} = {i \in Positions : claims'[i].by = r}
    OBVIOUS
  <2> QED
    BY <2>1 DEF ProvRight, ReportIsExact
<1>5. \A i \in Positions : Sourceless(i)' => Sourceless(i)
  BY DEF Sourceless
<1>6. CursorsRight'
  BY <1>5 DEF ProvRight, CursorsRight, Passed, AtWork, Dry
<1>7. CompletedLeftNone'
  BY <1>5 DEF ProvRight, CompletedLeftNone
<1>8. RehearsalsRight'
  <2>1. \A k \in ProvCallers : Wanted(k)' \subseteq Wanted(k)
    BY DEF Wanted, Candidate
  <2> QED
    BY <2>1 DEF ProvRight, RehearsalsRight, AtWork, Dry
<1> QED
  BY <1>1, <1>2, <1>3, <1>4, <1>6, <1>7, <1>8

-----------------------------------------------------------------------------
(* Claim types, extraction, purge, transitions, erasure                    *)

LEMMA TypesKeep ==
  ASSUME ProvRight, NEW i \in Positions, TypeFlushed(i) \/ TypeCommitted(i)
  PROVE  ProvRight'
<1> USE PositionsAre, ProvCallersAssumption DEF ProvRight
<1>0. UNCHANGED <<docs, units, runs, adv, extr, purge>>
  BY DEF TypeFlushed, TypeCommitted, ProvUpset
<1>a. claims[i] \in ClaimRows /\ claims \in [Positions -> ClaimRows]
  BY DEF ProvTyped
<1>b. PICK new \in ClaimRows :
        /\ claims' = [claims EXCEPT ![i] = new]
        /\ new.unit = claims[i].unit /\ new.by = claims[i].by /\ new.here = claims[i].here
        /\ new.chunk = claims[i].chunk
  <2>1. CASE TypeFlushed(i)
    <3>1. [claims[i] EXCEPT !.held = Types] \in ClaimRows
      BY <1>a DEF ClaimRows
    <3> QED
      BY <1>a, <2>1, <3>1 DEF TypeFlushed, ClaimRows
  <2>2. CASE TypeCommitted(i)
    <3>1. [claims[i] EXCEPT !.held = Nobody, !.typed = TRUE, !.age = 0] \in ClaimRows
      BY <1>a DEF ClaimRows
    <3> QED
      BY <1>a, <2>2, <3>1 DEF TypeCommitted, ClaimRows
  <2> QED
    BY <2>1, <2>2
<1>c. claims[i].held \notin ProvCallers
  BY DEF TypeFlushed, TypeCommitted
<1>1. /\ UNCHANGED <<docs, units, runs, adv, extr, purge>>
      /\ ProvTyped' /\ ClaimsShrink
      /\ \A j \in Positions : claims'[j].here = claims[j].here /\ claims'[j].chunk = claims[j].chunk
  BY <1>0, <1>a, <1>b, <1>c DEF ProvTyped, ClaimsShrink
<1>2. TextsRight'
  BY <1>1 DEF TextsRight, DocLocked
<1> QED
  BY <1>1, <1>2, OthersKeepCalls

LEMMA ExtractionKeeps ==
  ASSUME ProvRight, (\E d \in ProvDocs : ReadChunk(d)) \/ InsertClaims \/ CommitClaims \/ NoClaims
  PROVE  ProvRight'
<1> USE DEF ProvRight
<1>1. UNCHANGED <<docs, claims, runs, adv, purge>>
  BY DEF ReadChunk, InsertClaims, CommitClaims, NoClaims
<1>2. ClaimsShrink
  BY <1>1 DEF ClaimsShrink
<1>3. extr.at # "idle" => <<"document_chunk", extr.doc>> \in Keys
  BY DEF ProvTyped, Keys
<1>4. ProvTyped'
  <2>1. CASE CommitClaims
    BY <1>1, <1>3, <2>1 DEF CommitClaims, ProvTyped, Created, Lives
  <2>2. CASE ~CommitClaims
    BY <1>1, <1>3, <2>2 DEF ReadChunk, InsertClaims, NoClaims, ProvTyped
  <2> QED
    BY <2>1, <2>2
<1>5. TextsRight'
  <2>1. CASE CommitClaims
    BY <1>1, <1>3, <2>1 DEF CommitClaims, TextsRight, Created, DocLocked, ProvTyped, Keys
  <2>2. CASE InsertClaims
    BY <1>1, <2>2 DEF InsertClaims, TextsRight, DocLocked, ChunkThere, ProvTyped
  <2>3. CASE (\E d \in ProvDocs : ReadChunk(d)) \/ NoClaims
    BY <1>1, <2>3 DEF ReadChunk, NoClaims, TextsRight, DocLocked
  <2> QED
    BY <2>1, <2>2, <2>3
<1> QED
  BY <1>1, <1>2, <1>4, <1>5, OthersKeepCalls

LEMMA PurgeKeeps ==
  ASSUME ProvRight, (\E d \in ProvDocs : PurgeLocks(d)) \/ PurgeCommits \/ PurgeAborted
  PROVE  ProvRight'
<1> USE DEF ProvRight
<1>1. UNCHANGED <<runs, adv, extr>>
  BY DEF PurgeLocks, PurgeCommits, PurgeAborted
<1>2. CASE \E d \in ProvDocs : PurgeLocks(d)
  <2>1. UNCHANGED <<docs, units, claims>> /\ ProvTyped'
    BY <1>1, <1>2 DEF PurgeLocks, ProvTyped
  <2>2. TextsRight'
    BY <1>1, <1>2, <2>1 DEF PurgeLocks, TextsRight, DocLocked
  <2> QED
    BY <1>1, <2>1, <2>2, OthersKeepCalls DEF ClaimsShrink
<1>3. CASE PurgeAborted
  <2>1. UNCHANGED <<docs, units, claims>> /\ ProvTyped'
    BY <1>1, <1>3 DEF PurgeAborted, ProvTyped
  <2>2. TextsRight'
    BY <1>1, <1>3, <2>1 DEF PurgeAborted, TextsRight, DocLocked
  <2> QED
    BY <1>1, <2>1, <2>2, OthersKeepCalls DEF ClaimsShrink
<1>4. CASE PurgeCommits
  <2> DEFINE d == purge.doc
  <2>1. d \in ProvDocs /\ purge.at = "locked" /\ docs[d] = "live"
    BY <1>4 DEF PurgeCommits, ProvTyped, TextsRight
  <2>2. /\ units' = [k \in Keys |-> IF k[2] = d THEN Purged(units[k]) ELSE units[k]]
        /\ claims' = [i \in Positions |-> IF Touches(i, d)
                         THEN [claims[i] EXCEPT !.chunk = "null"] ELSE claims[i]]
        /\ docs' = [docs EXCEPT ![d] = "deleted"]
        /\ purge' = [at |-> "idle", doc |-> Nobody]
    BY <1>4 DEF PurgeCommits
  <2>3. ProvTyped'
    <3>1. units' \in [Keys -> [life : Lives, text : BOOLEAN]]
      BY <2>2 DEF ProvTyped, Purged, Lives
    <3>2. claims' \in [Positions -> ClaimRows]
      <4>1. \A i \in Positions : /\ claims[i] \in ClaimRows
                                  /\ [claims[i] EXCEPT !.chunk = "null"] \in ClaimRows
        BY DEF ProvTyped, ClaimRows
      <4> QED
        BY <2>2, <4>1
    <3> QED
      BY <1>1, <2>2, <3>1, <3>2 DEF ProvTyped
  <2>4. ClaimsShrink
    BY <2>2 DEF ClaimsShrink, ProvTyped, ClaimRows
  <2>5. TextsRight'
    <3>1. \A key \in Keys : /\ units'[key].text => docs'[key[2]] = "live"
                            /\ units'[key].text => units'[key].life \in {"active", "revoked"}
      <4> SUFFICES ASSUME NEW key \in Keys, units'[key].text
                   PROVE  docs'[key[2]] = "live" /\ units'[key].life \in {"active", "revoked"}
        OBVIOUS
      <4>1. key[2] # d
        BY <2>2 DEF Purged, TextsRight
      <4>2. units'[key] = units[key] /\ docs'[key[2]] = docs[key[2]]
        BY <2>2, <4>1 DEF ProvTyped, Keys
      <4> QED
        BY <4>2 DEF TextsRight
    <3>2. \A i \in Positions : claims'[i].here /\ claims'[i].chunk = "ok" =>
                                 docs'[OldClaims[i].doc] = "live"
      <4> SUFFICES ASSUME NEW i \in Positions, claims'[i].here, claims'[i].chunk = "ok"
                   PROVE  docs'[OldClaims[i].doc] = "live"
        OBVIOUS
      <4>1. ~Touches(i, d) /\ claims'[i] = claims[i]
        BY <2>2 DEF ProvTyped, ClaimRows
      <4>2. OldClaims[i].doc # d
        BY <4>1 DEF Touches
      <4> QED
        BY <2>2, <4>1, <4>2, PositionsAre DEF TextsRight, ProvTyped
    <3>3. extr'.at = "inserted" => docs'[extr'.doc] = "live" /\ ~DocLocked(extr.doc)'
      BY <1>1, <2>1, <2>2 DEF TextsRight, DocLocked, ProvTyped
    <3> QED
      BY <1>1, <2>2, <3>1, <3>2, <3>3 DEF TextsRight
  <2> QED
    BY <1>1, <2>3, <2>4, <2>5, OthersKeepCalls
<1> QED
  BY <1>2, <1>3, <1>4

LEMMA TransitionsKeep ==
  ASSUME ProvRight, NEW key \in Keys, RevokeUnit(key) \/ RestoreUnit(key)
  PROVE  ProvRight'
<1> USE DEF ProvRight
<1>1. UNCHANGED <<docs, claims, runs, adv, extr, purge>>
  BY DEF RevokeUnit, RestoreUnit, ProvUpset
<1>2. PICK life \in {"active", "revoked"} : units' = [units EXCEPT ![key].life = life]
  BY DEF RevokeUnit, RestoreUnit
<1>3. units[key].life \in {"active", "revoked"}
  BY DEF RevokeUnit, RestoreUnit
<1>4. units \in [Keys -> [life : Lives, text : BOOLEAN]]
  BY DEF ProvTyped
<1>5. /\ units' \in [Keys -> [life : Lives, text : BOOLEAN]]
      /\ \A k \in Keys : /\ units'[k].text = units[k].text
                         /\ units'[k].life = units[k].life \/ units'[k].life \in {"active", "revoked"}
  BY <1>2, <1>4 DEF Lives
<1>6. ProvTyped' /\ TextsRight'
  BY <1>1, <1>5 DEF ProvTyped, TextsRight, DocLocked
<1> QED
  BY <1>1, <1>6, OthersKeepCalls DEF ClaimsShrink

LEMMA ErasureKeeps ==
  ASSUME ProvRight, EraseMemory
  PROVE  ProvRight'
<1> USE ProvCallersAssumption DEF ProvRight
<1>0. /\ UNCHANGED <<runs, adv, extr, purge>>
      /\ docs' = [d \in ProvDocs |-> "erased"]
      /\ units' = [k \in Keys |-> [life |-> "absent", text |-> FALSE]]
      /\ claims' = [i \in Positions |-> [claims[i] EXCEPT !.here = FALSE]]
      /\ \A i \in Positions : claims[i].held = Nobody
  BY DEF EraseMemory, ProvUpset
<1>a. ASSUME NEW i \in Positions
      PROVE  claims[i] \in ClaimRows /\ [claims[i] EXCEPT !.here = FALSE] \in ClaimRows
  <2>1. claims[i] \in ClaimRows
    BY DEF ProvTyped
  <2> QED
    BY <2>1 DEF ClaimRows
<1>b. claims' \in [Positions -> ClaimRows] /\ ClaimsShrink
  BY <1>0, <1>a DEF ClaimsShrink, ClaimRows
<1>1. /\ UNCHANGED <<runs, adv, extr, purge>>
      /\ ProvTyped' /\ ClaimsShrink
  BY <1>0, <1>b DEF ProvTyped, Lives
<1>2. TextsRight'
  BY <1>1 DEF EraseMemory, TextsRight, ProvTyped, ClaimRows
<1> QED
  BY <1>1, <1>2, OthersKeepCalls

-----------------------------------------------------------------------------
(* Steps of calls                                                          *)

\* A call changes no text; only a link changes a unit.
LEMMA TextsKept ==
  ASSUME ProvRight, UNCHANGED <<docs, units, extr, purge>>,
         \A i \in Positions : claims'[i].here = claims[i].here /\ claims'[i].chunk = claims[i].chunk
  PROVE  TextsRight'
  BY DEF ProvRight, TextsRight, DocLocked

\* Nothing a call has in hand changes for the others.
LEMMA LooksKeeps ==
  ASSUME ProvRight, NEW k \in ProvCallers, LooksForRun(k)
  PROVE  ProvRight'
<1> USE DEF ProvRight
<1>1. /\ UNCHANGED <<docs, units, claims, runs, extr, purge>>
      /\ adv' = [adv EXCEPT ![k].at = "creating"] /\ adv[k].at = "idle"
  BY DEF LooksForRun
<1>2. adv \in [ProvCallers -> Calls]
  BY DEF ProvTyped
<1>3. /\ adv' \in [ProvCallers -> Calls]
      /\ \A l \in ProvCallers : l # k => adv'[l] = adv[l]
      /\ adv'[k].at = "creating" /\ adv'[k].run = adv[k].run
  BY <1>1, <1>2 DEF Calls
<1>4. \A l \in ProvCallers : AtWork(l)' <=> AtWork(l)
  BY <1>1, <1>3 DEF AtWork
<1>5. \A l \in ProvCallers : AtWork(l) => adv'[l] = adv[l]
  BY <1>1, <1>3 DEF AtWork
<1>6. ProvTyped' /\ OneActive' /\ ReportIsExact' /\ CompletedLeftNone'
  <2>1. ProvTyped'
    BY <1>1, <1>3 DEF ProvTyped
  <2>2. OneActive'
    BY <1>1 DEF OneActive, RunActive
  <2>3. ReportIsExact'
    BY <1>1 DEF ReportIsExact
  <2>4. CompletedLeftNone'
    BY <1>1 DEF CompletedLeftNone
  <2> QED
    BY <2>1, <2>2, <2>3, <2>4
<1>7. CopiesRight'
  BY <1>1, <1>3, <1>4, <1>5 DEF CopiesRight
<1>8. ClaimsRight'
  BY <1>1, <1>3 DEF ClaimsRight, Sourceless, Dry
<1>9. CursorsRight'
  BY <1>1, <1>4, <1>5 DEF CursorsRight, Passed, Sourceless, Dry
<1>10. RehearsalsRight'
  BY <1>1, <1>4, <1>5 DEF RehearsalsRight, Wanted, Candidate, Dry
<1> QED
  BY <1>1, TextsKept, <1>6, <1>7, <1>8, <1>9, <1>10

LEMMA IdleCall ==
  ASSUME ProvTyped, NEW k \in ProvCallers, adv' = [adv EXCEPT ![k] = NoCall]
  PROVE  /\ adv' \in [ProvCallers -> Calls]
         /\ ~AtWork(k)' /\ adv'[k].run = NoRun /\ adv'[k].at = "idle"
         /\ \A l \in ProvCallers : l # k => adv'[l] = adv[l] /\ (AtWork(l)' <=> AtWork(l))
  BY NoCallTyped DEF ProvTyped, AtWork

LEMMA DiesKeeps ==
  ASSUME ProvRight, NEW k \in ProvCallers, CallDies(k)
  PROVE  ProvRight'
<1> USE DEF ProvRight
<1>1. /\ UNCHANGED <<docs, units, runs, extr, purge>>
      /\ adv' = [adv EXCEPT ![k] = NoCall]
      /\ claims' = [i \in Positions |->
                  IF claims[i].held = k THEN [claims[i] EXCEPT !.held = Nobody]
                  ELSE claims[i]]
  BY DEF CallDies, ProvUpset
<1>2. /\ claims \in [Positions -> ClaimRows] /\ claims' \in [Positions -> ClaimRows]
      /\ \A i \in Positions : /\ claims'[i].unit = claims[i].unit /\ claims'[i].by = claims[i].by
                              /\ claims'[i].here = claims[i].here /\ claims'[i].chunk = claims[i].chunk
                              /\ claims[i].held # k => claims'[i].held = claims[i].held
  <2>1. ASSUME NEW i \in Positions
        PROVE  claims[i] \in ClaimRows /\ [claims[i] EXCEPT !.held = Nobody] \in ClaimRows
    <3>1. claims[i] \in ClaimRows
      BY DEF ProvTyped
    <3> QED
      BY <3>1 DEF ClaimRows
  <2>2. \A i \in Positions : claims[i] \in ClaimRows
    BY <2>1
  <2>3. \A i \in Positions : /\ claims'[i].unit = claims[i].unit /\ claims'[i].by = claims[i].by
                             /\ claims'[i].here = claims[i].here /\ claims'[i].chunk = claims[i].chunk
                             /\ claims[i].held # k => claims'[i].held = claims[i].held
    BY <1>1, <2>2 DEF ClaimRows
  <2>4. claims' \in [Positions -> ClaimRows]
    BY <1>1, <2>1
  <2>5. claims \in [Positions -> ClaimRows]
    BY DEF ProvTyped
  <2> QED
    BY <2>3, <2>4, <2>5
<1>3. /\ adv' \in [ProvCallers -> Calls]
      /\ ~AtWork(k)' /\ adv'[k].run = NoRun /\ adv'[k].at = "idle"
      /\ \A l \in ProvCallers : l # k => adv'[l] = adv[l] /\ (AtWork(l)' <=> AtWork(l))
  BY <1>1, IdleCall
<1>4. ProvTyped'
  BY <1>1, <1>2, <1>3 DEF ProvTyped
<1>5. CopiesRight'
  BY <1>1, <1>3 DEF CopiesRight
<1>6. \A i \in Positions : Sourceless(i)' <=> Sourceless(i)
  BY <1>2 DEF Sourceless
<1>7. ClaimsRight'
  BY <1>1, <1>2, <1>3, <1>6 DEF ClaimsRight, Dry
<1>8. OneActive'
  BY <1>1 DEF OneActive, RunActive
<1>9. ReportIsExact'
  <2>1. \A r \in DOMAIN runs : {i \in Positions : claims[i].by = r} = {i \in Positions : claims'[i].by = r}
    BY <1>2
  <2> QED
    BY <1>1, <2>1 DEF ReportIsExact
<1>10. CursorsRight'
  BY <1>1, <1>3, <1>6 DEF CursorsRight, Passed, Dry
<1>11. CompletedLeftNone'
  BY <1>1, <1>2 DEF CompletedLeftNone
<1>12. RehearsalsRight'
  <2>1. \A l \in ProvCallers : l # k => Wanted(l)' = Wanted(l)
    BY <1>2, <1>3 DEF Wanted, Candidate
  <2> QED
    BY <1>1, <1>3, <2>1 DEF RehearsalsRight, Dry
<1> QED
  BY <1>1, <1>2, <1>4, <1>5, <1>7, <1>8, <1>9, <1>10, <1>11, <1>12, TextsKept

\* A step that changes only rows of runs and one idle call.
LEMMA InsertsKeeps ==
  ASSUME ProvRight, NEW k \in ProvCallers, NEW mode \in {"real", "dry_run"}, InsertsRun(k, mode)
  PROVE  ProvRight'
<1> USE DEF ProvRight
<1>1. /\ UNCHANGED <<docs, units, claims, extr, purge>>
      /\ adv' = [adv EXCEPT ![k] = NoCall] /\ adv[k].at = "creating"
  BY DEF InsertsRun
<1>2. /\ adv' \in [ProvCallers -> Calls]
      /\ ~AtWork(k)' /\ adv'[k].run = NoRun /\ adv'[k].at = "idle"
      /\ \A l \in ProvCallers : l # k => adv'[l] = adv[l] /\ (AtWork(l)' <=> AtWork(l))
  BY <1>1, IdleCall
<1> DEFINE new == NewRun(mode)
           n == Len(runs) + 1
<1>3. /\ new \in RunRows /\ new.mode = mode /\ new.cursor = 0 /\ new.processed = 0
      /\ new.status = "pending"
      /\ \A b \in Buckets : new.count[b] = 0
      /\ \A i \in Positions : new.seen[i] = 0
  BY PositionsAre DEF NewRun, RunRows
<1>4. runs \in Seq(RunRows) /\ Len(runs) \in Nat
  BY DEF ProvTyped
<1> HIDE DEF new
<1>5. runs' \in Seq(RunRows) /\ DOMAIN runs \subseteq DOMAIN runs'
      /\ \A r \in DOMAIN runs : runs'[r] = runs[r]
  BY <1>3, <1>4 DEF InsertsRun, new
<1>6. \A r \in DOMAIN runs' : r \in DOMAIN runs \/
        /\ r = n /\ runs'[r] = new /\ IndexAdmits
  BY <1>4 DEF InsertsRun, new
<1>7. n \notin DOMAIN runs /\ n # NoRun
  BY <1>4 DEF NoRun
<1>8. ProvTyped'
  BY <1>1, <1>2, <1>5 DEF ProvTyped
<1>9. CopiesRight'
  BY <1>1, <1>2, <1>5 DEF CopiesRight
<1>10. ClaimsRight'
  BY <1>1, <1>2, <1>5 DEF ClaimsRight, Sourceless, Dry
<1>11. OneActive'
  BY <1>5, <1>6 DEF OneActive, RunActive, IndexAdmits
<1>12. ReportIsExact'
  <2> SUFFICES ASSUME NEW r \in DOMAIN runs'
               PROVE  LET row == runs'[r]
                          linked == {i \in Positions : claims'[i].by = r}
                      IN  /\ row.processed = row.count["exact_chunk"] + row.count["degraded_version"]
                               + row.count["missing_document_only"]
                               + row.count["skipped_unresolvable"] + row.count["failed"]
                          /\ row.mode = "real" =>
                               row.count["exact_chunk"] + row.count["degraded_version"]
                                 + row.count["missing_document_only"] = Cardinality(linked)
    BY DEF ReportIsExact
  <2>1. CASE r \in DOMAIN runs
    BY <1>1, <1>5, <2>1 DEF ReportIsExact
  <2>2. CASE r \notin DOMAIN runs
    <3>1. r = n /\ runs'[r] = new
      BY <1>6, <2>2
    <3>2. {i \in Positions : claims'[i].by = r} = {}
      BY <1>1, <1>7, <3>1 DEF ClaimsRight
    <3>3. Cardinality({i \in Positions : claims'[i].by = r}) = 0
      BY <3>2, FS_EmptySet
    <3> QED
      BY <1>3, <3>1, <3>3 DEF Buckets
  <2> QED
    BY <2>1, <2>2
<1>13. CursorsRight'
  <2>1. ASSUME NEW r \in DOMAIN runs', runs'[r].mode = "real"
        PROVE  Passed(runs[r], runs[r].cursor)'
    <3>1. CASE r \in DOMAIN runs
      BY <1>1, <1>5, <2>1, <3>1 DEF CursorsRight, Passed, Sourceless
    <3>2. CASE r \notin DOMAIN runs
      BY <1>3, <1>6, <3>2, PositionsAre DEF Passed
    <3> QED
      BY <3>1, <3>2
  <2>2. ASSUME NEW l \in ProvCallers, AtWork(l)', ~Dry(l)'
        PROVE  /\ Passed(adv[l].copy, adv[l].after)'
               /\ adv'[l].excluded \subseteq adv'[l].copy.failures
               /\ adv'[l].at = "claim" /\ ~adv'[l].frozen =>
                    Passed(adv[l].copy, adv[l].claim - 1)'
    BY <1>1, <1>2, <2>2 DEF CursorsRight, Passed, Sourceless, Dry
  <2> QED
    BY <2>1, <2>2 DEF CursorsRight
<1>14. CompletedLeftNone'
  BY <1>1, <1>3, <1>5, <1>6 DEF CompletedLeftNone
<1>15. RehearsalsRight'
  <2>1. \A l \in ProvCallers : l # k => Wanted(l)' = Wanted(l)
    BY <1>1, <1>2 DEF Wanted, Candidate
  <2>2. \A r \in DOMAIN runs' : runs'[r].mode = "dry_run" =>
       \A i \in Positions : /\ runs'[r].seen[i] <= 1
                            /\ i > runs'[r].cursor => runs'[r].seen[i] = 0
    BY <1>3, <1>5, <1>6 DEF RehearsalsRight
  <2> QED
    BY <1>2, <2>1, <2>2 DEF RehearsalsRight, Dry
<1> QED
  BY <1>1, <1>8, <1>9, <1>10, <1>11, <1>12, <1>13, <1>14, <1>15, TextsKept

LEMMA CancelKeeps ==
  ASSUME ProvRight, NEW r \in DOMAIN runs, CancelRun(r)
  PROVE  ProvRight'
<1> USE DEF ProvRight
<1>1. /\ UNCHANGED <<docs, units, claims, adv, extr, purge>>
      /\ runs' = [runs EXCEPT ![r].status = "cancelled"]
      /\ RunActive(r) /\ RunLockFree(r)
  BY DEF CancelRun, ProvUpset
<1>2. runs \in Seq(RunRows) /\ runs[r] \in RunRows
  BY DEF ProvTyped
<1>3. [runs[r] EXCEPT !.status = "cancelled"] \in RunRows
  BY <1>2 DEF RunRows
<1>4. /\ runs' \in Seq(RunRows) /\ DOMAIN runs' = DOMAIN runs
      /\ \A s \in DOMAIN runs : s # r => runs'[s] = runs[s]
      /\ runs'[r] = [runs[r] EXCEPT !.status = "cancelled"]
  BY <1>1, <1>2, <1>3
<1>5. \A s \in DOMAIN runs :
        /\ runs'[s].mode = runs[s].mode /\ runs'[s].processed = runs[s].processed
        /\ runs'[s].count = runs[s].count /\ runs'[s].cursor = runs[s].cursor
        /\ runs'[s].failures = runs[s].failures /\ runs'[s].seen = runs[s].seen
        /\ s = r => runs'[s].status = "cancelled"
        /\ s # r => runs'[s].status = runs[s].status
  BY <1>2, <1>4 DEF RunRows
<1>6. \A l \in ProvCallers : AtWork(l) => adv[l].run # r
  BY <1>1 DEF RunLockFree
<1>7. ProvTyped'
  BY <1>1, <1>4 DEF ProvTyped
<1>8. CopiesRight'
  BY <1>1, <1>4, <1>6 DEF CopiesRight, AtWork
<1>9. ClaimsRight'
  BY <1>1, <1>4 DEF ClaimsRight, Sourceless, Dry
<1>10. OneActive'
  BY <1>4, <1>5 DEF OneActive, RunActive
<1>11. ReportIsExact'
  <2>1. \A s \in DOMAIN runs : {i \in Positions : claims'[i].by = s} = {i \in Positions : claims[i].by = s}
    BY <1>1
  <2>2. ASSUME NEW s \in DOMAIN runs
        PROVE  LET row == runs'[s]
                   linked == {i \in Positions : claims'[i].by = s}
               IN  /\ row.processed = row.count["exact_chunk"] + row.count["degraded_version"]
                        + row.count["missing_document_only"]
                        + row.count["skipped_unresolvable"] + row.count["failed"]
                   /\ row.mode = "real" =>
                        row.count["exact_chunk"] + row.count["degraded_version"]
                          + row.count["missing_document_only"] = Cardinality(linked)
    <3>1. /\ runs'[s].mode = runs[s].mode /\ runs'[s].processed = runs[s].processed
          /\ runs'[s].count = runs[s].count
      BY <1>5
    <3> QED
      BY <2>1, <3>1 DEF ReportIsExact
  <2> QED
    BY <1>4, <2>2 DEF ReportIsExact
<1>12. CursorsRight'
  BY <1>1, <1>4, <1>5 DEF CursorsRight, Passed, Sourceless, AtWork, Dry
<1>13. CompletedLeftNone'
  BY <1>1, <1>4, <1>5 DEF CompletedLeftNone
<1>14. RehearsalsRight'
  <2>1. \A l \in ProvCallers : Wanted(l)' = Wanted(l)
    BY <1>1 DEF Wanted, Candidate
  <2> QED
    BY <1>1, <1>4, <1>5, <2>1 DEF RehearsalsRight, AtWork, Dry
<1> QED
  BY <1>1, <1>7, <1>8, <1>9, <1>10, <1>11, <1>12, <1>13, <1>14, TextsKept

LEMMA StartsKeeps ==
  ASSUME ProvRight, NEW k \in ProvCallers, NEW r \in DOMAIN runs, AdvanceStarts(k, r)
  PROVE  ProvRight'
<1> USE DEF ProvRight
<1>1. /\ UNCHANGED <<docs, units, extr, purge>>
      /\ runs' = [runs EXCEPT ![r].status = "running"]
      /\ adv' = [adv EXCEPT ![k] =
               [NoCall EXCEPT !.at = "pick", !.run = r, !.copy = runs'[r],
                 !.after = runs[r].cursor, !.left = RunBatch]]
      /\ claims' = [i \in Positions |-> IF claims[i].held = Types
                  THEN [claims[i] EXCEPT !.age = @ + 1] ELSE claims[i]]
      /\ RunActive(r) /\ RunLockFree(r)
  BY DEF AdvanceStarts, ResumesAt
<1>2. /\ claims' \in [Positions -> ClaimRows]
      /\ \A i \in Positions : /\ claims'[i].unit = claims[i].unit /\ claims'[i].by = claims[i].by
                              /\ claims'[i].here = claims[i].here /\ claims'[i].chunk = claims[i].chunk
                              /\ claims'[i].held = claims[i].held
  <2>1. ASSUME NEW i \in Positions
        PROVE  claims[i] \in ClaimRows /\ [claims[i] EXCEPT !.age = @ + 1] \in ClaimRows
    <3>1. claims[i] \in ClaimRows
      BY DEF ProvTyped
    <3> QED
      BY <3>1 DEF ClaimRows
  <2>2. \A i \in Positions : claims[i] \in ClaimRows
    BY <2>1
  <2>3. \A i \in Positions :
          /\ claims'[i].unit = claims[i].unit /\ claims'[i].by = claims[i].by
          /\ claims'[i].here = claims[i].here /\ claims'[i].chunk = claims[i].chunk
          /\ claims'[i].held = claims[i].held
    BY <1>1, <2>2 DEF ClaimRows
  <2>4. claims' \in [Positions -> ClaimRows]
    BY <1>1, <2>1
  <2> QED
    BY <2>3, <2>4
<1>3. runs \in Seq(RunRows) /\ runs[r] \in RunRows /\ r \in Nat
  BY DEF ProvTyped
<1>4. [runs[r] EXCEPT !.status = "running"] \in RunRows
  BY <1>3 DEF RunRows
<1>5. /\ runs' \in Seq(RunRows) /\ DOMAIN runs' = DOMAIN runs
      /\ \A s \in DOMAIN runs : s # r => runs'[s] = runs[s]
      /\ runs'[r] = [runs[r] EXCEPT !.status = "running"] /\ runs'[r] \in RunRows
  BY <1>1, <1>3, <1>4
<1>6. \A s \in DOMAIN runs :
        /\ runs'[s].mode = runs[s].mode /\ runs'[s].processed = runs[s].processed
        /\ runs'[s].count = runs[s].count /\ runs'[s].cursor = runs[s].cursor
        /\ runs'[s].failures = runs[s].failures /\ runs'[s].seen = runs[s].seen
        /\ s = r => runs'[s].status = "running"
        /\ s # r => runs'[s].status = runs[s].status
  BY <1>3, <1>5 DEF RunRows
<1>7. \A l \in ProvCallers : adv[l].run # r
  BY <1>1 DEF RunLockFree
<1>8. /\ adv' \in [ProvCallers -> Calls]
      /\ \A l \in ProvCallers : l # k => adv'[l] = adv[l] /\ (AtWork(l)' <=> AtWork(l))
      /\ AtWork(k)' /\ adv'[k].at = "pick" /\ adv'[k].run = r /\ adv'[k].copy = runs'[r]
      /\ adv'[k].after = runs[r].cursor /\ adv'[k].excluded = {} /\ ~adv'[k].frozen
  <2>1. adv \in [ProvCallers -> Calls]
    BY DEF ProvTyped
  <2>2. runs[r].cursor \in 0..Len(OldClaims) /\ RunBatch \in Nat
    BY <1>3, ProvBounds DEF RunRows
  <2>3. [NoCall EXCEPT !.at = "pick", !.run = r, !.copy = runs'[r],
                 !.after = runs[r].cursor, !.left = RunBatch] \in Calls
    BY <1>3, <1>5, <2>2, NoCallTyped DEF Calls, NoCall
  <2> QED
    BY <1>1, <2>1, <2>3 DEF AtWork, NoCall
<1>9. ProvTyped'
  BY <1>1, <1>2, <1>5, <1>8 DEF ProvTyped
<1>10. CopiesRight'
  <2>1. ASSUME NEW l \in ProvCallers
        PROVE  IF AtWork(l)'
               THEN /\ adv'[l].run \in DOMAIN runs'
                    /\ runs'[adv'[l].run] = adv'[l].copy
                    /\ adv'[l].copy.status = "running"
               ELSE adv'[l].run = NoRun
    <3>1. CASE l = k
      BY <1>5, <1>6, <1>8, <3>1
    <3>2. CASE l # k
      BY <1>5, <1>7, <1>8, <3>2 DEF CopiesRight
    <3> QED
      BY <3>1, <3>2
  <2>2. ASSUME NEW l \in ProvCallers, NEW m \in ProvCallers, AtWork(l)', AtWork(m)',
               adv'[l].run = adv'[m].run
        PROVE  l = m
    BY <1>7, <1>8, <2>2 DEF CopiesRight
  <2> QED
    BY <2>1, <2>2 DEF CopiesRight
<1>11. \A i \in Positions : Sourceless(i)' <=> Sourceless(i)
  BY <1>2 DEF Sourceless
<1>12. ClaimsRight'
  BY <1>1, <1>2, <1>5, <1>8, <1>11 DEF ClaimsRight, Dry
<1>13. OneActive'
  BY <1>1, <1>5, <1>6 DEF OneActive, RunActive
<1>14. ReportIsExact'
  <2>1. \A s \in DOMAIN runs : {i \in Positions : claims'[i].by = s} = {i \in Positions : claims[i].by = s}
    BY <1>2
  <2>2. ASSUME NEW s \in DOMAIN runs
        PROVE  LET row == runs'[s]
                   linked == {i \in Positions : claims'[i].by = s}
               IN  /\ row.processed = row.count["exact_chunk"] + row.count["degraded_version"]
                        + row.count["missing_document_only"]
                        + row.count["skipped_unresolvable"] + row.count["failed"]
                   /\ row.mode = "real" =>
                        row.count["exact_chunk"] + row.count["degraded_version"]
                          + row.count["missing_document_only"] = Cardinality(linked)
    <3>1. /\ runs'[s].mode = runs[s].mode /\ runs'[s].processed = runs[s].processed
          /\ runs'[s].count = runs[s].count
      BY <1>6
    <3> QED
      BY <2>1, <3>1 DEF ReportIsExact
  <2> QED
    BY <1>5, <2>2 DEF ReportIsExact
<1>15. CursorsRight'
  <2>1. ASSUME NEW s \in DOMAIN runs', runs'[s].mode = "real"
        PROVE  Passed(runs[s], runs[s].cursor)'
    BY <1>5, <1>6, <1>11, <2>1 DEF CursorsRight, Passed
  <2>2. ASSUME NEW l \in ProvCallers, AtWork(l)', ~Dry(l)'
        PROVE  /\ Passed(adv[l].copy, adv[l].after)'
               /\ adv'[l].excluded \subseteq adv'[l].copy.failures
               /\ adv'[l].at = "claim" /\ ~adv'[l].frozen =>
                    Passed(adv[l].copy, adv[l].claim - 1)'
    <3>1. CASE l # k
      BY <1>8, <1>11, <2>2, <3>1 DEF CursorsRight, Passed, Dry
    <3>2. CASE l = k
      <4>1. runs[r].mode = "real"
        BY <1>5, <1>6, <1>8, <2>2, <3>2 DEF Dry, RunRows
      <4> QED
        BY <1>5, <1>6, <1>8, <1>11, <3>2, <4>1 DEF CursorsRight, Passed
    <3> QED
      BY <3>1, <3>2
  <2> QED
    BY <2>1, <2>2 DEF CursorsRight
<1>16. CompletedLeftNone'
  BY <1>2, <1>5, <1>6 DEF CompletedLeftNone
<1>17. RehearsalsRight'
  <2>1. \A l \in ProvCallers : l # k => Wanted(l)' = Wanted(l)
    BY <1>2, <1>8 DEF Wanted, Candidate
  <2>2. \A i \in Wanted(k)' : i > adv'[k].copy.cursor
    BY <1>5, <1>6, <1>8 DEF Wanted, Candidate
  <2>3. \A s \in DOMAIN runs' : runs'[s].mode = "dry_run" =>
       \A i \in Positions : /\ runs'[s].seen[i] <= 1
                            /\ i > runs'[s].cursor => runs'[s].seen[i] = 0
    BY <1>5, <1>6 DEF RehearsalsRight
  <2>4. ASSUME NEW l \in ProvCallers, AtWork(l)', Dry(l)'
        PROVE  /\ ~adv'[l].frozen
               /\ \A i \in Wanted(l)' : i > adv'[l].copy.cursor
               /\ adv'[l].at = "claim" => /\ adv'[l].claim > adv'[l].copy.cursor
                                          /\ \A i \in Wanted(l)' : i >= adv'[l].claim
    <3>1. CASE l = k
      BY <1>8, <2>2, <3>1
    <3>2. CASE l # k
      BY <1>8, <2>1, <2>4, <3>2 DEF RehearsalsRight, Dry
    <3> QED
      BY <3>1, <3>2
  <2> QED
    BY <2>3, <2>4 DEF RehearsalsRight
<1> QED
  BY <1>1, <1>2, <1>9, <1>10, <1>12, <1>13, <1>14, <1>15, <1>16, <1>17, TextsKept

LEMMA FirstUnlocked ==
  ASSUME NEW S \in SUBSET Positions, S # {}
  PROVE  Min(S) \in S /\ \A j \in S : Min(S) <= j
<1>1. S \subseteq Nat
  BY PositionsAre
<1>2. \E x \in S : \A y \in S : x <= y
  BY <1>1, NatLeast
<1> QED
  BY <1>2 DEF Min

LEMMA PickKeeps ==
  ASSUME ProvRight, NEW k \in ProvCallers, PickClaim(k)
  PROVE  ProvRight'
<1> USE DEF ProvRight
<1>1. UNCHANGED <<docs, units, runs, extr, purge>> /\ adv[k].at = "pick"
  BY DEF PickClaim
<1>2. /\ adv \in [ProvCallers -> Calls] /\ adv[k] \in Calls
      /\ claims \in [Positions -> ClaimRows]
  BY DEF ProvTyped
<1>3. AtWork(k)
  BY <1>1 DEF AtWork
<1>4. CASE adv[k].left = 0 \/ Unlocked(k) = {}
  <2>1. adv' = [adv EXCEPT ![k].at = "end"] /\ UNCHANGED claims
    BY <1>4 DEF PickClaim
  <2>2. /\ adv' \in [ProvCallers -> Calls]
        /\ \A l \in ProvCallers : l # k => adv'[l] = adv[l]
        /\ adv'[k].at = "end" /\ adv'[k].run = adv[k].run /\ adv'[k].copy = adv[k].copy
        /\ adv'[k].after = adv[k].after /\ adv'[k].excluded = adv[k].excluded
        /\ adv'[k].frozen = adv[k].frozen
    BY <1>2, <2>1 DEF Calls
  <2>3. ProvTyped'
    BY <1>1, <2>1, <2>2 DEF ProvTyped
  <2>4. \A l \in ProvCallers : AtWork(l)' <=> AtWork(l)
    BY <1>3, <2>2 DEF AtWork
  <2>5. CopiesRight'
    BY <1>1, <2>2, <2>4 DEF CopiesRight
  <2>6. ClaimsRight'
    BY <1>1, <2>1, <2>2 DEF ClaimsRight, Sourceless, Dry
  <2>7. OneActive' /\ ReportIsExact' /\ CompletedLeftNone'
    BY <1>1, <2>1 DEF OneActive, RunActive, ReportIsExact, CompletedLeftNone
  <2>8. CursorsRight'
    BY <1>1, <2>1, <2>2, <2>4 DEF CursorsRight, Passed, Sourceless, Dry
  <2>9. RehearsalsRight'
    BY <1>1, <2>1, <2>2, <2>4 DEF RehearsalsRight, Wanted, Candidate, Dry
  <2> QED
    BY <1>1, <2>1, <2>3, <2>5, <2>6, <2>7, <2>8, <2>9, TextsKept
<1>5. CASE ~(adv[k].left = 0 \/ Unlocked(k) = {})
  <2> DEFINE i == Min(Unlocked(k))
             froze == adv[k].frozen \/ (~Dry(k) /\ GapBefore(k, i))
  <2>1. /\ adv' = [adv EXCEPT ![k].at = "claim", ![k].claim = i,
                     ![k].considered = @ + 1, ![k].left = @ - 1, ![k].frozen = froze]
        /\ claims' = IF Dry(k) THEN claims ELSE [claims EXCEPT ![i].held = k]
    BY <1>5 DEF PickClaim
  <2>2. i \in Unlocked(k) /\ \A j \in Unlocked(k) : i <= j
    BY <1>5, FirstUnlocked DEF Unlocked, Wanted
  <2>3. i \in Positions /\ Candidate(i, adv[k].after) /\ i \notin adv[k].excluded
        /\ i \in Wanted(k) /\ (Dry(k) \/ claims[i].held = Nobody)
    BY <2>2 DEF Unlocked, Wanted
  <2> HIDE DEF i
  <2>4. froze \in BOOLEAN
    BY <1>2 DEF Calls, GapBefore
  <2>5. /\ adv' \in [ProvCallers -> Calls]
        /\ \A l \in ProvCallers : l # k => adv'[l] = adv[l]
        /\ adv'[k].at = "claim" /\ adv'[k].claim = i
        /\ adv'[k].run = adv[k].run /\ adv'[k].copy = adv[k].copy
        /\ adv'[k].after = adv[k].after /\ adv'[k].excluded = adv[k].excluded
        /\ adv'[k].frozen = froze
    <3> HIDE DEF froze
    <3>1. adv[k].left \in Nat \ {0} /\ adv[k].considered \in Nat
      BY <1>2, <1>5 DEF Calls
    <3> DEFINE c == [adv[k] EXCEPT !.at = "claim", !.claim = i, !.considered = @ + 1,
                       !.left = @ - 1, !.frozen = froze]
    <3>2. adv' = [adv EXCEPT ![k] = c]
      BY <1>2, <2>1 DEF Calls
    <3>3. c \in Calls
      <4>1. /\ adv[k].run \in Nat /\ adv[k].copy \in RunRows \cup {<<>>}
            /\ adv[k].after \in 0..Len(OldClaims) /\ adv[k].excluded \in SUBSET Positions
            /\ adv[k].considered + 1 \in Nat /\ adv[k].left - 1 \in Nat
        BY <1>2, <3>1 DEF Calls
      <4> DEFINE more == adv[k].considered + 1
                 less == adv[k].left - 1
      <4>2. c = [adv[k] EXCEPT !.at = "claim", !.claim = i, !.considered = more,
                   !.left = less, !.frozen = froze]
        BY <1>2 DEF Calls
      <4>3. more \in Nat /\ less \in Nat
        BY <4>1
      <4> HIDE DEF more, less, c
      <4> QED
        BY <1>2, <2>3, <2>4, <4>2, <4>3 DEF Calls
    <3>4. /\ c.at = "claim" /\ c.claim = i /\ c.run = adv[k].run /\ c.copy = adv[k].copy
          /\ c.after = adv[k].after /\ c.excluded = adv[k].excluded /\ c.frozen = froze
      BY <1>2 DEF Calls
    <3> HIDE DEF c
    <3> QED
      BY <1>2, <3>2, <3>3, <3>4
  <2>6. /\ claims' \in [Positions -> ClaimRows]
        /\ \A j \in Positions :
             /\ claims'[j].unit = claims[j].unit /\ claims'[j].by = claims[j].by
             /\ claims'[j].here = claims[j].here /\ claims'[j].chunk = claims[j].chunk
             /\ (j # i \/ Dry(k)) => claims'[j].held = claims[j].held
             /\ (j = i /\ ~Dry(k)) => claims'[j].held = k
    BY <1>2, <2>1, <2>3 DEF ClaimRows
  <2>7. ProvTyped'
    BY <1>1, <2>5, <2>6 DEF ProvTyped
  <2>8. \A l \in ProvCallers : (AtWork(l)' <=> AtWork(l)) /\ (Dry(l)' <=> Dry(l))
    BY <1>3, <2>5 DEF AtWork, Dry
  <2>9. CopiesRight'
    BY <1>1, <2>5, <2>8 DEF CopiesRight
  <2>10. \A j \in Positions : Sourceless(j)' <=> Sourceless(j)
    BY <2>6 DEF Sourceless
  <2>11. ClaimsRight'
    <3>1. ASSUME NEW l \in ProvCallers, adv'[l].at = "claim"
          PROVE  /\ adv'[l].claim \in Positions
                 /\ ~Dry(l)' => /\ Sourceless(adv[l].claim)'
                               /\ claims'[adv'[l].claim].held = l
      <4>1. CASE l = k
        BY <2>3, <2>5, <2>6, <2>8, <2>10, <4>1 DEF Candidate, Sourceless
      <4>2. CASE l # k
        <5>1. adv'[l] = adv[l] /\ adv[l].claim \in Positions
          BY <2>5, <3>1, <4>2 DEF ClaimsRight
        <5>2. ASSUME ~Dry(l)
              PROVE  Sourceless(adv[l].claim)' /\ claims'[adv[l].claim].held = l
          <6>1. Sourceless(adv[l].claim) /\ claims[adv[l].claim].held = l /\ l # Nobody
            BY <3>1, <5>1, <5>2, ProvCallersAssumption DEF ClaimsRight
          <6>2. adv[l].claim # i \/ Dry(k)
            BY <2>3, <6>1
          <6>3. Sourceless(adv[l].claim)'
            BY <2>5, <2>6, <4>2, <5>1, <6>1 DEF Sourceless
          <6> QED
            BY <2>6, <5>1, <6>1, <6>2, <6>3
        <5> QED
          BY <2>8, <5>1, <5>2 DEF Sourceless
      <4> QED
        BY <4>1, <4>2
    <3>2. \A j \in Positions : claims'[j].by # NoRun =>
            claims'[j].unit # NoUnit /\ claims'[j].by \in DOMAIN runs'
      BY <1>1, <2>6 DEF ClaimsRight
    <3> QED
      BY <3>1, <3>2 DEF ClaimsRight
  <2>12. OneActive'
    BY <1>1 DEF OneActive, RunActive
  <2>13. ReportIsExact'
    <3>1. \A s \in DOMAIN runs : {j \in Positions : claims'[j].by = s} = {j \in Positions : claims[j].by = s}
      BY <2>6
    <3> QED
      BY <1>1, <3>1 DEF ReportIsExact
  <2>14. CompletedLeftNone'
    BY <1>1, <2>6 DEF CompletedLeftNone
  <2>15. CursorsRight'
    <3>1. \A s \in DOMAIN runs' : runs'[s].mode = "real" => Passed(runs[s], runs[s].cursor)'
      BY <1>1, <2>10 DEF CursorsRight, Passed
    <3>2. ASSUME NEW l \in ProvCallers, AtWork(l)', ~Dry(l)'
          PROVE  /\ Passed(adv[l].copy, adv[l].after)'
                 /\ adv'[l].excluded \subseteq adv'[l].copy.failures
                 /\ adv'[l].at = "claim" /\ ~adv'[l].frozen =>
                      Passed(adv[l].copy, adv[l].claim - 1)'
      <4>1. CASE l # k
        BY <2>5, <2>8, <2>10, <3>2, <4>1 DEF CursorsRight, Passed
      <4>2. CASE l = k
        <5>1. /\ Passed(adv[k].copy, adv[k].after)
              /\ adv[k].excluded \subseteq adv[k].copy.failures
          BY <2>8, <3>2, <4>2 DEF CursorsRight
        <5>2. ASSUME ~adv'[k].frozen, NEW j \in Positions, j <= i - 1, Sourceless(j)
              PROVE  j \in adv[k].copy.failures
          <6>1. ~GapBefore(k, i)
            BY <2>5, <2>8, <3>2, <4>2, <5>2
          <6>2. j < i /\ j \in Int /\ adv[k].after \in Int
            BY <1>2, <2>3, <5>2, PositionsAre DEF Calls
          <6>3. j \notin Wanted(k)
            BY <6>1, <6>2 DEF GapBefore
          <6>4. j <= adv[k].after \/ j \in adv[k].excluded
            BY <5>2, <6>2, <6>3 DEF Wanted, Candidate, Sourceless
          <6> QED
            BY <5>1, <5>2, <6>4 DEF Passed
        <5> QED
          BY <2>5, <2>10, <4>2, <5>1, <5>2 DEF Passed
      <4> QED
        BY <4>1, <4>2
    <3> QED
      BY <3>1, <3>2 DEF CursorsRight
  <2>16. RehearsalsRight'
    <3>1. \A l \in ProvCallers : Wanted(l)' = Wanted(l)
      BY <2>5, <2>6 DEF Wanted, Candidate
    <3>2. ASSUME NEW l \in ProvCallers, AtWork(l)', Dry(l)'
          PROVE  /\ ~adv'[l].frozen
                 /\ \A j \in Wanted(l) : j > adv'[l].copy.cursor
                 /\ adv'[l].at = "claim" => /\ adv'[l].claim > adv'[l].copy.cursor
                                            /\ \A j \in Wanted(l) : j >= adv'[l].claim
      <4>1. CASE l # k
        BY <2>5, <2>8, <3>2, <4>1 DEF RehearsalsRight
      <4>2. CASE l = k
        <5>1. Dry(k) /\ ~adv[k].frozen /\ \A j \in Wanted(k) : j > adv[k].copy.cursor
          BY <1>3, <2>8, <3>2, <4>2 DEF RehearsalsRight
        <5>2. Unlocked(k) = Wanted(k)
          BY <5>1 DEF Unlocked
        <5>3. \A j \in Wanted(k) : j >= i
          BY <2>2, <2>3, <5>2, PositionsAre DEF Wanted
        <5> QED
          BY <2>3, <2>5, <4>2, <5>1, <5>3
      <4> QED
        BY <4>1, <4>2
    <3> QED
      BY <1>1, <3>1, <3>2 DEF RehearsalsRight
  <2> QED
    BY <1>1, <2>6, <2>7, <2>9, <2>11, <2>12, <2>13, <2>14, <2>15, <2>16, TextsKept
<1> QED
  BY <1>4, <1>5

\* What an outcome does to the run row.
LEMMA CountedRow ==
  ASSUME ProvRight, NEW k \in ProvCallers, adv[k].at = "claim", NEW bucket \in Buckets
  PROVE  LET row == adv[k].copy
             new == Counted(k, bucket)
             i == adv[k].claim
         IN  /\ row \in RunRows /\ new \in RunRows /\ row.status = "running"
             /\ new.mode = row.mode /\ new.status = row.status
             /\ new.processed = row.processed + 1
             /\ \A b \in Buckets :
                  new.count[b] = IF b = bucket THEN row.count[b] + 1 ELSE row.count[b]
             /\ new.cursor = IF adv[k].frozen THEN row.cursor ELSE i
             /\ new.failures = IF bucket \in {"skipped_unresolvable", "failed"}
                               THEN row.failures \cup {i} ELSE row.failures
             /\ \A j \in Positions :
                  new.seen[j] = IF j = i /\ row.mode = "dry_run" THEN row.seen[j] + 1
                                ELSE row.seen[j]
<1> USE DEF ProvRight
<1> DEFINE row == adv[k].copy
           new == Counted(k, bucket)
           i == adv[k].claim
<1>1. row \in RunRows /\ row.status = "running"
  <2>1. /\ adv[k].run \in DOMAIN runs /\ runs[adv[k].run] = row /\ row.status = "running"
    BY DEF CopiesRight, AtWork
  <2>2. runs \in Seq(RunRows)
    BY DEF ProvTyped
  <2> HIDE DEF row
  <2> QED
    BY <2>1, <2>2
<1>2. i \in Positions /\ i \in 0..Len(OldClaims)
  BY PositionsAre DEF ClaimsRight
<1> DEFINE processed == row.processed + 1
           counts == [row.count EXCEPT ![bucket] = @ + 1]
           cursor == IF adv[k].frozen THEN row.cursor ELSE i
           failures == IF bucket \in {"skipped_unresolvable", "failed"}
                       THEN row.failures \cup {i} ELSE row.failures
           seen == [row.seen EXCEPT ![i] = IF row.mode = "dry_run" THEN @ + 1 ELSE @]
<1>3. /\ row.processed \in Nat /\ row.count \in [Buckets -> Nat] /\ row.cursor \in 0..Len(OldClaims)
      /\ row.failures \in SUBSET Positions /\ row.seen \in [Positions -> Nat]
  BY <1>1 DEF RunRows
<1>4. new = [row EXCEPT !.processed = processed, !.count = counts, !.cursor = cursor,
                        !.failures = failures, !.seen = seen]
  BY <1>1, <1>3 DEF Counted, RunRows
<1> HIDE DEF row, new, i
<1>5. /\ processed \in Nat /\ counts \in [Buckets -> Nat] /\ cursor \in 0..Len(OldClaims)
      /\ failures \in SUBSET Positions /\ seen \in [Positions -> Nat]
  <2>1. processed \in Nat /\ counts \in [Buckets -> Nat]
    BY <1>3
  <2>2. cursor \in 0..Len(OldClaims) /\ failures \in SUBSET Positions
    BY <1>2, <1>3
  <2>3. seen \in [Positions -> Nat]
    BY <1>2, <1>3
  <2> QED
    BY <2>1, <2>2, <2>3
<1>6. /\ \A b \in Buckets : counts[b] = IF b = bucket THEN row.count[b] + 1 ELSE row.count[b]
      /\ \A j \in Positions :
           seen[j] = IF j = i /\ row.mode = "dry_run" THEN row.seen[j] + 1 ELSE row.seen[j]
  BY <1>2, <1>3
<1>7. /\ new \in RunRows /\ new.mode = row.mode /\ new.status = row.status
      /\ new.processed = processed /\ new.count = counts /\ new.cursor = cursor
      /\ new.failures = failures /\ new.seen = seen
  <2> HIDE DEF processed, counts, cursor, failures, seen
  <2> QED
    BY <1>1, <1>4, <1>5 DEF RunRows
<1> QED
  BY <1>1, <1>6, <1>7 DEF row, new, i

\* A claim that keeps no source is excluded, and its outcome is a failure unless
\* the run is a rehearsal; one that gets a source is tied by the run.
LeftOut(k, bucket, excludes) ==
  LET i == adv[k].claim
  IN  /\ excludes
      /\ claims'[i].unit = claims[i].unit /\ claims'[i].by = claims[i].by
      /\ IF Dry(k) THEN claims' = claims ELSE bucket \in {"skipped_unresolvable", "failed"}
Tied(k, bucket, excludes) ==
  LET i == adv[k].claim
  IN  /\ ~excludes /\ ~Dry(k)
      /\ claims'[i].unit \in Keys /\ claims'[i].by = adv[k].run
      /\ bucket \in {"exact_chunk", "degraded_version", "missing_document_only"}

LEMMA NextClaimKeeps ==
  ASSUME ProvRight, NEW k \in ProvCallers, adv[k].at = "claim",
         NEW bucket \in Buckets, NEW excludes \in BOOLEAN,
         NextClaim(k, Counted(k, bucket), excludes),
         UNCHANGED <<docs, extr, purge>>,
         units' \in [Keys -> [life : Lives, text : BOOLEAN]],
         claims' \in [Positions -> ClaimRows],
         \A j \in Positions : /\ claims'[j].here = claims[j].here
                              /\ claims'[j].chunk = claims[j].chunk
                              /\ j # adv[k].claim => claims'[j] = claims[j],
         LeftOut(k, bucket, excludes) \/ Tied(k, bucket, excludes)
  PROVE  /\ ProvTyped' /\ CopiesRight' /\ ClaimsRight' /\ OneActive' /\ ReportIsExact'
         /\ CursorsRight' /\ CompletedLeftNone' /\ RehearsalsRight'
<1> USE DEF ProvRight
<1> DEFINE row == adv[k].copy
           new == Counted(k, bucket)
           i == adv[k].claim
           r == adv[k].run
<1>1. /\ row \in RunRows /\ new \in RunRows /\ row.status = "running"
      /\ new.mode = row.mode /\ new.status = row.status
      /\ new.processed = row.processed + 1
      /\ \A b \in Buckets : new.count[b] = IF b = bucket THEN row.count[b] + 1 ELSE row.count[b]
      /\ new.cursor = IF adv[k].frozen THEN row.cursor ELSE i
      /\ new.failures = IF bucket \in {"skipped_unresolvable", "failed"}
                        THEN row.failures \cup {i} ELSE row.failures
      /\ \A j \in Positions :
           new.seen[j] = IF j = i /\ row.mode = "dry_run" THEN row.seen[j] + 1 ELSE row.seen[j]
  BY CountedRow
<1>2. AtWork(k) /\ r \in DOMAIN runs /\ runs[r] = row /\ i \in Positions
  BY DEF AtWork, CopiesRight, ClaimsRight
<1>3. runs \in Seq(RunRows) /\ adv \in [ProvCallers -> Calls] /\ adv[k] \in Calls
  BY DEF ProvTyped
<1>4. /\ runs' = [runs EXCEPT ![r] = new]
      /\ adv' = [adv EXCEPT ![k].at = "pick", ![k].copy = new, ![k].claim = 0,
                   ![k].excluded = IF excludes THEN @ \cup {i} ELSE @]
  BY DEF NextClaim
<1> DEFINE excluded == IF excludes THEN adv[k].excluded \cup {i} ELSE adv[k].excluded
<1> HIDE DEF new, i, r, row
<1>5. /\ runs' \in Seq(RunRows) /\ DOMAIN runs' = DOMAIN runs /\ runs'[r] = new
      /\ \A s \in DOMAIN runs : s # r => runs'[s] = runs[s]
  BY <1>1, <1>2, <1>3, <1>4
<1>6. /\ adv' \in [ProvCallers -> Calls]
      /\ \A l \in ProvCallers : l # k => adv'[l] = adv[l]
      /\ adv'[k].at = "pick" /\ adv'[k].run = r /\ adv'[k].copy = new
      /\ adv'[k].after = adv[k].after /\ adv'[k].frozen = adv[k].frozen
      /\ adv'[k].excluded = excluded
  <2>1. excluded \in SUBSET Positions
    BY <1>2, <1>3 DEF Calls
  <2> DEFINE c == [adv[k] EXCEPT !.at = "pick", !.copy = new, !.claim = 0, !.excluded = excluded]
  <2>2. adv' = [adv EXCEPT ![k] = c]
    BY <1>3, <1>4 DEF Calls
  <2> HIDE DEF excluded
  <2>3. /\ c \in Calls /\ c.at = "pick" /\ c.run = adv[k].run /\ c.copy = new
        /\ c.after = adv[k].after /\ c.frozen = adv[k].frozen /\ c.excluded = excluded
    BY <1>1, <1>3, <2>1 DEF Calls
  <2> HIDE DEF c
  <2> QED
    BY <1>3, <2>2, <2>3 DEF r
<1>7. ProvTyped'
  BY <1>5, <1>6 DEF ProvTyped
<1>8. \A l \in ProvCallers : AtWork(l)' <=> AtWork(l)
  BY <1>2, <1>6 DEF AtWork
<1>9. \A l \in ProvCallers : Dry(l)' <=> Dry(l)
  BY <1>1, <1>6 DEF Dry, row
<1>10. \A j \in Positions : Sourceless(j)' => Sourceless(j)
  <2>1. ASSUME NEW j \in Positions, Sourceless(j)'
        PROVE  Sourceless(j)
    <3>1. CASE j # i
      <4>1. claims'[j] = claims[j]
        BY <3>1 DEF i
      <4> QED
        BY <2>1, <4>1 DEF Sourceless
    <3>2. CASE j = i
      <4>1. ~Tied(k, bucket, excludes)
        BY <2>1, <3>2, PositionsAre DEF Tied, Sourceless, i
      <4> QED
        BY <2>1, <3>2, <4>1 DEF LeftOut, Sourceless, i
    <3> QED
      BY <3>1, <3>2
  <2> QED
    BY <2>1
<1>11. ~Dry(k) => Sourceless(i) /\ claims[i].held = k /\ claims[i].by = NoRun
  BY <1>2 DEF ClaimsRight, Sourceless, i
<1>12. CopiesRight'
  <2>1. ASSUME NEW l \in ProvCallers
        PROVE  IF AtWork(l)'
               THEN /\ adv'[l].run \in DOMAIN runs'
                    /\ runs'[adv'[l].run] = adv'[l].copy
                    /\ adv'[l].copy.status = "running"
               ELSE adv'[l].run = NoRun
    <3>1. CASE l = k
      BY <1>1, <1>2, <1>5, <1>6, <1>8, <3>1
    <3>2. CASE l # k
      <4>1. AtWork(l) => adv[l].run # r
        BY <1>2, <3>2 DEF CopiesRight, r
      <4> QED
        BY <1>5, <1>6, <1>8, <3>2, <4>1 DEF CopiesRight
    <3> QED
      BY <3>1, <3>2
  <2>2. \A l, m \in ProvCallers : AtWork(l)' /\ AtWork(m)' /\ adv'[l].run = adv'[m].run => l = m
    BY <1>6, <1>8 DEF CopiesRight, r
  <2> QED
    BY <2>1, <2>2 DEF CopiesRight
<1>13. ClaimsRight'
  <2>1. ASSUME NEW l \in ProvCallers, adv'[l].at = "claim"
        PROVE  /\ adv'[l].claim \in Positions
               /\ ~Dry(l)' => /\ Sourceless(adv[l].claim)'
                              /\ claims'[adv'[l].claim].held = l
    <3>1. l # k /\ adv'[l] = adv[l] /\ adv[l].claim \in Positions
      BY <1>6, <2>1 DEF ClaimsRight
    <3>2. ASSUME ~Dry(l)
          PROVE  Sourceless(adv[l].claim)' /\ claims'[adv[l].claim].held = l
      <4>1. Sourceless(adv[l].claim) /\ claims[adv[l].claim].held = l
        BY <2>1, <3>1, <3>2 DEF ClaimsRight
      <4>2. claims'[adv[l].claim] = claims[adv[l].claim]
        <5>1. CASE Dry(k)
          BY <5>1 DEF LeftOut, Tied
        <5>2. CASE ~Dry(k)
          BY <1>11, <3>1, <4>1, <5>2 DEF i
        <5> QED
          BY <5>1, <5>2
      <4> QED
        BY <3>1, <4>1, <4>2 DEF Sourceless
    <3> QED
      BY <1>9, <3>1, <3>2 DEF Sourceless
  <2>2. ASSUME NEW j \in Positions, claims'[j].by # NoRun
        PROVE  claims'[j].unit # NoUnit /\ claims'[j].by \in DOMAIN runs'
    <3>1. CASE j # i
      BY <1>5, <2>2, <3>1 DEF ClaimsRight, i
    <3>2. CASE j = i /\ LeftOut(k, bucket, excludes)
      BY <1>5, <2>2, <3>2 DEF ClaimsRight, LeftOut, i
    <3>3. CASE j = i /\ Tied(k, bucket, excludes)
      BY <1>2, <1>5, <3>3, PositionsAre DEF Tied, i, r
    <3> QED
      BY <3>1, <3>2, <3>3
  <2> QED
    BY <2>1, <2>2 DEF ClaimsRight
<1>14. OneActive'
  BY <1>1, <1>2, <1>5 DEF OneActive, RunActive
<1>15. ReportIsExact'
  <2> SUFFICES ASSUME NEW s \in DOMAIN runs
               PROVE  LET now == runs'[s]
                          linked == {j \in Positions : claims'[j].by = s}
                      IN  /\ now.processed = now.count["exact_chunk"] + now.count["degraded_version"]
                               + now.count["missing_document_only"]
                               + now.count["skipped_unresolvable"] + now.count["failed"]
                          /\ now.mode = "real" =>
                               now.count["exact_chunk"] + now.count["degraded_version"]
                                 + now.count["missing_document_only"] = Cardinality(linked)
    BY <1>5 DEF ReportIsExact
  <2> DEFINE old == {j \in Positions : claims[j].by = s}
             linked == {j \in Positions : claims'[j].by = s}
  <2>1. s # NoRun /\ IsFiniteSet(old)
    <3>1. s # NoRun
      BY <1>3 DEF NoRun
    <3>2. IsFiniteSet(old)
      BY PositionsAre, FS_Subset
    <3> QED
      BY <3>1, <3>2
  <2>2. /\ runs[s].processed = runs[s].count["exact_chunk"] + runs[s].count["degraded_version"]
                               + runs[s].count["missing_document_only"]
                               + runs[s].count["skipped_unresolvable"] + runs[s].count["failed"]
        /\ runs[s].mode = "real" =>
             runs[s].count["exact_chunk"] + runs[s].count["degraded_version"]
                                 + runs[s].count["missing_document_only"] = Cardinality(old)
    BY DEF ReportIsExact
  <2>3. CASE s # r
    <3>1. linked = old
      BY <1>2, <1>11, <2>1, <2>3 DEF LeftOut, Tied, i, r
    <3> QED
      BY <1>5, <2>2, <2>3, <3>1
  <2>4. CASE s = r
    <3>1. runs'[s] = new /\ runs[s] = row
      BY <1>2, <1>5, <2>4
    <3>2. /\ \A b \in Buckets : row.count[b] \in Nat
          /\ row.processed \in Nat
      BY <1>1 DEF RunRows
    <3>a. /\ bucket \in {"exact_chunk", "degraded_version", "missing_document_only",
                        "skipped_unresolvable", "failed"}
          /\ row.count["exact_chunk"] \in Nat /\ row.count["degraded_version"] \in Nat
          /\ row.count["missing_document_only"] \in Nat
          /\ row.count["skipped_unresolvable"] \in Nat /\ row.count["failed"] \in Nat
      BY <3>2 DEF Buckets
    <3>b. /\ new.count["exact_chunk"] = IF bucket = "exact_chunk"
               THEN row.count["exact_chunk"] + 1 ELSE row.count["exact_chunk"]
          /\ new.count["degraded_version"] = IF bucket = "degraded_version"
               THEN row.count["degraded_version"] + 1 ELSE row.count["degraded_version"]
          /\ new.count["missing_document_only"] = IF bucket = "missing_document_only"
               THEN row.count["missing_document_only"] + 1 ELSE row.count["missing_document_only"]
          /\ new.count["skipped_unresolvable"] = IF bucket = "skipped_unresolvable"
               THEN row.count["skipped_unresolvable"] + 1 ELSE row.count["skipped_unresolvable"]
          /\ new.count["failed"] = IF bucket = "failed"
               THEN row.count["failed"] + 1 ELSE row.count["failed"]
      BY <1>1 DEF Buckets
    <3>c. new.processed = row.processed + 1 /\ new.mode = row.mode
      BY <1>1
    <3>3. new.processed = new.count["exact_chunk"] + new.count["degraded_version"]
                               + new.count["missing_document_only"]
                               + new.count["skipped_unresolvable"] + new.count["failed"]
      BY <2>2, <3>1, <3>2, <3>a, <3>b, <3>c
    <3>4. CASE new.mode = "real" /\ LeftOut(k, bucket, excludes)
      <4>1. bucket \in {"skipped_unresolvable", "failed"}
        BY <1>1, <3>4 DEF LeftOut, Dry, row
      <4>2. linked = old
        BY <3>4 DEF LeftOut, i
      <4> QED
        BY <1>1, <2>2, <3>1, <3>3, <4>1, <4>2 DEF Buckets
    <3>5. CASE new.mode = "real" /\ Tied(k, bucket, excludes)
      <4>1. linked = old \cup {i} /\ i \notin old
        BY <1>2, <1>11, <2>1, <2>4, <3>5 DEF Tied, i, r
      <4>2. Cardinality(linked) = Cardinality(old) + 1
        BY <2>1, <4>1, FS_AddElement
      <4>3. bucket \in {"exact_chunk", "degraded_version", "missing_document_only"}
        BY <3>5 DEF Tied
      <4> HIDE DEF linked
      <4>4. new.count["exact_chunk"] + new.count["degraded_version"]
                                 + new.count["missing_document_only"] = Cardinality(old) + 1
        <5>1. Cardinality(old) \in Nat
          BY <2>1, FS_CardinalityType DEF old
        <5>2. row.count["exact_chunk"] + row.count["degraded_version"]
                + row.count["missing_document_only"] = Cardinality(old)
          BY <2>2, <3>1, <3>5, <3>c
        <5> DEFINE n == Cardinality(old)
                   a == row.count["exact_chunk"]
                   b == row.count["degraded_version"]
                   c == row.count["missing_document_only"]
                   a2 == new.count["exact_chunk"]
                   b2 == new.count["degraded_version"]
                   c2 == new.count["missing_document_only"]
        <5>3. /\ n \in Nat /\ a \in Nat /\ b \in Nat /\ c \in Nat /\ a + b + c = n
              /\ \/ a2 = a + 1 /\ b2 = b /\ c2 = c
                 \/ a2 = a /\ b2 = b + 1 /\ c2 = c
                 \/ a2 = a /\ b2 = b /\ c2 = c + 1
          <6> HIDE DEF n
          <6>1. n \in Nat /\ a \in Nat /\ b \in Nat /\ c \in Nat /\ a + b + c = n
            BY <3>a, <5>1, <5>2 DEF n
          <6>2. \/ a2 = a + 1 /\ b2 = b /\ c2 = c
                \/ a2 = a /\ b2 = b + 1 /\ c2 = c
                \/ a2 = a /\ b2 = b /\ c2 = c + 1
            BY <3>b, <4>3
          <6> QED
            BY <6>1, <6>2
        <5> HIDE DEF n, a, b, c, a2, b2, c2
        <5>4. a2 + b2 + c2 = n + 1
          BY <5>3
        <5> QED
          BY <5>4 DEF n, a2, b2, c2
      <4> QED
        BY <3>1, <3>3, <4>2, <4>4 DEF linked
    <3> QED
      BY <3>1, <3>3, <3>4, <3>5
  <2> QED
    BY <2>3, <2>4
<1>16. row.failures \subseteq new.failures
  BY <1>1
<1>17. ~Dry(k) /\ excludes => i \in new.failures
  BY <1>1 DEF LeftOut, Tied
<1>18. CursorsRight'
  <2>1. ASSUME NEW s \in DOMAIN runs', runs'[s].mode = "real"
        PROVE  Passed(runs[s], runs[s].cursor)'
    <3>1. CASE s # r
      BY <1>5, <1>10, <2>1, <3>1 DEF CursorsRight, Passed
    <3>2. CASE s = r
      <4>1. row.mode = "real" /\ ~Dry(k)
        BY <1>1, <1>5, <2>1, <3>2 DEF Dry, row
      <4>2. Passed(row, row.cursor)
        BY <1>2, <4>1 DEF CursorsRight
      <4>3. CASE adv[k].frozen
        BY <1>1, <1>5, <1>10, <1>16, <3>2, <4>2, <4>3 DEF Passed
      <4>4. CASE ~adv[k].frozen
        <5>1. Passed(row, i - 1)
          BY <1>2, <4>1, <4>4 DEF CursorsRight, row, i
        <5>2. ASSUME NEW j \in Positions, j <= i, Sourceless(j)'
              PROVE  j \in new.failures
          <6>1. CASE j = i
            <7>1. ~Tied(k, bucket, excludes)
              BY <5>2, <6>1, PositionsAre DEF Tied, Sourceless, i
            <7> QED
              BY <1>17, <4>1, <6>1, <7>1 DEF LeftOut
          <6>2. CASE j # i
            <7>1. j <= i - 1 /\ Sourceless(j)
              BY <1>2, <1>10, <5>2, <6>2, PositionsAre
            <7> QED
              BY <1>16, <5>1, <7>1 DEF Passed
          <6> QED
            BY <6>1, <6>2
        <5> QED
          BY <1>1, <1>5, <3>2, <4>4, <5>2 DEF Passed
      <4> QED
        BY <4>3, <4>4
    <3> QED
      BY <3>1, <3>2
  <2>2. ASSUME NEW l \in ProvCallers, AtWork(l)', ~Dry(l)'
        PROVE  /\ Passed(adv[l].copy, adv[l].after)'
               /\ adv'[l].excluded \subseteq adv'[l].copy.failures
               /\ adv'[l].at = "claim" /\ ~adv'[l].frozen =>
                    Passed(adv[l].copy, adv[l].claim - 1)'
    <3>1. CASE l # k
      BY <1>6, <1>8, <1>9, <1>10, <2>2, <3>1 DEF CursorsRight, Passed
    <3>2. CASE l = k
      <4>1. Passed(row, adv[k].after) /\ adv[k].excluded \subseteq row.failures
        BY <1>2, <1>9, <2>2, <3>2 DEF CursorsRight, row
      <4>2. Passed(adv[k].copy, adv[k].after)'
        BY <1>6, <1>10, <1>16, <4>1 DEF Passed
      <4>3. excluded \subseteq new.failures
        BY <1>9, <1>16, <1>17, <2>2, <3>2, <4>1
      <4> QED
        BY <1>6, <3>2, <4>2, <4>3
    <3> QED
      BY <3>1, <3>2
  <2> QED
    BY <2>1, <2>2 DEF CursorsRight
<1>19. CompletedLeftNone'
  <2>1. \A j \in Positions : claims'[j].here /\ claims'[j].unit = NoUnit =>
          claims[j].here /\ claims[j].unit = NoUnit
    BY <1>10 DEF Sourceless
  <2>2. new.status # "completed"
    BY <1>1
  <2> QED
    BY <1>5, <2>1, <2>2 DEF CompletedLeftNone
<1>20. RehearsalsRight'
  <2>1. \A l \in ProvCallers : l # k => Wanted(l)' \subseteq Wanted(l)
    BY <1>6, <1>10 DEF Wanted, Candidate, Sourceless
  <2>2. ASSUME Dry(k)
        PROVE  /\ ~adv[k].frozen /\ i > row.cursor /\ row.mode = "dry_run"
               /\ \A j \in Wanted(k)' : j \in Wanted(k) /\ j # i
               /\ \A j \in Wanted(k) : j >= i
    <3>1. /\ ~adv[k].frozen /\ i > row.cursor /\ row.mode = "dry_run"
          /\ \A j \in Wanted(k) : j >= i
      BY <1>2, <2>2 DEF RehearsalsRight, Dry, row, i
    <3>2. claims' = claims /\ excludes
      BY <2>2 DEF LeftOut, Tied
    <3> QED
      BY <1>6, <3>1, <3>2 DEF Wanted, Candidate
  <2>3. ASSUME NEW s \in DOMAIN runs', runs'[s].mode = "dry_run", NEW j \in Positions
        PROVE  /\ runs'[s].seen[j] <= 1
               /\ j > runs'[s].cursor => runs'[s].seen[j] = 0
    <3>1. CASE s # r
      BY <1>5, <2>3, <3>1 DEF RehearsalsRight
    <3>2. CASE s = r
      <4>1. row.mode = "dry_run" /\ Dry(k) /\ runs'[s] = new
        BY <1>1, <1>5, <2>3, <3>2 DEF Dry, row
      <4>2. /\ row.seen[j] <= 1
            /\ j > row.cursor => row.seen[j] = 0
            /\ i > row.cursor => row.seen[i] = 0
        BY <1>2, <4>1 DEF RehearsalsRight
      <4>3. new.cursor = i /\ i > row.cursor
        BY <1>1, <2>2, <4>1
      <4>4. i \in Int /\ j \in Int /\ row.cursor \in Int /\ row.seen[j] \in Nat
        BY <1>1, <1>2, PositionsAre DEF RunRows
      <4>5. new.seen[j] = IF j = i THEN row.seen[j] + 1 ELSE row.seen[j]
        BY <1>1, <4>1
      <4>6. CASE j = i
        BY <4>1, <4>2, <4>3, <4>4, <4>5, <4>6
      <4>7. CASE j # i
        BY <4>1, <4>2, <4>3, <4>4, <4>5, <4>7
      <4> QED
        BY <4>6, <4>7
    <3> QED
      BY <3>1, <3>2
  <2>4. ASSUME NEW l \in ProvCallers, AtWork(l)', Dry(l)'
        PROVE  /\ ~adv'[l].frozen
               /\ \A j \in Wanted(l)' : j > adv'[l].copy.cursor
               /\ adv'[l].at = "claim" => /\ adv'[l].claim > adv'[l].copy.cursor
                                          /\ \A j \in Wanted(l)' : j >= adv'[l].claim
    <3>1. CASE l # k
      BY <1>6, <1>8, <1>9, <2>1, <2>4, <3>1 DEF RehearsalsRight
    <3>2. CASE l = k
      <4>1. Dry(k) /\ new.cursor = i
        BY <1>1, <1>9, <2>2, <2>4, <3>2
      <4>2. \A j \in Wanted(k)' : j > i
        BY <1>2, <2>2, <4>1, PositionsAre DEF Wanted
      <4> QED
        BY <1>6, <2>2, <3>2, <4>1, <4>2
    <3> QED
      BY <3>1, <3>2
  <2> QED
    BY <2>3, <2>4 DEF RehearsalsRight
<1> QED
  BY <1>7, <1>12, <1>13, <1>14, <1>15, <1>18, <1>19, <1>20

LEMMA ReleasedClaim ==
  ASSUME ProvTyped, NEW i \in Positions, claims' = [claims EXCEPT ![i].held = Nobody]
  PROVE  /\ claims' \in [Positions -> ClaimRows]
         /\ claims'[i].unit = claims[i].unit /\ claims'[i].by = claims[i].by
         /\ \A j \in Positions : /\ claims'[j].here = claims[j].here
                                 /\ claims'[j].chunk = claims[j].chunk
                                 /\ j # i => claims'[j] = claims[j]
<1>1. claims \in [Positions -> ClaimRows]
  BY DEF ProvTyped
<1> QED
  BY <1>1 DEF ClaimRows

LEMMA LeavesOutKeeps ==
  ASSUME ProvRight, NEW k \in ProvCallers,
         OnlyCounts(k) \/ RefuseUnit(k) \/ ClaimAborted(k)
  PROVE  ProvRight'
<1> USE DEF ProvRight
<1> DEFINE i == adv[k].claim
           key == Resolve(i)
<1>1. /\ adv[k].at = "claim" /\ UNCHANGED <<docs, units, extr, purge>>
      /\ claims' = IF Dry(k) THEN claims ELSE [claims EXCEPT ![i].held = Nobody]
  BY DEF OnlyCounts, RefuseUnit, ClaimAborted, Deadlocked
<1>2. i \in Positions /\ units' \in [Keys -> [life : Lives, text : BOOLEAN]]
      /\ claims \in [Positions -> ClaimRows]
  BY <1>1 DEF ClaimsRight, ProvTyped
<1>3. PICK bucket \in Buckets :
        /\ NextClaim(k, Counted(k, bucket), TRUE)
        /\ ~Dry(k) => bucket \in {"skipped_unresolvable", "failed"}
  <2>1. CASE OnlyCounts(k)
    <3> DEFINE b == IF key = NoUnit THEN "skipped_unresolvable" ELSE BucketOf(key)
    <3>1. NextClaim(k, Counted(k, b), TRUE) /\ (Dry(k) \/ key = NoUnit)
      BY <2>1 DEF OnlyCounts
    <3>2. b \in Buckets
      BY <1>2, ResolveTyped DEF Buckets
    <3>3. ~Dry(k) => b = "skipped_unresolvable"
      BY <3>1
    <3> HIDE DEF b
    <3> QED
      BY <3>1, <3>2, <3>3
  <2>2. CASE RefuseUnit(k) \/ ClaimAborted(k)
    <3>1. NextClaim(k, Counted(k, "failed"), TRUE)
      BY <2>2 DEF RefuseUnit, ClaimAborted
    <3>2. "failed" \in Buckets
      BY DEF Buckets
    <3> QED
      BY <3>1, <3>2
  <2> QED
    BY <2>1, <2>2
<1>4. /\ claims' \in [Positions -> ClaimRows]
      /\ claims'[i].unit = claims[i].unit /\ claims'[i].by = claims[i].by
      /\ \A j \in Positions : /\ claims'[j].here = claims[j].here
                              /\ claims'[j].chunk = claims[j].chunk
                              /\ j # i => claims'[j] = claims[j]
  <2>1. CASE Dry(k)
    BY <1>1, <1>2, <2>1
  <2>2. CASE ~Dry(k)
    BY <1>1, <1>2, <2>2, ReleasedClaim
  <2> QED
    BY <2>1, <2>2
<1>5. LeftOut(k, bucket, TRUE)
  BY <1>1, <1>3, <1>4 DEF LeftOut
<1>6. /\ ProvTyped' /\ CopiesRight' /\ ClaimsRight' /\ OneActive' /\ ReportIsExact'
      /\ CursorsRight' /\ CompletedLeftNone' /\ RehearsalsRight'
  BY <1>1, <1>2, <1>3, <1>4, <1>5, NextClaimKeeps
<1>7. TextsRight'
  BY <1>1, <1>4, TextsKept
<1> QED
  BY <1>6, <1>7

LEMMA LinkKeeps ==
  ASSUME ProvRight, NEW k \in ProvCallers, LinkClaim(k)
  PROVE  ProvRight'
<1> USE DEF ProvRight
<1> DEFINE i == adv[k].claim
           key == Resolve(i)
<1>1. /\ adv[k].at = "claim" /\ ~Dry(k) /\ UNCHANGED <<docs, extr, purge>>
      /\ key # NoUnit
      /\ claims' = [claims EXCEPT ![i].held = Nobody, ![i].unit = key, ![i].by = adv[k].run]
      /\ NextClaim(k, Counted(k, BucketOf(key)), FALSE)
      /\ units' = Created(key) \/ units' = units
  BY DEF LinkClaim
<1>2. /\ i \in Positions /\ Sourceless(i)
      /\ claims \in [Positions -> ClaimRows]
      /\ units \in [Keys -> [life : Lives, text : BOOLEAN]]
      /\ adv[k].run \in Nat
  BY <1>1 DEF ClaimsRight, ProvTyped, Calls
<1>3. /\ key \in Keys /\ key[2] = OldClaims[i].doc
      /\ key[1] = "document_chunk" => claims[i].chunk = "ok"
      /\ BucketOf(key) \in {"exact_chunk", "degraded_version", "missing_document_only"}
  BY <1>1, <1>2, ResolveTyped
<1> HIDE DEF key, i
<1>4. /\ claims' \in [Positions -> ClaimRows]
      /\ claims'[i].unit = key /\ claims'[i].by = adv[k].run
      /\ \A j \in Positions : /\ claims'[j].here = claims[j].here
                              /\ claims'[j].chunk = claims[j].chunk
                              /\ j # i => claims'[j] = claims[j]
  <2> DEFINE row == [claims[i] EXCEPT !.held = Nobody, !.unit = key, !.by = adv[k].run]
  <2>1. claims' = [claims EXCEPT ![i] = row]
    BY <1>1, <1>2 DEF ClaimRows
  <2>2. /\ row \in ClaimRows /\ row.unit = key /\ row.by = adv[k].run
        /\ row.here = claims[i].here /\ row.chunk = claims[i].chunk
    BY <1>2, <1>3 DEF ClaimRows
  <2> HIDE DEF row
  <2> QED
    BY <1>2, <2>1, <2>2
<1>5. units' \in [Keys -> [life : Lives, text : BOOLEAN]]
  <2> DEFINE made == [life |-> "active", text |-> key[1] = "document_chunk"]
  <2>1. made \in [life : Lives, text : BOOLEAN]
    <3>1. (key[1] = "document_chunk") \in BOOLEAN
      OBVIOUS
    <3> QED
      BY <3>1 DEF Lives
  <2>2. Created(key) = [units EXCEPT ![key] = made]
    BY DEF Created
  <2> HIDE DEF made
  <2> QED
    BY <1>1, <1>2, <2>1, <2>2
<1>6. BucketOf(key) \in Buckets
  BY <1>3 DEF Buckets
<1>7. Tied(k, BucketOf(key), FALSE)
  BY <1>1, <1>3, <1>4 DEF Tied, i
<1>8. /\ ProvTyped' /\ CopiesRight' /\ ClaimsRight' /\ OneActive' /\ ReportIsExact'
      /\ CursorsRight' /\ CompletedLeftNone' /\ RehearsalsRight'
  BY <1>1, <1>4, <1>5, <1>6, <1>7, NextClaimKeeps DEF i
<1>9. TextsRight'
  <2>1. \A q \in Keys : /\ units'[q].text => docs[q[2]] = "live"
                        /\ units'[q].text => units'[q].life \in {"active", "revoked"}
    <3>1. \A q \in Keys : /\ units[q].text => docs[q[2]] = "live"
                          /\ units[q].text => units[q].life \in {"active", "revoked"}
      BY DEF TextsRight
    <3>2. key[1] = "document_chunk" => docs[key[2]] = "live"
      BY <1>2, <1>3 DEF TextsRight, Sourceless
    <3>3. ASSUME units' = Created(key), NEW q \in Keys, units'[q].text
          PROVE  docs[q[2]] = "live" /\ units'[q].life \in {"active", "revoked"}
      <4>1. CASE q = key
        BY <1>2, <3>2, <3>3, <4>1 DEF Created
      <4>2. CASE q # key
        BY <1>2, <3>1, <3>3, <4>2 DEF Created
      <4> QED
        BY <4>1, <4>2
    <3> QED
      BY <1>1, <3>1, <3>3
  <2>2. \A j \in Positions : claims'[j].here /\ claims'[j].chunk = "ok" =>
                               docs[OldClaims[j].doc] = "live"
    BY <1>4 DEF TextsRight
  <2> QED
    BY <1>1, <2>1, <2>2 DEF TextsRight, DocLocked
<1> QED
  BY <1>8, <1>9

LEMMA EndsKeeps ==
  ASSUME ProvRight, NEW k \in ProvCallers, BatchEnds(k)
  PROVE  ProvRight'
<1> USE DEF ProvRight
<1> DEFINE r == adv[k].run
           new == [adv[k].copy EXCEPT !.status = IF NothingLeft(k) THEN "completed" ELSE @]
<1>1. /\ UNCHANGED <<docs, units, claims, extr, purge>> /\ adv[k].at = "end"
      /\ runs' = [runs EXCEPT ![r] = new] /\ adv' = [adv EXCEPT ![k] = NoCall]
  BY DEF BatchEnds
<1>2. /\ AtWork(k) /\ r \in DOMAIN runs /\ runs[r] = adv[k].copy /\ runs[r].status = "running"
      /\ runs \in Seq(RunRows)
  BY <1>1 DEF AtWork, CopiesRight, ProvTyped
<1>3. /\ adv' \in [ProvCallers -> Calls]
      /\ ~AtWork(k)' /\ adv'[k].run = NoRun /\ adv'[k].at = "idle"
      /\ \A l \in ProvCallers : l # k => adv'[l] = adv[l] /\ (AtWork(l)' <=> AtWork(l))
  BY <1>1, IdleCall
<1>4. /\ new \in RunRows /\ new.mode = runs[r].mode /\ new.processed = runs[r].processed
      /\ new.count = runs[r].count /\ new.cursor = runs[r].cursor
      /\ new.failures = runs[r].failures /\ new.seen = runs[r].seen
      /\ new.status = IF NothingLeft(k) THEN "completed" ELSE "running"
  <2>1. runs[r] \in RunRows
    BY <1>2
  <2> DEFINE status == IF NothingLeft(k) THEN "completed" ELSE "running"
  <2>2. new = [runs[r] EXCEPT !.status = status]
    BY <1>2, <2>1 DEF RunRows
  <2>3. status \in {"completed", "running"}
    OBVIOUS
  <2> HIDE DEF new, status, r
  <2>4. /\ new \in RunRows /\ new.mode = runs[r].mode /\ new.processed = runs[r].processed
        /\ new.count = runs[r].count /\ new.cursor = runs[r].cursor
        /\ new.failures = runs[r].failures /\ new.seen = runs[r].seen
        /\ new.status = status
    BY <2>1, <2>2, <2>3 DEF RunRows
  <2> QED
    BY <2>4 DEF status
<1> HIDE DEF new, r
<1>5. /\ runs' \in Seq(RunRows) /\ DOMAIN runs' = DOMAIN runs /\ runs'[r] = new
      /\ \A s \in DOMAIN runs : s # r => runs'[s] = runs[s]
  BY <1>1, <1>2, <1>4
<1>6. \A s \in DOMAIN runs :
        /\ runs'[s].mode = runs[s].mode /\ runs'[s].processed = runs[s].processed
        /\ runs'[s].count = runs[s].count /\ runs'[s].cursor = runs[s].cursor
        /\ runs'[s].failures = runs[s].failures /\ runs'[s].seen = runs[s].seen
        /\ s # r => runs'[s].status = runs[s].status
  BY <1>4, <1>5
<1>7. ProvTyped'
  BY <1>1, <1>3, <1>5 DEF ProvTyped
<1>8. \A l \in ProvCallers : AtWork(l) /\ l # k => adv[l].run # r
  BY <1>2 DEF CopiesRight, r
<1>9. CopiesRight'
  BY <1>3, <1>5, <1>8 DEF CopiesRight
<1>10. ClaimsRight'
  BY <1>1, <1>3, <1>5 DEF ClaimsRight, Sourceless, Dry
<1>11. OneActive'
  BY <1>2, <1>5, <1>6 DEF OneActive, RunActive
<1>12. ReportIsExact'
  <2>1. \A s \in DOMAIN runs : {i \in Positions : claims'[i].by = s} = {i \in Positions : claims[i].by = s}
    BY <1>1
  <2>2. ASSUME NEW s \in DOMAIN runs
        PROVE  LET row == runs'[s]
                   linked == {i \in Positions : claims'[i].by = s}
               IN  /\ row.processed = row.count["exact_chunk"] + row.count["degraded_version"]
                        + row.count["missing_document_only"]
                        + row.count["skipped_unresolvable"] + row.count["failed"]
                   /\ row.mode = "real" =>
                        row.count["exact_chunk"] + row.count["degraded_version"]
                          + row.count["missing_document_only"] = Cardinality(linked)
    <3>1. /\ runs'[s].mode = runs[s].mode /\ runs'[s].processed = runs[s].processed
          /\ runs'[s].count = runs[s].count
      BY <1>6
    <3> QED
      BY <2>1, <3>1 DEF ReportIsExact
  <2> QED
    BY <1>5, <2>2 DEF ReportIsExact
<1>13. CursorsRight'
  <2>1. \A s \in DOMAIN runs' : runs'[s].mode = "real" => Passed(runs[s], runs[s].cursor)'
    BY <1>1, <1>5, <1>6 DEF CursorsRight, Passed, Sourceless
  <2>2. ASSUME NEW l \in ProvCallers, AtWork(l)', ~Dry(l)'
        PROVE  /\ Passed(adv[l].copy, adv[l].after)'
               /\ adv'[l].excluded \subseteq adv'[l].copy.failures
               /\ adv'[l].at = "claim" /\ ~adv'[l].frozen =>
                    Passed(adv[l].copy, adv[l].claim - 1)'
    BY <1>1, <1>3, <2>2 DEF CursorsRight, Passed, Sourceless, Dry
  <2> QED
    BY <2>1, <2>2 DEF CursorsRight
<1>14. CompletedLeftNone'
  <2> SUFFICES ASSUME NEW s \in DOMAIN runs, runs'[s].status = "completed", runs'[s].mode = "real",
                      NEW i \in Positions, claims'[i].here /\ claims'[i].unit = NoUnit
               PROVE  i \in runs'[s].failures
    BY <1>5 DEF CompletedLeftNone
  <2>1. CASE s # r
    BY <1>1, <1>6, <2>1 DEF CompletedLeftNone
  <2>2. CASE s = r
    <3>1. NothingLeft(k) /\ runs[r].mode = "real"
      BY <1>4, <1>5, <1>6, <2>2
    <3>2. ~Candidate(i, runs[r].cursor)
      BY <1>2, <3>1 DEF NothingLeft, Dry
    <3>3. i <= runs[r].cursor /\ Sourceless(i)
      <4>1. runs[r] \in RunRows
        BY <1>2
      <4> QED
        BY <1>1, <3>2, <4>1, PositionsAre DEF Candidate, Sourceless, RunRows
    <3>4. i \in runs[r].failures
      BY <1>2, <3>1, <3>3 DEF CursorsRight, Passed
    <3> QED
      BY <1>6, <2>2, <3>4
  <2> QED
    BY <2>1, <2>2
<1>15. RehearsalsRight'
  <2>1. \A l \in ProvCallers : l # k => Wanted(l)' = Wanted(l)
    BY <1>1, <1>3 DEF Wanted, Candidate
  <2>2. \A s \in DOMAIN runs' : runs'[s].mode = "dry_run" =>
       \A i \in Positions : /\ runs'[s].seen[i] <= 1
                            /\ i > runs'[s].cursor => runs'[s].seen[i] = 0
    BY <1>5, <1>6 DEF RehearsalsRight
  <2> QED
    BY <1>3, <2>1, <2>2 DEF RehearsalsRight, Dry
<1> QED
  BY <1>1, <1>7, <1>9, <1>10, <1>11, <1>12, <1>13, <1>14, <1>15, TextsKept

-----------------------------------------------------------------------------
(* The theorems                                                            *)

LEMMA ProvStarts == ProvInit => ProvRight
<1> SUFFICES ASSUME ProvInit PROVE ProvRight
  OBVIOUS
<1> USE PositionsAre, NoCallTyped DEF ProvInit
<1>1. ProvTyped
  <2>1. units \in [Keys -> [life : Lives, text : BOOLEAN]]
    BY DEF Lives
  <2>2. claims \in [Positions -> ClaimRows]
    <3>1. \A i \in Positions :
            [here |-> TRUE, chunk |-> OldClaims[i].chunk, unit |-> NoUnit,
             held |-> Nobody, by |-> NoRun, typed |-> FALSE, age |-> 0] \in ClaimRows
      BY DEF ClaimRows, NoRun
    <3> QED
      BY <3>1
  <2>3. runs \in Seq(RunRows) /\ adv \in [ProvCallers -> Calls]
    OBVIOUS
  <2> QED
    BY <2>1, <2>2, <2>3 DEF ProvTyped
<1>2. DOMAIN runs = {} /\ \A k \in ProvCallers : adv[k].at = "idle" /\ adv[k].run = NoRun
  OBVIOUS
<1>3. \A k \in ProvCallers : ~AtWork(k)
  BY <1>2 DEF AtWork
<1>4. CopiesRight /\ OneActive
  BY <1>2, <1>3 DEF CopiesRight, OneActive
<1>5. ReportIsExact /\ CompletedLeftNone
  BY <1>2 DEF ReportIsExact, CompletedLeftNone
<1>6. ClaimsRight
  BY <1>2 DEF ClaimsRight
<1>7. CursorsRight /\ RehearsalsRight
  BY <1>2, <1>3 DEF CursorsRight, RehearsalsRight
<1>8. TextsRight
  BY DEF TextsRight
<1> QED
  BY <1>1, <1>4, <1>5, <1>6, <1>7, <1>8 DEF ProvRight

LEMMA ProvSteps == ProvRight /\ [ProvNext]_provVars => ProvRight'
<1> SUFFICES ASSUME ProvRight, [ProvNext]_provVars PROVE ProvRight'
  OBVIOUS
<1>1. ASSUME NEW k \in ProvCallers,
             AdvanceStep(k) \/ LooksForRun(k) \/ CallDies(k) \/ ClaimAborted(k)
               \/ \E mode \in {"real", "dry_run"} : InsertsRun(k, mode)
      PROVE  ProvRight'
  BY <1>1, StartsKeeps, PickKeeps, LeavesOutKeeps, LinkKeeps, EndsKeeps, LooksKeeps,
     DiesKeeps, InsertsKeeps DEF AdvanceStep
<1>2. CASE \E r \in DOMAIN runs : CancelRun(r)
  BY <1>2, CancelKeeps
<1>3. CASE \E i \in Positions : TypeFlushed(i) \/ TypeCommitted(i)
  BY <1>3, TypesKeep
<1>4. CASE \E d \in ProvDocs : ReadChunk(d) \/ PurgeLocks(d)
  BY <1>4, ExtractionKeeps, PurgeKeeps
<1>5. CASE InsertClaims \/ CommitClaims \/ NoClaims \/ PurgeCommits \/ PurgeAborted
  BY <1>5, ExtractionKeeps, PurgeKeeps
<1>6. CASE \E key \in Keys : RevokeUnit(key) \/ RestoreUnit(key)
  BY <1>6, TransitionsKeep
<1>7. CASE EraseMemory
  BY <1>7, ErasureKeeps
<1>8. CASE UNCHANGED provVars
  <2>1. UNCHANGED <<docs, units, claims, runs, adv, extr, purge>>
    BY <1>8 DEF provVars
  <2>2. ProvTyped'
    BY <2>1 DEF ProvRight, ProvTyped
  <2>3. ClaimsShrink
    BY <2>1 DEF ClaimsShrink
  <2>4. TextsRight'
    BY <2>1, TextsKept
  <2> QED
    BY <2>1, <2>2, <2>3, <2>4, OthersKeepCalls DEF ProvRight
<1> QED
  BY <1>1, <1>2, <1>3, <1>4, <1>5, <1>6, <1>7, <1>8 DEF ProvNext

LEMMA ProvAlwaysRight == ProvSpec => []ProvRight
  BY ProvStarts, ProvSteps, PTL DEF ProvSpec

LEMMA OneActiveAtMost == ASSUME ProvTyped, OneActive PROVE OneActiveRun
<1> DEFINE S == {r \in DOMAIN runs : RunActive(r)}
<1>1. CASE S = {}
  BY <1>1, FS_EmptySet DEF OneActiveRun
<1>2. CASE S # {}
  <2>1. PICK r \in S : TRUE
    BY <1>2
  <2>2. S = {r}
    BY <2>1 DEF OneActive
  <2>3. Cardinality(S) = 1
    BY <2>2, FS_Singleton
  <2> QED
    BY <2>3 DEF OneActiveRun
<1> QED
  BY <1>1, <1>2

\* A completed run of the claim backfill left no claim out but its failures,
\* its counters say exactly what it linked, one run is at work at a time, a
\* rehearsal counts each claim once, and no unit keeps the text of a deleted
\* document (advance_backfill_run, purge_source, the triggers of 0019).
THEOREM ProvenanceHolds == ProvSpec => []ProvenanceInv
<1>1. ASSUME ProvRight
      PROVE  ProvenanceInv
  <2> USE <1>1 DEF ProvRight
  <2>1. ProvTypeOK
    <3>1. \A k \in Keys : /\ units[k].life \in Lives
                          /\ units[k].text => units[k].life \in {"active", "revoked"}
      BY DEF ProvTyped, TextsRight
    <3>2. \A i \in Positions : /\ claims[i].unit \in Keys \cup {NoUnit}
                               /\ claims[i].held \in ProvCallers \cup {Nobody, Types}
      BY DEF ProvTyped, ClaimRows
    <3>3. \A r \in DOMAIN runs :
            /\ runs[r].status \in {"pending", "running", "completed", "cancelled"}
            /\ runs[r].cursor \in 0..Len(OldClaims)
      <4>1. \A r \in DOMAIN runs : runs[r] \in RunRows
        BY DEF ProvTyped
      <4> QED
        BY <4>1 DEF RunRows
    <3> QED
      BY <3>1, <3>2, <3>3 DEF ProvTypeOK, ProvTyped
  <2>2. OneActiveRun
    BY OneActiveAtMost
  <2>3. RehearsalCountsOnce
    BY DEF RehearsalsRight, RehearsalCountsOnce
  <2>4. DeletedTextIsGone
    BY DEF TextsRight, DeletedTextIsGone
  <2> QED
    BY <2>1, <2>2, <2>3, <2>4 DEF ProvenanceInv
<1> QED
  BY <1>1, ProvAlwaysRight, PTL

\* A claim is tied only by the call that holds it, to a unit it finds active or
\* creates: LinkClaim is the only step that changes a claim's unit.
LEMMA LinksLiveStep ==
  ASSUME ProvRight, [ProvNext]_provVars, NEW i \in Positions, claims'[i].unit # claims[i].unit
  PROVE  units[claims'[i].unit].life \in {"absent", "active"}
<1>1. /\ claims \in [Positions -> ClaimRows]
  BY DEF ProvRight, ProvTyped
<1>2. CASE \E k \in ProvCallers : LinkClaim(k)
  <2>1. PICK k \in ProvCallers : LinkClaim(k)
    BY <1>2
  <2> DEFINE c == adv[k].claim
             key == Resolve(c)
  <2>2. /\ claims' = [claims EXCEPT ![c].held = Nobody, ![c].unit = key, ![c].by = adv[k].run]
        /\ units[key].life \in {"absent", "active"}
    BY <2>1 DEF LinkClaim, Usable
  <2> HIDE DEF c, key
  <2>3. claims'[i].unit \in {claims[i].unit, key}
    BY <1>1, <2>2 DEF ClaimRows
  <2> QED
    BY <2>2, <2>3
<1>3. CASE ~(\E k \in ProvCallers : LinkClaim(k))
  <2>1. claims'[i].unit = claims[i].unit
    <3>1. ASSUME NEW k \in ProvCallers,
                 AdvanceStep(k) \/ LooksForRun(k) \/ CallDies(k) \/ ClaimAborted(k)
                   \/ \E mode \in {"real", "dry_run"} : InsertsRun(k, mode)
          PROVE  claims'[i].unit = claims[i].unit
      <4>1. CASE \E r \in DOMAIN runs : AdvanceStarts(k, r)
        BY <1>1, <4>1 DEF AdvanceStarts, ClaimRows
      <4>2. CASE PickClaim(k)
        <5>1. \/ UNCHANGED claims
              \/ \E j : claims' = [claims EXCEPT ![j].held = k]
          BY <4>2 DEF PickClaim
        <5> QED
          BY <1>1, <5>1 DEF ClaimRows
      <4>3. CASE OnlyCounts(k) \/ RefuseUnit(k) \/ ClaimAborted(k)
        <5>1. \/ UNCHANGED claims
              \/ \E j : claims' = [claims EXCEPT ![j].held = Nobody]
          BY <4>3 DEF OnlyCounts, RefuseUnit, ClaimAborted
        <5> QED
          BY <1>1, <5>1 DEF ClaimRows
      <4>4. CASE CallDies(k)
        BY <1>1, <4>4 DEF CallDies, ClaimRows
      <4>5. CASE BatchEnds(k) \/ LooksForRun(k) \/ \E mode \in {"real", "dry_run"} : InsertsRun(k, mode)
        BY <4>5 DEF BatchEnds, LooksForRun, InsertsRun
      <4> QED
        BY <1>3, <3>1, <4>1, <4>2, <4>3, <4>4, <4>5 DEF AdvanceStep
    <3>2. ASSUME NEW j \in Positions, TypeFlushed(j) \/ TypeCommitted(j)
          PROVE  claims'[i].unit = claims[i].unit
      BY <1>1, <3>2 DEF TypeFlushed, TypeCommitted, ClaimRows
    <3>3. CASE PurgeCommits \/ EraseMemory
      BY <1>1, <3>3 DEF PurgeCommits, EraseMemory, ClaimRows
    <3>4. CASE \/ \E r \in DOMAIN runs : CancelRun(r)
               \/ \E d \in ProvDocs : ReadChunk(d) \/ PurgeLocks(d)
               \/ InsertClaims \/ CommitClaims \/ NoClaims \/ PurgeAborted
               \/ \E key \in Keys : RevokeUnit(key) \/ RestoreUnit(key)
               \/ UNCHANGED provVars
      <4>1. UNCHANGED claims
        BY <3>4 DEF CancelRun, ReadChunk, PurgeLocks, InsertClaims, CommitClaims, NoClaims,
           PurgeAborted, RevokeUnit, RestoreUnit, provVars
      <4> QED
        BY <4>1
    <3> QED
      BY <3>1, <3>2, <3>3, <3>4 DEF ProvNext
  <2> QED
    BY <2>1
<1> QED
  BY <1>2, <1>3

\* No claim is ever tied to a unit that was revoked or purged before the tie
\* (get_or_create_memory_source_unit, _apply).
THEOREM LinksAlwaysLive == ProvSpec => LinksAreLive
<1>1. ProvRight /\ [ProvNext]_provVars =>
        [\A i \in Positions : claims'[i].unit # claims[i].unit =>
           units[claims'[i].unit].life \in {"absent", "active"}]_provVars
  BY LinksLiveStep
<1> QED
  BY <1>1, ProvAlwaysRight, PTL DEF ProvSpec, LinksAreLive
=============================================================================
