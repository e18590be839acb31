----------------------- MODULE AgentCoordinationProofs -----------------------
(***************************************************************************)
(* Proofs about who works on what: of AgentCoordination, for any agents,   *)
(* assignments, groups and bounds, the states of the assignments and of    *)
(* their executions, and that write leases stay apart; then of Supervisor, *)
(* for any ticks, task lists and bounds, that the rows of a goal stay      *)
(* right while ticks hold parts of them in open transactions, and that     *)
(* only a task's own attempt completes it.                                 *)
(***************************************************************************)
EXTENDS AgentCoordination, Supervisor, WellFoundedInduction, TLAPS

Trees == {""} \cup UNION {Requests[w].trees : w \in Works}
Scopes == {{}} \cup UNION {Requests[w].scopes : w \in Works}
Places == {Cardinality(S) : S \in SUBSET Works}

WorkRows ==
  [status : WorkStatuses, agent : DOMAIN Agents, group : Groups \cup {NoGroup},
   started : BOOLEAN, ended : BOOLEAN, tree : Trees, granted : BOOLEAN, nth : Places]
LeaseRows ==
  [work : Works, holders : Seq(DOMAIN Agents) \ {<<>>}, tree : Trees, scope : Scopes,
   mode : Modes, status : {"active", "released"}, ttl : BOOLEAN, stale : BOOLEAN, at : Nat]
ExecRows ==
  [work : Works, state : {"running", "exited", "lost", "timeout", "cancelled"},
   ingest : {"pending", "ingested", "failed"}, seen : WorkStatuses \cup {"none"}]

WorkTable == [Works -> WorkRows \cup {NoWork}]

\* What the columns of the tables hold.
ColumnsOK ==
  /\ registry \in RegistryRows
  /\ work \in WorkTable
  /\ leases \in Seq(LeaseRows)
  /\ execs \in Seq(ExecRows)
  /\ procs \in [Works -> {"none", "running", "ok", "bad"}]
  /\ evidence \in [Works -> [attempt : Nat, ok : BOOLEAN]]
  /\ clock \in Nat

LEMMA WorkFacts ==
  ASSUME work \in WorkTable, NEW w \in Works
  PROVE  /\ Exists(w) <=> work[w] # NoWork
         /\ Exists(w) <=> work[w] \in WorkRows
         /\ Exists(w) => work[w].status \in WorkStatuses
<1>1. work[w] \in WorkRows => work[w].status \in WorkStatuses /\ work[w].status # "none"
  BY DEF WorkRows, WorkStatuses
<1>2. NoWork.status = "none"
  BY DEF NoWork
<1> QED
  BY <1>1, <1>2 DEF WorkTable, Exists

\* A field update of a typed row.
LEMMA WorkUpdates ==
  ASSUME NEW r \in WorkRows
  PROVE  /\ \A s \in WorkStatuses : [r EXCEPT !.status = s] \in WorkRows
         /\ \A b \in BOOLEAN : /\ [r EXCEPT !.started = b] \in WorkRows
                               /\ [r EXCEPT !.ended = b] \in WorkRows
                               /\ [r EXCEPT !.granted = b] \in WorkRows
         /\ \A t \in Trees : [r EXCEPT !.tree = t] \in WorkRows
  BY DEF WorkRows

-----------------------------------------------------------------------------
(* transition_status and _release_dependents                               *)

\* The row of w after transition_status.
Gone(w, to) ==
  [[[work[w] EXCEPT !.status = to] EXCEPT !.started = work[w].started \/ to = "running"]
     EXCEPT !.ended = work[w].ended \/ to \in WorkTerminal]

LEMMA GoneRow ==
  ASSUME work \in WorkTable, NEW w \in Works, Exists(w), NEW to \in WorkStatuses
  PROVE  /\ Gone(w, to) \in WorkRows
         /\ Gone(w, to).status = to
         /\ Gone(w, to).started = (work[w].started \/ to = "running")
         /\ Gone(w, to).ended = (work[w].ended \/ to \in WorkTerminal)
         /\ Gone(w, to).agent = work[w].agent
         /\ Gone(w, to).group = work[w].group
<1>1. work[w] \in WorkRows
  BY WorkFacts
<1>2. /\ (work[w].started \/ to = "running") \in BOOLEAN
      /\ (work[w].ended \/ to \in WorkTerminal) \in BOOLEAN
  OBVIOUS
<1> DEFINE r1 == [work[w] EXCEPT !.status = to]
           r2 == [r1 EXCEPT !.started = work[w].started \/ to = "running"]
           r3 == [r2 EXCEPT !.ended = work[w].ended \/ to \in WorkTerminal]
<1>3. /\ r1 \in WorkRows /\ r1.status = to /\ r1.ended = work[w].ended
      /\ r1.agent = work[w].agent /\ r1.group = work[w].group
  BY <1>1, WorkUpdates DEF WorkRows
<1> HIDE DEF r1
<1>4. /\ r2 \in WorkRows /\ r2.status = to
      /\ r2.started = (work[w].started \/ to = "running")
      /\ r2.agent = work[w].agent /\ r2.group = work[w].group
  <2>1. ASSUME NEW b \in BOOLEAN
        PROVE  LET r == [r1 EXCEPT !.started = b]
               IN  /\ r \in WorkRows /\ r.status = to /\ r.started = b
                   /\ r.agent = r1.agent /\ r.group = r1.group
    BY <1>3, WorkUpdates DEF WorkRows
  <2> QED
    BY <1>2, <1>3, <2>1, Zenon
<1> HIDE DEF r2
<1>5. /\ r3 \in WorkRows /\ r3.status = to
      /\ r3.started = (work[w].started \/ to = "running")
      /\ r3.ended = (work[w].ended \/ to \in WorkTerminal)
      /\ r3.agent = work[w].agent /\ r3.group = work[w].group
  <2>1. ASSUME NEW b \in BOOLEAN
        PROVE  LET r == [r2 EXCEPT !.ended = b]
               IN  /\ r \in WorkRows /\ r.status = to /\ r.started = r2.started
                   /\ r.ended = b /\ r.agent = r2.agent /\ r.group = r2.group
    BY <1>4, WorkUpdates DEF WorkRows
  <2> QED
    BY <1>2, <1>4, <2>1, Zenon
<1>6. Gone(w, to) = r3
  BY DEF Gone, r1, r2
<1> QED
  BY <1>5, <1>6

\* Waiting and ready are not among the statuses that release a dependent, so
\* a refresh releases nobody else.
LEMMA RefreshedRow ==
  ASSUME NEW st \in WorkTable, NEW v \in Works, st[v] \in WorkRows
  PROVE  /\ [st[v] EXCEPT !.status = Refreshed(v, st)] \in WorkRows
         /\ Refreshed(v, st) \in WorkStatuses
         /\ \/ Refreshed(v, st) = st[v].status
            \/ /\ st[v].status \in {"planned", "waiting_dependency"}
               /\ Refreshed(v, st) \in {"ready", "waiting_dependency"}
         /\ Refreshed(v, st) = "waiting_dependency" => ~DepsSatisfied(v, st)
         /\ Refreshed(v, st) # "planned"
<1>1. Refreshed(v, st) \in WorkStatuses
  BY DEF Refreshed, WorkStatuses, WorkRows
<1>2. [st[v] EXCEPT !.status = Refreshed(v, st)] \in WorkRows
  BY <1>1, WorkUpdates
<1> QED
  BY <1>1, <1>2 DEF Refreshed

\* Row by row, what a transition of w does.
LEMMA TransitionedRows ==
  ASSUME work \in WorkTable, NEW w \in Works, Exists(w), NEW to \in WorkStatuses,
         NEW new, new = Transitioned(w, to)
  PROVE  /\ new \in WorkTable
         /\ new[w] = Gone(w, to)
         /\ \A v \in Works \ {w} :
              /\ ~Exists(v) => new[v] = NoWork
              /\ Exists(v) =>
                   /\ new[v] \in WorkRows
                   /\ new[v].started = work[v].started /\ new[v].ended = work[v].ended
                   /\ new[v].agent = work[v].agent /\ new[v].group = work[v].group
                   /\ \/ new[v].status = work[v].status
                      \/ /\ work[v].status \in {"planned", "waiting_dependency"}
                         /\ new[v].status \in {"ready", "waiting_dependency"}
                   /\ w \notin Requests[v].deps => new[v] = work[v]
                   /\ w \in Requests[v].deps /\ new[v].status = "waiting_dependency"
                        => ~DepsSatisfied(v, [work EXCEPT ![w] = Gone(w, to)])
<1> DEFINE st == [work EXCEPT ![w] = Gone(w, to)]
<1>1. /\ st \in WorkTable /\ st[w] = Gone(w, to) /\ st[w] \in WorkRows
      /\ \A v \in Works \ {w} : st[v] = work[v]
  BY GoneRow DEF WorkTable
<1>2. new = [v \in Works |->
               IF Exists(v) /\ w \in Requests[v].deps
               THEN [st[v] EXCEPT !.status = Refreshed(v, st)] ELSE st[v]]
  BY DEF Transitioned, Gone, WorkTable
<1>3. w \notin Requests[w].deps
  BY RequestsAssumption
<1> HIDE DEF st
<1>4. new[w] = Gone(w, to)
  BY <1>1, <1>2, <1>3
<1>5. ASSUME NEW v \in Works, v # w, Exists(v)
      PROVE  /\ new[v] \in WorkRows
             /\ new[v].started = work[v].started /\ new[v].ended = work[v].ended
             /\ new[v].agent = work[v].agent /\ new[v].group = work[v].group
             /\ \/ new[v].status = work[v].status
                \/ /\ work[v].status \in {"planned", "waiting_dependency"}
                   /\ new[v].status \in {"ready", "waiting_dependency"}
             /\ w \notin Requests[v].deps => new[v] = work[v]
             /\ w \in Requests[v].deps /\ new[v].status = "waiting_dependency"
                  => ~DepsSatisfied(v, st)
  <2>1. st[v] = work[v] /\ work[v] \in WorkRows
    BY <1>1, <1>5, WorkFacts
  <2>2. CASE w \notin Requests[v].deps
    BY <1>2, <2>1, <2>2
  <2>3. CASE w \in Requests[v].deps
    <3>1. new[v] = [work[v] EXCEPT !.status = Refreshed(v, st)]
      BY <1>2, <1>5, <2>1, <2>3
    <3>2. /\ new[v].status = Refreshed(v, st)
          /\ new[v].started = work[v].started /\ new[v].ended = work[v].ended
          /\ new[v].agent = work[v].agent /\ new[v].group = work[v].group
      BY <2>1, <3>1 DEF WorkRows
    <3> QED
      BY <1>1, <2>1, <2>3, <3>1, <3>2, RefreshedRow
  <2> QED
    BY <2>2, <2>3
<1>6. ASSUME NEW v \in Works, v # w, ~Exists(v)
      PROVE  new[v] = NoWork
  BY <1>1, <1>2, <1>6, WorkFacts
<1>7. new \in WorkTable
  <2>1. \A v \in Works : new[v] \in WorkRows \cup {NoWork}
    BY <1>1, <1>4, <1>5, <1>6
  <2> QED
    BY <1>2, <2>1 DEF WorkTable
<1> QED
  BY <1>4, <1>5, <1>6, <1>7 DEF st

-----------------------------------------------------------------------------
(* The course of the assignments.                                          *)

\* Statuses that only work that has been started reaches.
AfterStart == {"running", "waiting_review", "ready_for_review", "reviewing",
               "changes_requested", "verified", "completed"}

RowsRight ==
  \A w \in Works :
    Exists(w) =>
      /\ work[w].status # "planned"
      /\ work[w].status \in AfterStart => work[w].started
      /\ work[w].status \in WorkTerminal => work[w].ended
      /\ \A d \in Requests[w].deps : Exists(d)
CourseInv ==
  /\ work \in WorkTable
  /\ RowsRight /\ StartedInOrder /\ NoLostRelease /\ OneLivePerKey

\* What no step takes from an assignment.
WorkKept ==
  \A w \in Works :
    Exists(w) => /\ Exists(w)'
                 /\ work'[w].group = work[w].group
                 /\ work[w].started => work'[w].started

\* The steps that change the assignments: a new one, a transition (to a
\* status that started work reaches only when it was started or starts now),
\* and columns that have no part in the course.
Transit(w, to) ==
  /\ Exists(w)
  /\ to \in WorkStatuses \ {"planned", "waiting_dependency"}
  /\ to \in AfterStart =>
       work[w].started \/ (to = "running" /\ DepsSatisfied(w, work))
  /\ work' = Transitioned(w, to)
SameCourse ==
  /\ work' \in WorkTable
  /\ \A w \in Works :
       /\ work'[w].status = work[w].status
       /\ Exists(w) => /\ work'[w].started = work[w].started
                       /\ work'[w].ended = work[w].ended
                       /\ work'[w].group = work[w].group
Created(w) ==
  /\ ~Exists(w) /\ work' \in WorkTable
  /\ \A d \in Requests[w].deps : Exists(d)
  /\ \A v \in Works \ {w} : work'[v] = work[v]
  /\ ~work'[w].started
  /\ work'[w].status \in {"ready", "waiting_dependency"}
  /\ work'[w].status = "waiting_dependency" => ~DepsSatisfied(w, work)
  /\ Duplicates(Requests[w].key, work'[w].group) = {}
WorkStep ==
  \/ SameCourse
  \/ \E w \in Works : Created(w)
  \/ \E w \in Works, to \in WorkStatuses : Transit(w, to)

LEMMA DepsReleased ==
  ASSUME NEW w \in Works, NEW s, NEW t,
         \A d \in Requests[w].deps :
           t[d].status \in Releasing => s[d].status \in Releasing,
         DepsSatisfied(w, t)
  PROVE  DepsSatisfied(w, s)
  BY DEF DepsSatisfied

LEMMA SameCourseKeeps ==
  ASSUME CourseInv, SameCourse
  PROVE  CourseInv' /\ WorkKept
<1>1. \A w \in Works : /\ Exists(w)' <=> Exists(w)
                       /\ Live(w)' <=> Live(w)
  BY DEF SameCourse, Exists, Live
<1>2. \A w \in Works : \A d \in Requests[w].deps : d \in Works
  BY RequestsAssumption
<1>3. RowsRight'
  BY <1>1, <1>2 DEF CourseInv, RowsRight, SameCourse
<1>4. StartedInOrder'
  BY <1>1, <1>2 DEF CourseInv, RowsRight, StartedInOrder, SameCourse
<1>5. NoLostRelease'
  BY <1>2 DEF CourseInv, NoLostRelease, SameCourse, DepsSatisfied
<1>6. OneLivePerKey'
  BY <1>1 DEF CourseInv, OneLivePerKey, SameCourse, Live
<1>7. WorkKept
  BY <1>1 DEF WorkKept, SameCourse
<1> QED
  BY <1>3, <1>4, <1>5, <1>6, <1>7 DEF CourseInv, SameCourse

LEMMA CreatedKeeps ==
  ASSUME CourseInv, NEW w \in Works, Created(w)
  PROVE  CourseInv' /\ WorkKept
<1>1. \A v \in Works \ {w} : /\ Exists(v)' <=> Exists(v)
                             /\ Live(v)' <=> Live(v)
  BY DEF Created, Exists, Live
<1>2. \A v \in Works : Requests[v].deps \subseteq Works \ {v}
  BY RequestsAssumption
<1>3. Exists(w)' /\ Live(w)'
  BY DEF Created, Exists, Live, WorkTerminal
<1>4. \A v \in Works : Exists(v) => w \notin Requests[v].deps
  BY DEF CourseInv, RowsRight, Created
<1>5. RowsRight'
  BY <1>1, <1>2, <1>3 DEF CourseInv, RowsRight, Created, AfterStart, WorkTerminal
<1>6. StartedInOrder'
  BY <1>1, <1>2, <1>4 DEF CourseInv, StartedInOrder, Created
<1>7. NoLostRelease'
  <2> SUFFICES ASSUME NEW v \in Works, work'[v].status = "waiting_dependency"
               PROVE  ~DepsSatisfied(v, work')
    BY DEF NoLostRelease
  <2>1. CASE v = w
    BY <1>2, <2>1 DEF Created, DepsSatisfied
  <2>2. CASE v # w
    <3>1. Exists(v) /\ work[v].status = "waiting_dependency"
      BY <2>2 DEF Created, Exists
    <3> QED
      BY <1>2, <1>4, <3>1 DEF CourseInv, NoLostRelease, Created, DepsSatisfied
  <2> QED
    BY <2>1, <2>2
<1>8. OneLivePerKey'
  <2>1. ASSUME NEW v \in Works \ {w}, Live(v), Requests[v].key = Requests[w].key,
               work'[w].group = NoGroup
        PROVE  FALSE
    BY <2>1 DEF Created, Duplicates
  <2> QED
    BY <1>1, <2>1 DEF CourseInv, OneLivePerKey, Created
<1>9. WorkKept
  BY <1>1 DEF WorkKept, Created
<1> QED
  BY <1>5, <1>6, <1>7, <1>8, <1>9 DEF CourseInv, Created

LEMMA TransitKeeps ==
  ASSUME CourseInv, NEW w \in Works, NEW to \in WorkStatuses, Transit(w, to)
  PROVE  CourseInv' /\ WorkKept
<1> DEFINE new == work'
<1>a. work \in WorkTable /\ Exists(w) /\ new = Transitioned(w, to)
  BY DEF CourseInv, Transit
<1>0. new \in WorkTable /\ new[w] = Gone(w, to)
  BY <1>a, TransitionedRows
<1>1. /\ new \in WorkTable
      /\ new[w].status = to
      /\ new[w].started = (work[w].started \/ to = "running")
      /\ new[w].ended = (work[w].ended \/ to \in WorkTerminal)
      /\ new[w].group = work[w].group
  BY <1>0, GoneRow DEF CourseInv, Transit
<1>2. \A v \in Works \ {w} :
        /\ ~Exists(v) => new[v] = NoWork
        /\ Exists(v) =>
             /\ new[v].started = work[v].started /\ new[v].ended = work[v].ended
             /\ new[v].group = work[v].group
             /\ \/ new[v].status = work[v].status
                \/ /\ work[v].status \in {"planned", "waiting_dependency"}
                   /\ new[v].status \in {"ready", "waiting_dependency"}
             /\ w \notin Requests[v].deps => new[v] = work[v]
             /\ w \in Requests[v].deps /\ new[v].status = "waiting_dependency"
                  => ~DepsSatisfied(v, [work EXCEPT ![w] = Gone(w, to)])
  BY TransitionedRows DEF CourseInv, Transit
<1>3. \A v \in Works : Requests[v].deps \subseteq Works \ {v}
  BY RequestsAssumption
<1>4. /\ Exists(w) /\ to # "planned" /\ to # "waiting_dependency" /\ to # "none"
      /\ to \in AfterStart =>
           (work[w].started \/ (to = "running" /\ DepsSatisfied(w, work)))
  BY DEF Transit, WorkStatuses
<1> HIDE DEF new
<1>5. \A v \in Works : (new[v].status # "none") <=> Exists(v)
  BY <1>1, <1>2, <1>4 DEF Exists, NoWork
<1>6. \A v \in Works \ {w} :
        (new[v].status # "none" /\ new[v].status \notin WorkTerminal) <=> Live(v)
  BY <1>2, <1>5 DEF Live, WorkTerminal
<1>7. RowsRight'
  <2>1. ASSUME NEW v \in Works, Exists(v)
        PROVE  /\ new[v].status # "planned"
               /\ new[v].status \in AfterStart => new[v].started
               /\ new[v].status \in WorkTerminal => new[v].ended
               /\ \A d \in Requests[v].deps : new[d].status # "none"
    <3>1. /\ work[v].status # "planned"
          /\ work[v].status \in AfterStart => work[v].started
          /\ work[v].status \in WorkTerminal => work[v].ended
          /\ \A d \in Requests[v].deps : Exists(d)
      BY <2>1 DEF CourseInv, RowsRight
    <3>2. \A d \in Requests[v].deps : new[d].status # "none"
      BY <1>3, <1>5, <3>1
    <3>3. CASE v = w
      BY <1>1, <1>4, <3>2, <3>3
    <3>4. CASE v # w
      <4>1. /\ new[v].started = work[v].started /\ new[v].ended = work[v].ended
            /\ \/ new[v].status = work[v].status
               \/ new[v].status \in {"ready", "waiting_dependency"}
        BY <1>2, <2>1, <3>4
      <4> QED
        BY <3>1, <3>2, <4>1 DEF AfterStart, WorkTerminal
    <3> QED
      BY <3>3, <3>4
  <2> QED
    BY <1>5, <2>1 DEF RowsRight, Exists, new
<1>8. StartedInOrder'
  <2>1. ASSUME NEW v \in Works, Exists(v), new[v].started, NEW d \in Requests[v].deps
        PROVE  new[d].started
    <3>1. d \in Works /\ d # v /\ Exists(d)
      BY <1>3, <2>1 DEF CourseInv, RowsRight
    <3>2. work[d].started => new[d].started
      BY <1>1, <1>2, <3>1
    <3>3. CASE work[v].started
      BY <2>1, <3>2, <3>3 DEF CourseInv, StartedInOrder
    <3>4. CASE ~work[v].started
      <4>1. v = w /\ to = "running"
        BY <1>1, <1>2, <2>1, <3>4
      <4>2. DepsSatisfied(w, work)
        BY <1>4, <3>4, <4>1 DEF AfterStart
      <4>3. work[d].status \in AfterStart
        BY <2>1, <4>1, <4>2 DEF DepsSatisfied, Releasing, AfterStart
      <4> QED
        BY <3>1, <3>2, <4>3 DEF CourseInv, RowsRight
    <3> QED
      BY <3>3, <3>4
  <2> QED
    BY <1>5, <2>1 DEF StartedInOrder, Exists, new
<1>9. NoLostRelease'
  <2>1. ASSUME NEW v \in Works, new[v].status = "waiting_dependency"
        PROVE  ~DepsSatisfied(v, new)
    <3>1. v # w /\ Exists(v)
      BY <1>1, <1>4, <1>5, <2>1
    <3>2. \A d \in Works \ {w} :
            new[d].status \in Releasing => work[d].status \in Releasing
      BY <1>2 DEF Releasing, NoWork
    <3>3. CASE w \in Requests[v].deps
      <4> DEFINE st == [work EXCEPT ![w] = Gone(w, to)]
      <4>1. ~DepsSatisfied(v, st)
        BY <1>2, <2>1, <3>1, <3>3
      <4>2. /\ st[w].status = to
            /\ \A d \in Works \ {w} : st[d] = work[d]
        BY <1>4, GoneRow DEF CourseInv, WorkTable
      <4> HIDE DEF st
      <4>3. \A d \in Requests[v].deps :
              new[d].status \in Releasing => st[d].status \in Releasing
        BY <1>1, <1>3, <3>2, <4>2
      <4> QED
        BY <4>1, <4>3, DepsReleased
    <3>4. CASE w \notin Requests[v].deps
      <4>1. ~DepsSatisfied(v, work)
        BY <1>2, <2>1, <3>1, <3>4 DEF CourseInv, NoLostRelease
      <4>2. \A d \in Requests[v].deps :
              new[d].status \in Releasing => work[d].status \in Releasing
        BY <1>3, <3>2, <3>4
      <4> QED
        BY <4>1, <4>2, DepsReleased
    <3> QED
      BY <3>3, <3>4
  <2> QED
    BY <2>1 DEF NoLostRelease, new
<1>10. OneLivePerKey'
  <2>1. ~Live(w) => new[w].ended
    BY <1>1, <1>4 DEF CourseInv, RowsRight, Live
  <2>2. ASSUME NEW u \in Works, NEW v \in Works, u # v,
               Requests[u].key = Requests[v].key,
               Exists(u), Exists(v),
               u # w => Live(u), v # w => Live(v),
               new[u].group = NoGroup, new[v].group = NoGroup
        PROVE  new[u].ended \/ new[v].ended
    <3>1. /\ work[u].group = NoGroup /\ work[v].group = NoGroup
          /\ work[u].ended => new[u].ended
          /\ work[v].ended => new[v].ended
      BY <1>1, <1>2, <2>2
    <3> QED
      BY <2>1, <2>2, <3>1 DEF CourseInv, OneLivePerKey
  <2>3. \A v \in Works : Live(v)' => /\ Exists(v)
                                     /\ v # w => Live(v)
    BY <1>5, <1>6 DEF Live, Exists, new
  <2> QED
    BY <2>2, <2>3 DEF OneLivePerKey, new
<1>11. WorkKept
  BY <1>1, <1>2, <1>5 DEF WorkKept, Exists, new
<1> QED
  BY <1>1, <1>7, <1>8, <1>9, <1>10, <1>11 DEF CourseInv, new

LEMMA WorkStepKeeps ==
  ASSUME CourseInv, WorkStep
  PROVE  CourseInv' /\ WorkKept
  BY SameCourseKeeps, CreatedKeeps, TransitKeeps DEF WorkStep

-----------------------------------------------------------------------------
(* The inductive invariant.                                                *)

LeasesRight ==
  /\ leases \in Seq(LeaseRows) /\ clock \in Nat
  /\ \A i \in DOMAIN leases :
       /\ Exists(leases[i].work)
       /\ leases[i].stale => leases[i].ttl
       /\ leases[i].status = "active" => leases[i].at < clock
RunsRight ==
  /\ execs \in Seq(ExecRows)
  /\ \A x \in DOMAIN execs : /\ Exists(execs[x].work)
                             /\ work[execs[x].work].started
EvidenceRight ==
  /\ evidence \in [Works -> [attempt : Nat, ok : BOOLEAN]]
  /\ IngestedIsRecorded
MemoryRight ==
  /\ registry \in RegistryRows
  /\ procs \in [Works -> {"none", "running", "ok", "bad"}]
AgentsInv ==
  /\ CourseInv /\ MemoryRight /\ LeasesRight /\ RunsRight /\ EvidenceRight
  /\ WritersApart

LEMMA SeqAppend ==
  ASSUME NEW S, NEW q \in Seq(S), NEW e \in S
  PROVE  /\ Append(q, e) \in Seq(S)
         /\ DOMAIN Append(q, e) = DOMAIN q \cup {Len(q) + 1}
         /\ Len(q) + 1 \notin DOMAIN q
         /\ \A i \in DOMAIN q : Append(q, e)[i] = q[i]
         /\ Append(q, e)[Len(q) + 1] = e
  OBVIOUS

LEMMA SeqRows ==
  ASSUME NEW S, NEW q \in Seq(S), NEW p, DOMAIN p = DOMAIN q,
         p = [i \in DOMAIN q |-> p[i]], \A i \in DOMAIN q : p[i] \in S
  PROVE  p \in Seq(S)
  OBVIOUS

\* The executions as one step leaves them: each keeps its assignment, and one
\* that is ingested was so before.
ExecsKept ==
  /\ execs' \in Seq(ExecRows)
  /\ DOMAIN execs' = DOMAIN execs
  /\ \A x \in DOMAIN execs :
       /\ execs'[x].work = execs[x].work
       /\ execs'[x].ingest = "ingested" => execs[x].ingest = "ingested"

LEMMA ExecFacts ==
  ASSUME AgentsInv, NEW x \in DOMAIN execs
  PROVE  execs[x] \in ExecRows /\ execs[x].work \in Works
<1>1. execs[x] \in ExecRows
  BY DEF AgentsInv, RunsRight
<1> QED
  BY <1>1 DEF ExecRows

LEMMA RunsKept ==
  ASSUME AgentsInv, CourseInv', WorkKept, ExecsKept
  PROVE  RunsRight'
<1>1. \A x \in DOMAIN execs : execs[x].work \in Works
  BY ExecFacts
<1> QED
  BY <1>1 DEF AgentsInv, RunsRight, WorkKept, ExecsKept

LEMMA EvidenceKept ==
  ASSUME AgentsInv, ExecsKept, evidence' = evidence
  PROVE  EvidenceRight'
  BY DEF AgentsInv, EvidenceRight, IngestedIsRecorded, ExecsKept

LEMMA ExecUpdate ==
  ASSUME AgentsInv, NEW x \in DOMAIN execs
  PROVE  /\ \A s \in WorkStatuses \cup {"none"} :
              [execs[x] EXCEPT !.seen = s] \in ExecRows
         /\ \A s \in {"running", "exited", "lost", "timeout", "cancelled"} :
              /\ [execs[x] EXCEPT !.state = s] \in ExecRows
              /\ \A g \in {"pending", "ingested", "failed"} :
                   [execs[x] EXCEPT !.seen = "none", !.state = s, !.ingest = g]
                      \in ExecRows
<1>1. execs[x] \in ExecRows
  BY ExecFacts
<1>2. \A r \in ExecRows :
        /\ \A s \in WorkStatuses \cup {"none"} : [r EXCEPT !.seen = s] \in ExecRows
        /\ \A s \in {"running", "exited", "lost", "timeout", "cancelled"} :
             [r EXCEPT !.state = s] \in ExecRows
        /\ \A g \in {"pending", "ingested", "failed"} : [r EXCEPT !.ingest = g] \in ExecRows
  BY DEF ExecRows
<1>3. ASSUME NEW s \in {"running", "exited", "lost", "timeout", "cancelled"},
             NEW g \in {"pending", "ingested", "failed"}
      PROVE  [execs[x] EXCEPT !.seen = "none", !.state = s, !.ingest = g] \in ExecRows
  <2>1. [[execs[x] EXCEPT !.seen = "none"] EXCEPT !.state = s] \in ExecRows
    BY <1>1, <1>2
  <2>2. [[[execs[x] EXCEPT !.seen = "none"] EXCEPT !.state = s] EXCEPT !.ingest = g]
          \in ExecRows
    BY <1>2, <2>1
  <2> QED
    BY <2>2
<1> QED
  BY <1>1, <1>2, <1>3

\* One row of the executions is replaced.
LEMMA ExecReplaced ==
  ASSUME AgentsInv, NEW x \in DOMAIN execs, NEW r \in ExecRows,
         r.work = execs[x].work, execs' = [execs EXCEPT ![x] = r]
  PROVE  /\ execs' \in Seq(ExecRows)
         /\ DOMAIN execs' = DOMAIN execs
         /\ execs'[x] = r
         /\ \A y \in DOMAIN execs \ {x} : execs'[y] = execs[y]
         /\ \A y \in DOMAIN execs : execs'[y].work = execs[y].work
         /\ (r.ingest = "ingested" => execs[x].ingest = "ingested") => ExecsKept
<1>1. /\ DOMAIN execs' = DOMAIN execs /\ execs'[x] = r
      /\ \A y \in DOMAIN execs \ {x} : execs'[y] = execs[y]
      /\ execs' = [y \in DOMAIN execs |-> execs'[y]]
  OBVIOUS
<1>2. execs \in Seq(ExecRows)
  BY DEF AgentsInv, RunsRight
<1>3. \A y \in DOMAIN execs : execs'[y] \in ExecRows
  BY <1>1, <1>2
<1>4. execs' \in Seq(ExecRows)
  BY <1>1, <1>2, <1>3, SeqRows
<1> QED
  BY <1>1, <1>4 DEF ExecsKept

LEMMA LeaseUpdate ==
  ASSUME NEW l \in LeaseRows
  PROVE  /\ Released(l) \in LeaseRows
         /\ Released(l).work = l.work
         /\ Released(l).status = "released"
         /\ ~Released(l).stale
         /\ \A b \in BOOLEAN : /\ [l EXCEPT !.stale = b] \in LeaseRows
                               /\ [l EXCEPT !.ttl = b] \in LeaseRows
<1>1. \A b \in BOOLEAN : /\ [l EXCEPT !.stale = b] \in LeaseRows
                         /\ [l EXCEPT !.ttl = b] \in LeaseRows
  BY DEF LeaseRows
<1>2. l.holders \in Seq(DOMAIN Agents) /\ l.holders # <<>>
  BY DEF LeaseRows
<1>3. <<Head(l.holders)>> \in Seq(DOMAIN Agents) \ {<<>>}
  BY <1>2
<1>4. {} \in Scopes /\ 0 \in Nat
  BY DEF Scopes
<1>5. \A h \in Seq(DOMAIN Agents) \ {<<>>} :
        LET r == [l EXCEPT !.status = "released", !.stale = FALSE, !.ttl = FALSE,
                           !.at = 0, !.holders = h, !.scope = {}]
        IN r \in LeaseRows /\ r.work = l.work /\ r.status = "released" /\ ~r.stale
  BY <1>4 DEF LeaseRows
<1>6. Released(l) = [l EXCEPT !.status = "released", !.stale = FALSE, !.ttl = FALSE,
                              !.at = 0, !.holders = <<Head(l.holders)>>, !.scope = {}]
  BY DEF Released
<1> QED
  BY <1>1, <1>3, <1>5, <1>6

\* The leases as a step leaves them that grants none: none comes alive, and
\* one that stays alive stays as it is.
LeasesKept ==
  /\ leases' \in Seq(LeaseRows)
  /\ DOMAIN leases' = DOMAIN leases
  /\ clock' = clock
  /\ \A i \in DOMAIN leases :
       /\ leases'[i].work = leases[i].work
       /\ leases'[i].stale => leases'[i].ttl
       /\ leases'[i].status = "active" =>
            /\ leases[i].status = "active"
            /\ ~leases'[i].stale => ~leases[i].stale
            /\ leases'[i].tree = leases[i].tree
            /\ leases'[i].scope = leases[i].scope
            /\ leases'[i].mode = leases[i].mode
            /\ leases'[i].at = leases[i].at
            /\ leases'[i].holders = leases[i].holders

LEMMA LeaseFacts ==
  ASSUME AgentsInv, NEW i \in DOMAIN leases
  PROVE  /\ leases[i] \in LeaseRows
         /\ leases[i].work \in Works /\ Exists(leases[i].work)
         /\ leases[i].at \in Nat
<1>1. leases[i] \in LeaseRows
  BY DEF AgentsInv, LeasesRight
<1> QED
  BY <1>1 DEF LeaseRows, AgentsInv, LeasesRight

LEMMA GroupKept ==
  ASSUME WorkKept, NEW v \in Works, Exists(v)
  PROVE  /\ work'[v].group = work[v].group
         /\ \A g : SharesGroup(g, v)' <=> SharesGroup(g, v)
  BY DEF WorkKept, SharesGroup

LEMMA WritersFacts ==
  ASSUME NEW i
  PROVE  i \in Writers <=> /\ i \in DOMAIN leases /\ leases[i].status = "active"
                           /\ ~leases[i].stale /\ leases[i].mode = "read_write"
  BY DEF Writers, LiveLeases

LEMMA LeasesKeep ==
  ASSUME AgentsInv, WorkKept, LeasesKept
  PROVE  LeasesRight' /\ WritersApart'
<1>1. \A i \in DOMAIN leases : Exists(leases[i].work) /\ leases[i].work \in Works
  BY LeaseFacts
<1>2. LeasesRight'
  BY <1>1 DEF AgentsInv, LeasesRight, LeasesKept, WorkKept
<1>3. ASSUME NEW i \in Writers', NEW j \in Writers', InTheWay(i, j)',
             leases'[i].at < leases'[j].at
      PROVE  Len(leases'[j].holders) > 1
  <2>1. /\ i \in Writers /\ j \in Writers
        /\ i \in DOMAIN leases /\ j \in DOMAIN leases
        /\ \A k \in {i, j} :
             /\ leases'[k].work = leases[k].work
             /\ leases'[k].tree = leases[k].tree
             /\ leases'[k].scope = leases[k].scope
             /\ leases'[k].at = leases[k].at
             /\ leases'[k].holders = leases[k].holders
    BY <1>3, WritersFacts DEF LeasesKept, Writers, LiveLeases
  <2>2. InTheWay(i, j)
    BY <1>1, <1>3, <2>1, GroupKept DEF InTheWay, SharesGroup
  <2> QED
    BY <1>3, <2>1, <2>2 DEF AgentsInv, WritersApart
<1> QED
  BY <1>2, <1>3 DEF WritersApart

LEMMA LeasesUntouched ==
  ASSUME AgentsInv, leases' = leases, clock' = clock
  PROVE  LeasesKept
  BY DEF AgentsInv, LeasesRight, LeasesKept

\* Every row is kept, lapses or is renewed while alive, or is released.
LEMMA LeasesRewritten ==
  ASSUME AgentsInv, clock' = clock, DOMAIN leases' = DOMAIN leases,
         leases' = [i \in DOMAIN leases |-> leases'[i]],
         \A i \in DOMAIN leases :
           \/ leases'[i] = leases[i]
           \/ leases'[i] = Released(leases[i])
           \/ leases[i].ttl /\ leases'[i] = [leases[i] EXCEPT !.stale = TRUE]
           \/ /\ ~leases[i].stale
              /\ leases'[i] = [[leases[i] EXCEPT !.ttl = TRUE] EXCEPT !.stale = FALSE]
  PROVE  LeasesKept
<1>1. ASSUME NEW i \in DOMAIN leases
      PROVE  /\ leases'[i] \in LeaseRows
             /\ leases'[i].work = leases[i].work
             /\ leases'[i].stale => leases'[i].ttl
             /\ leases'[i].status = "active" =>
                  /\ leases[i].status = "active"
                  /\ ~leases'[i].stale => ~leases[i].stale
                  /\ leases'[i].tree = leases[i].tree
                  /\ leases'[i].scope = leases[i].scope
                  /\ leases'[i].mode = leases[i].mode
                  /\ leases'[i].at = leases[i].at
                  /\ leases'[i].holders = leases[i].holders
  <2>1. leases[i] \in LeaseRows /\ (leases[i].stale => leases[i].ttl)
    BY LeaseFacts DEF AgentsInv, LeasesRight
  <2>2. CASE leases'[i] = leases[i]
    BY <2>1, <2>2
  <2>3. CASE leases'[i] = Released(leases[i])
    BY <2>1, <2>3, LeaseUpdate
  <2>4. CASE leases[i].ttl /\ leases'[i] = [leases[i] EXCEPT !.stale = TRUE]
    <3>1. leases'[i] \in LeaseRows
      BY <2>1, <2>4, LeaseUpdate
    <3> QED
      BY <2>1, <2>4, <3>1 DEF LeaseRows
  <2>5. CASE /\ ~leases[i].stale
             /\ leases'[i] = [[leases[i] EXCEPT !.ttl = TRUE] EXCEPT !.stale = FALSE]
    <3>1. [leases[i] EXCEPT !.ttl = TRUE] \in LeaseRows
      BY <2>1, LeaseUpdate
    <3>2. leases'[i] \in LeaseRows
      BY <2>5, <3>1, LeaseUpdate
    <3> QED
      BY <2>1, <2>5, <3>2 DEF LeaseRows
  <2> QED
    BY <2>2, <2>3, <2>4, <2>5
<1>2. leases' \in Seq(LeaseRows)
  BY <1>1, SeqRows DEF AgentsInv, LeasesRight
<1> QED
  BY <1>1, <1>2 DEF LeasesKept

-----------------------------------------------------------------------------
(* The two steps that grant a lease.                                       *)

LEMMA AcquireKeeps ==
  ASSUME AgentsInv, WorkKept, NEW w \in Works, NEW tree \in Requests[w].trees,
         NEW scope \in Requests[w].scopes, Acquire(w, tree, scope)
  PROVE  LeasesRight' /\ WritersApart'
<1> DEFINE n == Len(leases) + 1
           old == [i \in DOMAIN leases |->
                     IF i \in OwnActive(w) THEN Released(leases[i]) ELSE leases[i]]
           nl == NewLease(w, tree, scope)
<1>1. /\ leases \in Seq(LeaseRows) /\ clock \in Nat /\ clock' = clock + 1
      /\ work \in WorkTable
  BY DEF AgentsInv, LeasesRight, CourseInv, Acquire
<1>2. Exists(w) /\ work[w] \in WorkRows
  BY <1>1, WorkFacts DEF Acquire, Exists
<1>3. nl \in LeaseRows
  <2>1. /\ Requests[w].mode \in Modes /\ Requests[w].ttl \in BOOLEAN
    BY RequestsAssumption
  <2>3. tree \in Trees
    BY Zenon DEF Trees
  <2>4. scope \in Scopes
    BY Zenon DEF Scopes
  <2>2. <<work[w].agent>> \in Seq(DOMAIN Agents) \ {<<>>}
    BY <1>2 DEF WorkRows
  <2> QED
    BY <1>1, <2>1, <2>2, <2>3, <2>4 DEF NewLease, LeaseRows
<1>4. ASSUME NEW i \in DOMAIN leases
      PROVE  /\ old[i] \in LeaseRows /\ old[i].work = leases[i].work
             /\ old[i].stale => old[i].ttl
             /\ old[i].status = "active" => old[i] = leases[i]
  <2>1. leases[i] \in LeaseRows /\ (leases[i].stale => leases[i].ttl)
    BY LeaseFacts DEF AgentsInv, LeasesRight
  <2> QED
    BY <2>1, LeaseUpdate
<1>5. /\ old \in Seq(LeaseRows) /\ DOMAIN old = DOMAIN leases /\ Len(old) = Len(leases)
  <2>1. DOMAIN old = DOMAIN leases
    OBVIOUS
  <2>2. old \in Seq(LeaseRows)
    BY <1>1, <1>4, <2>1, SeqRows
  <2> QED
    BY <1>1, <2>1, <2>2
<1>6. leases' = Append(old, nl)
  BY DEF Acquire
<1> HIDE DEF old, nl, n
<1>7. /\ leases' \in Seq(LeaseRows)
      /\ DOMAIN leases' = DOMAIN leases \cup {n} /\ n \notin DOMAIN leases
      /\ \A i \in DOMAIN leases : leases'[i] = old[i]
      /\ leases'[n] = nl
  BY <1>3, <1>5, <1>6, SeqAppend DEF n
<1>8. /\ nl.work = w /\ nl.tree = tree /\ nl.scope = scope /\ nl.at = clock
      /\ nl.mode = Requests[w].mode /\ nl.stale = FALSE
  BY DEF nl, NewLease
<1>9. LeasesRight'
  <2>1. \A i \in DOMAIN leases : /\ work'[leases[i].work].status # "none"
                                 /\ leases[i].status = "active" => leases[i].at < clock'
    <3> SUFFICES ASSUME NEW i \in DOMAIN leases
                 PROVE  /\ work'[leases[i].work].status # "none"
                        /\ leases[i].status = "active" => leases[i].at < clock'
      OBVIOUS
    <3>1. leases[i].work \in Works /\ Exists(leases[i].work) /\ leases[i].at \in Nat
      BY LeaseFacts
    <3> QED
      BY <1>1, <3>1 DEF WorkKept, AgentsInv, LeasesRight, Exists
  <2>2. Exists(w)'
    BY <1>2 DEF WorkKept
  <2> QED
    <3>1. \A i \in DOMAIN leases : /\ work'[leases'[i].work].status # "none"
                                   /\ leases'[i].stale => leases'[i].ttl
                                   /\ leases'[i].status = "active" => leases'[i].at < clock'
      BY <1>4, <1>7, <2>1
    <3>2. /\ work'[leases'[n].work].status # "none"
          /\ leases'[n].stale => leases'[n].ttl
          /\ leases'[n].status = "active" => leases'[n].at < clock'
      BY <1>1, <1>7, <1>8, <2>2 DEF Exists
    <3>3. \A i \in DOMAIN leases' : /\ work'[leases'[i].work].status # "none"
                                    /\ leases'[i].stale => leases'[i].ttl
                                    /\ leases'[i].status = "active" => leases'[i].at < clock'
      BY <1>7, <3>1, <3>2
    <3>4. clock' \in Nat /\ leases' \in Seq(LeaseRows)
      BY <1>1, <1>7
    <3> QED
      BY <3>3, <3>4 DEF LeasesRight, Exists
<1>10. ASSUME NEW i \in Writers', NEW j \in Writers', InTheWay(i, j)',
              leases'[i].at < leases'[j].at
       PROVE  Len(leases'[j].holders) > 1
  <2>1. \A k \in Writers' :
          k # n => /\ k \in DOMAIN leases /\ k \in Writers /\ leases'[k] = leases[k]
    BY <1>4, <1>7 DEF Writers, LiveLeases
  <2>2. \A k \in Writers' : k # n => leases'[k].at < clock
    BY <2>1 DEF AgentsInv, LeasesRight, Writers, LiveLeases
  <2>3. i # n
    <3>1. CASE j = n
      BY <1>1, <1>7, <1>8, <1>10, <3>1
    <3>2. CASE j # n
      <4>1. leases'[j].at < clock /\ leases'[j].at \in Nat
        BY <2>1, <2>2, <3>2, LeaseFacts
      <4> QED
        BY <1>1, <1>7, <1>8, <1>10, <4>1
    <3> QED
      BY <3>1, <3>2
  <2>4. /\ i \in DOMAIN leases /\ i \in LiveLeases /\ leases'[i] = leases[i]
        /\ leases[i].mode = "read_write" /\ i \in Writers
        /\ leases[i].work \in Works /\ Exists(leases[i].work)
    BY <2>1, <2>3, LeaseFacts DEF Writers
  <2>5. CASE j = n
    <3>1. /\ TreeConflicts(tree, LiveLeases) = {}
          /\ PathConflicts(scope, work[w].group, LiveLeases) = {}
      BY <1>7, <1>8, <2>5 DEF Acquire, Writers, LiveLeases
    <3>2. leases[i].tree # tree
      BY <2>4, <3>1 DEF TreeConflicts
    <3>3. \/ SharesGroup(work[w].group, leases[i].work)
          \/ ~ScopesConflict(scope, leases[i].scope)
      BY <2>4, <3>1 DEF PathConflicts
    <3>4. ScopesConflict(scope, leases[i].scope)
            <=> ScopesConflict(leases[i].scope, scope)
      BY DEF ScopesConflict, PathsConflict
    <3>5. /\ work'[w].group = work[w].group
          /\ work'[leases[i].work].group = work[leases[i].work].group
      BY <1>2, <2>4, GroupKept
    <3>6. ~InTheWay(i, j)'
      BY <1>7, <1>8, <2>4, <2>5, <3>2, <3>3, <3>4, <3>5 DEF InTheWay, SharesGroup
    <3> QED
      BY <1>10, <3>6
  <2>6. CASE j # n
    <3>1. /\ j \in Writers /\ leases'[j] = leases[j]
          /\ leases[j].work \in Works /\ Exists(leases[j].work)
      BY <2>1, <2>6, LeaseFacts
    <3>2. InTheWay(i, j)
      BY <1>10, <2>4, <3>1, GroupKept DEF InTheWay, SharesGroup
    <3> QED
      BY <1>10, <2>4, <3>1, <3>2 DEF AgentsInv, WritersApart
  <2> QED
    BY <2>5, <2>6
<1> QED
  BY <1>9, <1>10 DEF WritersApart

LEMMA TakeOverKeeps ==
  ASSUME AgentsInv, WorkKept, NEW k \in DOMAIN leases, NEW a \in DOMAIN Agents,
         NEW w \in Works, TakeOver(k, a, w)
  PROVE  LeasesRight' /\ WritersApart'
<1> DEFINE r == [leases[k] EXCEPT !.holders = Append(leases[k].holders, a),
                                  !.work = w, !.ttl = Requests[w].ttl,
                                  !.stale = FALSE, !.at = clock]
<1>1. /\ leases \in Seq(LeaseRows) /\ clock \in Nat /\ clock' = clock + 1
      /\ leases[k] \in LeaseRows /\ Exists(w)
  BY LeaseFacts DEF AgentsInv, LeasesRight, TakeOver
<1>2. /\ leases[k].holders \in Seq(DOMAIN Agents) /\ leases[k].holders # <<>>
  BY <1>1 DEF LeaseRows
<1>3. /\ Append(leases[k].holders, a) \in Seq(DOMAIN Agents) \ {<<>>}
      /\ Len(Append(leases[k].holders, a)) > 1
  BY <1>2
<1>4. \A h \in Seq(DOMAIN Agents) \ {<<>>} : \A t \in BOOLEAN :
        LET x == [leases[k] EXCEPT !.holders = h, !.work = w, !.ttl = t,
                                   !.stale = FALSE, !.at = clock]
        IN /\ x \in LeaseRows /\ x.holders = h /\ x.work = w /\ ~x.stale
           /\ x.at = clock
  BY <1>1 DEF LeaseRows
<1>5. /\ r \in LeaseRows /\ Len(r.holders) > 1 /\ r.work = w /\ ~r.stale /\ r.at = clock
  <2>1. /\ Append(leases[k].holders, a) \in Seq(DOMAIN Agents) \ {<<>>}
        /\ Requests[w].ttl \in BOOLEAN
    BY <1>3, RequestsAssumption
  <2>2. r \in LeaseRows /\ r.holders = Append(leases[k].holders, a) /\ r.work = w
        /\ ~r.stale /\ r.at = clock
    BY <1>4, <2>1, Zenon
  <2> HIDE DEF r
  <2> QED
    BY <1>3, <2>2
<1>6. leases' = [leases EXCEPT ![k] = r]
  BY DEF TakeOver
<1> HIDE DEF r
<1>7. /\ DOMAIN leases' = DOMAIN leases /\ leases'[k] = r
      /\ \A i \in DOMAIN leases \ {k} : leases'[i] = leases[i]
      /\ leases' = [i \in DOMAIN leases |-> leases'[i]]
  BY <1>6
<1>8. leases' \in Seq(LeaseRows)
  <2>1. \A i \in DOMAIN leases : leases'[i] \in LeaseRows
    BY <1>5, <1>7, LeaseFacts
  <2> QED
    BY <1>1, <1>7, <2>1, SeqRows
<1>9. LeasesRight'
  <2>1. ASSUME NEW i \in DOMAIN leases
        PROVE  /\ work'[leases[i].work].status # "none"
               /\ leases[i].status = "active" => leases[i].at < clock'
    <3>1. leases[i].work \in Works /\ Exists(leases[i].work) /\ leases[i].at \in Nat
      BY LeaseFacts
    <3> QED
      BY <1>1, <3>1 DEF WorkKept, AgentsInv, LeasesRight, Exists
  <2>2. Exists(w)'
    BY <1>1 DEF WorkKept
  <2> QED
    BY <1>1, <1>5, <1>7, <1>8, <2>1, <2>2 DEF AgentsInv, LeasesRight, Exists
<1>10. ASSUME NEW i \in Writers', NEW j \in Writers', InTheWay(i, j)',
              leases'[i].at < leases'[j].at
       PROVE  Len(leases'[j].holders) > 1
  <2>1. \A m \in Writers' :
          m # k => /\ m \in DOMAIN leases /\ m \in Writers /\ leases'[m] = leases[m]
                   /\ leases[m].at < clock /\ leases[m].at \in Nat
                   /\ leases[m].work \in Works /\ Exists(leases[m].work)
    BY <1>7, LeaseFacts DEF AgentsInv, LeasesRight, Writers, LiveLeases
  <2>2. CASE j = k
    BY <1>5, <1>7, <2>2
  <2>3. CASE j # k
    <3>1. i # k
      BY <1>1, <1>5, <1>7, <1>10, <2>1, <2>3
    <3>2. InTheWay(i, j)
      BY <1>10, <2>1, <2>3, <3>1, GroupKept DEF InTheWay, SharesGroup
    <3> QED
      BY <1>10, <2>1, <2>3, <3>1, <3>2 DEF AgentsInv, WritersApart
  <2> QED
    BY <2>2, <2>3
<1> QED
  BY <1>9, <1>10 DEF WritersApart

-----------------------------------------------------------------------------
(* The steps, seen from the assignments.                                   *)

LEMMA CreateStep ==
  ASSUME AgentsInv, NEW w \in Works, NEW a \in DOMAIN Agents,
         NEW g \in Requests[w].groups, Create(w, a, g)
  PROVE  WorkStep
<1> DEFINE st == [work EXCEPT ![w] = NewWork(a, g)]
<1>1. work \in WorkTable /\ g \in Groups \cup {NoGroup}
  BY RequestsAssumption DEF AgentsInv, CourseInv
<1>2. NewWork(a, g) \in WorkRows
  <2>1. Cardinality({v \in Works : Exists(v)}) \in Places
    <3>1. {v \in Works : Exists(v)} \in SUBSET Works
      OBVIOUS
    <3> QED
      BY <3>1, Zenon DEF Places
  <2>2. "" \in Trees
    BY DEF Trees
  <2> QED
    BY <1>1, <2>1, <2>2 DEF NewWork, WorkRows, WorkStatuses
<1>3. st \in WorkTable /\ st[w] \in WorkRows /\ st[w] = NewWork(a, g)
  BY <1>1, <1>2 DEF WorkTable
<1>0. /\ NewWork(a, g).status = "planned" /\ NewWork(a, g).group = g
      /\ NewWork(a, g).started = FALSE
  BY DEF NewWork
<1>4. work' = [st EXCEPT ![w] = [st[w] EXCEPT !.status = Refreshed(w, st)]]
  BY DEF Create
<1>5. \A v \in Works \ {w} : st[v] = work[v]
  OBVIOUS
<1> HIDE DEF st
<1>6. /\ [st[w] EXCEPT !.status = Refreshed(w, st)] \in WorkRows
      /\ Refreshed(w, st) \in {"ready", "waiting_dependency"}
      /\ Refreshed(w, st) = "waiting_dependency" => ~DepsSatisfied(w, st)
  <2>1. st[w].status = "planned"
    BY <1>0, <1>3
  <2>2. [st[w] EXCEPT !.status = Refreshed(w, st)] \in WorkRows
    BY <1>3, RefreshedRow
  <2> QED
    BY <2>1, <2>2 DEF Refreshed
<1>7. work' \in WorkTable
  BY <1>3, <1>4, <1>6 DEF WorkTable
<1>8. /\ work'[w] = [st[w] EXCEPT !.status = Refreshed(w, st)]
      /\ \A v \in Works \ {w} : work'[v] = work[v]
  BY <1>3, <1>4, <1>5 DEF WorkTable
<1>9. /\ work'[w].status = Refreshed(w, st)
      /\ ~work'[w].started
      /\ work'[w].group = g
  BY <1>0, <1>3, <1>8 DEF WorkRows
<1>10. DepsSatisfied(w, st) <=> DepsSatisfied(w, work)
  BY <1>5, RequestsAssumption DEF DepsSatisfied
<1>11. Created(w)
  BY <1>6, <1>7, <1>8, <1>9, <1>10 DEF Create, Created
<1> QED
  BY <1>11 DEF WorkStep

LEMMA TransitStep ==
  ASSUME NEW w \in Works, NEW to \in WorkStatuses, Transit(w, to)
  PROVE  WorkStep
  BY DEF WorkStep

LEMMA SameStep ==
  ASSUME AgentsInv, work' = work
  PROVE  WorkStep
  BY DEF AgentsInv, CourseInv, WorkStep, SameCourse

LEMMA ColumnStep ==
  ASSUME AgentsInv, NEW w \in Works, Exists(w),
         NEW r \in WorkRows, work' = [work EXCEPT ![w] = r],
         r.status = work[w].status, r.started = work[w].started,
         r.ended = work[w].ended, r.group = work[w].group
  PROVE  WorkStep
<1>1. work \in WorkTable
  BY DEF AgentsInv, CourseInv
<1>2. work' \in WorkTable
  BY <1>1 DEF WorkTable
<1>3. work'[w] = r /\ \A v \in Works \ {w} : work'[v] = work[v]
  BY <1>1 DEF WorkTable
<1> QED
  BY <1>2, <1>3 DEF WorkStep, SameCourse

LEMMA MoveStep ==
  ASSUME AgentsInv, NEW w \in Works, NEW to \in WorkStatuses, Move(w, to)
  PROVE  WorkStep
<1>1. /\ Exists(w) /\ work[w].status \in WorkStatuses
      /\ work[w].status \in AfterStart => work[w].started
  BY WorkFacts DEF AgentsInv, CourseInv, RowsRight, Move
<1>2. /\ to \in Allowed[work[w].status] /\ to # "running" /\ to # "waiting_dependency"
      /\ work' = Transitioned(w, to)
  BY DEF Move, TransitionAllowed
<1>3. \A s \in WorkStatuses :
        to \in Allowed[s] => /\ to # "planned"
                             /\ to \in AfterStart \ {"running"} => s \in AfterStart
  BY DEF Allowed, AfterStart, WorkStatuses
<1> QED
  BY <1>1, <1>2, <1>3, TransitStep DEF Transit

LEMMA DispatchStep ==
  ASSUME AgentsInv, NEW w \in Works, NEW to \in {"running", "blocked"},
         Exists(w), Assignable(w), work' = Transitioned(w, to)
  PROVE  WorkStep
<1>1. to \in WorkStatuses \ {"planned", "waiting_dependency"}
  BY DEF WorkStatuses
<1>2. DepsSatisfied(w, work)
  BY DEF Assignable, Feasible
<1> QED
  BY <1>1, <1>2, TransitStep DEF Transit, AfterStart

LEMMA CollectorStep ==
  ASSUME AgentsInv, NEW x \in DOMAIN execs,
         NEW to \in {"completed", "failed", "blocked", "cancelled"},
         work' = work \/ work' = Transitioned(execs[x].work, to)
  PROVE  WorkStep
<1>1. /\ execs[x].work \in Works /\ Exists(execs[x].work)
      /\ work[execs[x].work].started
  BY ExecFacts DEF AgentsInv, RunsRight
<1>2. to \in WorkStatuses \ {"planned", "waiting_dependency"}
  BY DEF WorkStatuses
<1> QED
  BY <1>1, <1>2, SameStep, TransitStep DEF Transit

-----------------------------------------------------------------------------
(* Every step keeps the invariant.                                         *)

\* The tables a step can leave alone, one by one.
LEMMA MemoryKept ==
  ASSUME AgentsInv, registry' = registry, procs' = procs
  PROVE  MemoryRight'
  BY DEF AgentsInv, MemoryRight
LEMMA ExecsUntouched ==
  ASSUME AgentsInv, execs' = execs
  PROVE  ExecsKept
  BY DEF AgentsInv, RunsRight, ExecsKept

LEMMA Composed ==
  ASSUME AgentsInv, WorkStep, MemoryRight', LeasesKept, ExecsKept,
         evidence' = evidence
  PROVE  AgentsInv'
<1>1. CourseInv' /\ WorkKept
  BY WorkStepKeeps DEF AgentsInv
<1> QED
  BY <1>1, LeasesKeep, RunsKept, EvidenceKept DEF AgentsInv

LEMMA CoordinationSteps ==
  ASSUME AgentsInv, NEW w \in Works,
         \/ \E a \in DOMAIN Agents, g \in Requests[w].groups : Create(w, a, g)
         \/ \E to \in WorkStatuses : Move(w, to)
         \/ Approve(w)
         \/ DispatchFails(w)
  PROVE  AgentsInv'
<1>1. WorkStep
  <2>1. CASE \E a \in DOMAIN Agents, g \in Requests[w].groups : Create(w, a, g)
    BY <2>1, CreateStep
  <2>2. CASE \E to \in WorkStatuses : Move(w, to)
    BY <2>2, MoveStep
  <2>3. CASE Approve(w)
    <3> DEFINE r == [work[w] EXCEPT !.granted = TRUE]
    <3>1. /\ Exists(w) /\ work[w] \in WorkRows
          /\ work' = [work EXCEPT ![w] = r]
      BY <2>3, WorkFacts DEF Approve, AgentsInv, CourseInv
    <3>2. /\ r \in WorkRows /\ r.status = work[w].status
          /\ r.started = work[w].started /\ r.ended = work[w].ended
          /\ r.group = work[w].group
      BY <3>1, WorkUpdates DEF WorkRows
    <3> HIDE DEF r
    <3> QED
      BY <3>1, <3>2, ColumnStep
  <2>4. CASE DispatchFails(w)
    BY <2>4, DispatchStep DEF DispatchFails
  <2> QED
    BY <2>1, <2>2, <2>3, <2>4
<1>2. UNCHANGED <<registry, leases, execs, procs, evidence, clock>>
  BY DEF Create, Move, Approve, DispatchFails
<1> QED
  BY <1>1, <1>2, Composed, MemoryKept, LeasesUntouched, ExecsUntouched

LEMMA AcquireStep ==
  ASSUME AgentsInv, NEW w \in Works, NEW tree \in Requests[w].trees,
         NEW scope \in Requests[w].scopes, Acquire(w, tree, scope)
  PROVE  AgentsInv'
<1>1. WorkStep
  <2> DEFINE r == [work[w] EXCEPT !.tree = tree]
  <2>1. /\ Exists(w) /\ work[w] \in WorkRows /\ tree \in Trees
    <3>1. Exists(w)
      BY DEF Acquire, Exists
    <3>2. tree \in Trees
      BY Zenon DEF Trees
    <3> QED
      BY <3>1, <3>2, WorkFacts DEF AgentsInv, CourseInv
  <2>2. work' = [work EXCEPT ![w] = r]
    BY DEF Acquire
  <2>3. /\ r \in WorkRows /\ r.status = work[w].status
        /\ r.started = work[w].started /\ r.ended = work[w].ended
        /\ r.group = work[w].group
    BY <2>1, WorkUpdates DEF WorkRows
  <2> HIDE DEF r
  <2> QED
    BY <2>1, <2>2, <2>3, ColumnStep
<1>2. CourseInv' /\ WorkKept
  BY <1>1, WorkStepKeeps DEF AgentsInv
<1>3. LeasesRight' /\ WritersApart'
  BY <1>2, AcquireKeeps
<1>4. UNCHANGED <<registry, execs, procs, evidence>>
  BY DEF Acquire
<1> QED
  BY <1>2, <1>3, <1>4, MemoryKept, ExecsUntouched, RunsKept, EvidenceKept DEF AgentsInv

LEMMA DispatchKeeps ==
  ASSUME AgentsInv, NEW w \in Works, Dispatch(w)
  PROVE  AgentsInv'
<1>1. WorkStep
  BY DispatchStep DEF Dispatch
<1>2. CourseInv' /\ WorkKept
  BY <1>1, WorkStepKeeps DEF AgentsInv
<1>3. LeasesRight' /\ WritersApart'
  BY <1>2, LeasesUntouched, LeasesKeep DEF Dispatch
<1>4. MemoryRight'
  BY DEF Dispatch, AgentsInv, MemoryRight
<1>5. Exists(w)' /\ work'[w].started
  <2>1. work'[w] = Gone(w, "running")
    <3>1. /\ work \in WorkTable /\ Exists(w) /\ "running" \in WorkStatuses
          /\ work' = Transitioned(w, "running")
      BY DEF Dispatch, AgentsInv, CourseInv, WorkStatuses
    <3> QED
      BY <3>1, TransitionedRows
  <2>2. Gone(w, "running").started
    BY GoneRow DEF Dispatch, AgentsInv, CourseInv, WorkStatuses
  <2> QED
    BY <1>2, <2>1, <2>2 DEF Dispatch, WorkKept
<1>6. /\ execs' \in Seq(ExecRows)
      /\ DOMAIN execs' = DOMAIN execs \cup {Len(execs) + 1}
      /\ \A x \in DOMAIN execs : execs'[x] = execs[x]
      /\ execs'[Len(execs) + 1] = NewExec(w)
      /\ execs \in Seq(ExecRows)
  <2>1. NewExec(w) \in ExecRows
    BY DEF NewExec, ExecRows
  <2> QED
    BY <2>1, SeqAppend DEF Dispatch, AgentsInv, RunsRight
<1>7. NewExec(w).work = w /\ NewExec(w).ingest = "pending"
  BY DEF NewExec
<1>8. RunsRight'
  <2>1. \A x \in DOMAIN execs : /\ execs[x].work \in Works
                                /\ work'[execs[x].work].status # "none"
                                /\ work'[execs[x].work].started
    BY <1>2, ExecFacts DEF WorkKept, AgentsInv, RunsRight, Exists
  <2> QED
    BY <1>5, <1>6, <1>7, <2>1 DEF RunsRight, Exists
<1>9. EvidenceRight'
  BY <1>6, <1>7 DEF EvidenceRight, IngestedIsRecorded, AgentsInv, Dispatch
<1> QED
  BY <1>2, <1>3, <1>4, <1>8, <1>9 DEF AgentsInv

LEMMA LeaseSteps ==
  ASSUME AgentsInv, NEW i \in DOMAIN leases,
         \/ Lapse(i)
         \/ \E g \in 1..Len(leases[i].holders) : Renew(i, g) \/ Release(i, g)
         \/ \E a \in DOMAIN Agents, w \in Works : TakeOver(i, a, w)
  PROVE  AgentsInv'
<1>1. CASE Lapse(i)
  <2>1. /\ leases[i].ttl
        /\ leases' = [leases EXCEPT ![i] = [leases[i] EXCEPT !.stale = TRUE]]
        /\ UNCHANGED <<registry, work, execs, procs, evidence, clock>>
    BY <1>1 DEF Lapse
  <2>2. LeasesKept
    BY <2>1, LeasesRewritten
  <2> QED
    BY <2>1, <2>2, SameStep, MemoryKept, ExecsUntouched, Composed
<1>2. ASSUME NEW g \in 1..Len(leases[i].holders), Renew(i, g)
      PROVE  AgentsInv'
  <2>1. /\ ~leases[i].stale
        /\ leases' = [leases EXCEPT
             ![i] = [[leases[i] EXCEPT !.ttl = TRUE] EXCEPT !.stale = FALSE]]
        /\ UNCHANGED <<registry, work, execs, procs, evidence, clock>>
    BY <1>2, LeaseFacts DEF Renew, Renewable, Presented, Stale, LeaseRows
  <2>2. LeasesKept
    BY <2>1, LeasesRewritten
  <2> QED
    BY <2>1, <2>2, SameStep, MemoryKept, ExecsUntouched, Composed
<1>3. ASSUME NEW g \in 1..Len(leases[i].holders), Release(i, g)
      PROVE  AgentsInv'
  <2>1. /\ leases' = [leases EXCEPT ![i] = Released(leases[i])]
        /\ UNCHANGED <<registry, work, execs, procs, evidence, clock>>
    BY <1>3 DEF Release
  <2>2. LeasesKept
    BY <2>1, LeasesRewritten
  <2> QED
    BY <2>1, <2>2, SameStep, MemoryKept, ExecsUntouched, Composed
<1>4. ASSUME NEW a \in DOMAIN Agents, NEW w \in Works, TakeOver(i, a, w)
      PROVE  AgentsInv'
  <2>1. UNCHANGED <<registry, work, execs, procs, evidence>>
    BY <1>4 DEF TakeOver
  <2>2. CourseInv' /\ WorkKept
    BY <2>1, SameStep, WorkStepKeeps DEF AgentsInv
  <2>3. LeasesRight' /\ WritersApart'
    BY <1>4, <2>2, TakeOverKeeps
  <2> QED
    BY <2>1, <2>2, <2>3, MemoryKept, ExecsUntouched, RunsKept, EvidenceKept DEF AgentsInv
<1> QED
  BY <1>1, <1>2, <1>3, <1>4

LEMMA ExpireKeeps ==
  ASSUME AgentsInv, ExpireStale
  PROVE  AgentsInv'
<1>1. LeasesKept
  BY LeasesRewritten DEF ExpireStale
<1> QED
  BY <1>1, SameStep, MemoryKept, ExecsUntouched, Composed DEF ExpireStale

LEMMA ProcessSteps ==
  ASSUME AgentsInv,
         \/ \E a \in DOMAIN Agents : \E s \in {"active", "unavailable"} : Register(a, s)
         \/ \E w \in Works : \E ok \in BOOLEAN : Exit(w, ok)
         \/ Restart
  PROVE  AgentsInv'
<1>1. CASE \E a \in DOMAIN Agents : \E s \in {"active", "unavailable"} : Register(a, s)
  <2>1. MemoryRight'
    BY <1>1 DEF Register, MemoryRight, AgentsInv, RegistryRows
  <2> QED
    BY <1>1, <2>1, SameStep, LeasesUntouched, ExecsUntouched, Composed DEF Register
<1>2. CASE \E w \in Works : \E ok \in BOOLEAN : Exit(w, ok)
  <2>1. MemoryRight'
    BY <1>2 DEF Exit, MemoryRight, AgentsInv
  <2> QED
    BY <1>2, <2>1, SameStep, LeasesUntouched, ExecsUntouched, Composed DEF Exit
<1>3. CASE Restart
  <2>1. MemoryRight'
    BY <1>3 DEF Restart, MemoryRight, AgentsInv
  <2>2. /\ DOMAIN execs' = DOMAIN execs
        /\ execs' = [x \in DOMAIN execs |-> execs'[x]]
        /\ \A x \in DOMAIN execs : execs'[x] = [execs[x] EXCEPT !.seen = "none"]
    BY <1>3 DEF Restart
  <2>3. \A x \in DOMAIN execs : execs'[x] \in ExecRows
    <3> SUFFICES ASSUME NEW x \in DOMAIN execs PROVE  execs'[x] \in ExecRows
      OBVIOUS
    <3>1. [execs[x] EXCEPT !.seen = "none"] \in ExecRows
      BY ExecUpdate
    <3> QED
      BY <2>2, <3>1
  <2>4. execs' \in Seq(ExecRows)
    BY <2>2, <2>3, SeqRows DEF AgentsInv, RunsRight
  <2>5. \A x \in DOMAIN execs : /\ execs'[x].work = execs[x].work
                                /\ execs'[x].ingest = execs[x].ingest
    BY <2>2, ExecFacts DEF ExecRows
  <2>6. ExecsKept
    BY <2>2, <2>4, <2>5 DEF ExecsKept
  <2> QED
    BY <1>3, <2>1, <2>6, SameStep, LeasesUntouched, Composed DEF Restart
<1> QED
  BY <1>1, <1>2, <1>3

LEMMA CollectorSteps ==
  ASSUME AgentsInv, NEW x \in DOMAIN execs,
         \/ CollectBegin(x)
         \/ CollectRaises(x)
         \/ CollectNothing(x)
         \/ Cancel(x)
         \/ Reconcile(x)
  PROVE  AgentsInv'
<1> DEFINE States == {"running", "exited", "lost", "timeout", "cancelled"}
<1>1. /\ execs[x] \in ExecRows /\ execs[x].state \in States
      /\ execs[x].ingest \in {"pending", "ingested", "failed"}
      /\ execs[x].work \in Works
      /\ procs \in [Works -> {"none", "running", "ok", "bad"}]
  BY ExecFacts DEF ExecRows, AgentsInv, MemoryRight
\* The executions after a collection that does not ingest.
<1>2. ASSUME NEW s \in States, NEW g \in {"pending", "ingested", "failed"},
             g = "ingested" => execs[x].ingest = "ingested", Collected(x, s, g)
      PROVE  ExecsKept
  <2> DEFINE r == [execs[x] EXCEPT !.seen = "none", !.state = s, !.ingest = g]
  <2>1. r \in ExecRows
    BY ExecUpdate
  <2>2. r.work = execs[x].work /\ r.ingest = g
    BY <1>1 DEF ExecRows
  <2>3. execs' = [execs EXCEPT ![x] = r]
    BY <1>2 DEF Collected
  <2> HIDE DEF r
  <2> QED
    BY <1>2, <2>1, <2>2, <2>3, ExecReplaced
<1>3. ASSUME NEW s \in States, execs' = [execs EXCEPT ![x].state = s]
      PROVE  ExecsKept
  <2> DEFINE r == [execs[x] EXCEPT !.state = s]
  <2>1. r \in ExecRows
    BY ExecUpdate
  <2>2. r.work = execs[x].work /\ r.ingest = execs[x].ingest
    BY <1>1 DEF ExecRows
  <2>3. execs' = [execs EXCEPT ![x] = r]
    BY <1>3
  <2> HIDE DEF r
  <2> QED
    BY <2>1, <2>2, <2>3, ExecReplaced
<1>4. ASSUME NEW p \in {"none", "running", "ok", "bad"},
             procs' = [procs EXCEPT ![execs[x].work] = p], registry' = registry
      PROVE  MemoryRight'
  BY <1>1, <1>4 DEF AgentsInv, MemoryRight
<1>5. CASE CollectBegin(x)
  <2> DEFINE r == [execs[x] EXCEPT !.seen = work[execs[x].work].status]
  <2>1. work[execs[x].work].status \in WorkStatuses
    BY <1>1, WorkFacts DEF AgentsInv, CourseInv, RunsRight
  <2>2. r \in ExecRows
    BY <2>1, ExecUpdate
  <2>3. r.work = execs[x].work /\ r.ingest = execs[x].ingest
    BY <1>1 DEF ExecRows
  <2>4. execs' = [execs EXCEPT ![x] = r]
    BY <1>5 DEF CollectBegin
  <2> HIDE DEF r
  <2>5. ExecsKept
    BY <2>2, <2>3, <2>4, ExecReplaced
  <2> QED
    BY <1>5, <2>5, SameStep, MemoryKept, LeasesUntouched, Composed DEF CollectBegin
<1>6. CASE CollectRaises(x)
  <2>1. ExecsKept
    BY <1>1, <1>2, <1>6 DEF CollectRaises
  <2> QED
    BY <1>6, <2>1, SameStep, MemoryKept, LeasesUntouched, Composed DEF CollectRaises
<1>7. CASE CollectNothing(x)
  <2>1. ExecsKept
    BY <1>2, <1>7 DEF CollectNothing
  <2>2. WorkStep
    BY <1>7, CollectorStep DEF CollectNothing, GoneTo
  <2>3. MemoryRight'
    BY <1>4, <1>7, MemoryKept DEF CollectNothing
  <2> QED
    BY <1>7, <2>1, <2>2, <2>3, LeasesUntouched, Composed DEF CollectNothing
<1>8. CASE Cancel(x)
  <2> DEFINE w == execs[x].work
  <2>1. ExecsKept
    BY <1>3, <1>8 DEF Cancel
  <2>2. WorkStep
    BY <1>8, CollectorStep DEF Cancel
  <2>3. procs' = [procs EXCEPT ![w] = IF procs[w] = "running" THEN "bad" ELSE procs[w]]
    BY <1>8 DEF Cancel
  <2>4. MemoryRight'
    BY <1>1, <1>4, <1>8, <2>3 DEF Cancel
  <2> QED
    BY <1>8, <2>1, <2>2, <2>4, LeasesUntouched, Composed DEF Cancel
<1>9. CASE Reconcile(x)
  <2>1. ExecsKept
    BY <1>3, <1>9 DEF Reconcile
  <2> QED
    BY <1>9, <2>1, SameStep, MemoryKept, LeasesUntouched, Composed DEF Reconcile
<1> QED
  BY <1>5, <1>6, <1>7, <1>8, <1>9

\* The result is ingested: the evidence becomes, or already was, the attempt
\* of this very execution, so that no other one of the work is ingested.
LEMMA ResultKeeps ==
  ASSUME AgentsInv, NEW x \in DOMAIN execs, CollectResult(x)
  PROVE  AgentsInv'
<1> DEFINE w == execs[x].work
           r == [execs[x] EXCEPT !.seen = "none", !.state = "exited", !.ingest = "ingested"]
<1>1. /\ execs \in Seq(ExecRows) /\ execs[x] \in ExecRows /\ w \in Works /\ x \in Nat \ {0}
      /\ evidence \in [Works -> [attempt : Nat, ok : BOOLEAN]]
  BY ExecFacts DEF AgentsInv, RunsRight, EvidenceRight
<1>2. r \in ExecRows /\ r.work = w
  <2>1. r \in ExecRows
    BY ExecUpdate
  <2>2. r.work = w
    BY <1>1 DEF ExecRows
  <2> QED
    BY <2>1, <2>2
<1>3. execs' = [execs EXCEPT ![x] = r]
  BY DEF CollectResult, Collected
<1> HIDE DEF r
<1>4. /\ execs' \in Seq(ExecRows) /\ DOMAIN execs' = DOMAIN execs
      /\ \A y \in DOMAIN execs : execs'[y].work = execs[y].work
      /\ \A y \in DOMAIN execs \ {x} : execs'[y] = execs[y]
  BY <1>2, <1>3, ExecReplaced
<1>5. CourseInv' /\ WorkKept
  <2>1. WorkStep
    BY CollectorStep DEF CollectResult, GoneTo, Outcome
  <2> QED
    BY <2>1, WorkStepKeeps DEF AgentsInv
<1>6. RunsRight'
  <2>1. \A y \in DOMAIN execs : execs[y].work \in Works
    BY ExecFacts
  <2> QED
    BY <1>4, <1>5, <2>1 DEF AgentsInv, RunsRight, WorkKept
<1>7. /\ Result(x) \in [attempt : Nat, ok : BOOLEAN] /\ Result(x).attempt = x
      /\ evidence[w] = NoEvidence \/ evidence[w] = Result(x)
      /\ NoEvidence.attempt = 0
  BY <1>1 DEF Result, CollectResult, EvidenceFits, NoEvidence
<1>8. evidence' = [evidence EXCEPT ![w] = Result(x)]
  BY <1>7 DEF CollectResult, Recorded
<1>9. EvidenceRight'
  <2>1. evidence' \in [Works -> [attempt : Nat, ok : BOOLEAN]]
    BY <1>1, <1>7, <1>8
  <2>2. ASSUME NEW y \in DOMAIN execs', execs'[y].ingest = "ingested"
        PROVE  evidence'[execs'[y].work].attempt = y
    <3>1. CASE y = x
      BY <1>1, <1>4, <1>7, <1>8, <3>1
    <3>2. CASE y # x
      <4>1. /\ y \in DOMAIN execs /\ execs'[y] = execs[y] /\ y \in Nat \ {0}
            /\ execs[y].work \in Works
        BY <1>1, <1>4, <3>2, ExecFacts
      <4>2. evidence[execs[y].work].attempt = y
        BY <2>2, <4>1 DEF AgentsInv, EvidenceRight, IngestedIsRecorded
      <4>3. execs[y].work # w
        BY <1>1, <1>7, <3>2, <4>1, <4>2
      <4> QED
        BY <1>1, <1>8, <4>1, <4>2, <4>3
    <3> QED
      BY <3>1, <3>2
  <2> QED
    BY <2>1, <2>2 DEF EvidenceRight, IngestedIsRecorded
<1>10. /\ MemoryRight'
       /\ LeasesRight' /\ WritersApart'
  BY <1>5, MemoryKept, LeasesUntouched, LeasesKeep DEF CollectResult
<1> QED
  BY <1>5, <1>6, <1>9, <1>10 DEF AgentsInv

-----------------------------------------------------------------------------
(* The theorems.                                                           *)

LEMMA InitInv ==
  ASSUME AgentsInit
  PROVE  AgentsInv
<1>1. \A w \in Works : work[w] = NoWork /\ ~Exists(w)
  BY DEF AgentsInit, Exists, NoWork
<1>2. CourseInv
  BY <1>1 DEF AgentsInit, CourseInv, WorkTable, RowsRight, StartedInOrder,
              NoLostRelease, OneLivePerKey, Live, NoWork
<1>3. MemoryRight /\ RunsRight /\ LeasesRight
  BY DEF AgentsInit, MemoryRight, RegistryRows, RunsRight, LeasesRight
<1>4. EvidenceRight
  BY DEF AgentsInit, EvidenceRight, IngestedIsRecorded, NoEvidence
<1>5. WritersApart
  BY DEF AgentsInit, WritersApart, Writers, LiveLeases
<1> QED
  BY <1>2, <1>3, <1>4, <1>5 DEF AgentsInv

LEMMA NextInv ==
  ASSUME AgentsInv, [AgentsNext]_agentVars
  PROVE  AgentsInv'
<1>1. CASE UNCHANGED agentVars
  BY <1>1, SameStep, MemoryKept, LeasesUntouched, ExecsUntouched, Composed DEF agentVars
<1>2. CASE AgentsNext
  <2>1. ASSUME NEW a \in DOMAIN Agents, NEW s \in {"active", "unavailable"}, Register(a, s)
        PROVE  AgentsInv'
    BY <2>1, ProcessSteps
  <2>2. ASSUME NEW w \in Works,
               \/ \E a \in DOMAIN Agents, g \in Requests[w].groups : Create(w, a, g)
               \/ \E to \in WorkStatuses : Move(w, to)
               \/ Approve(w)
               \/ DispatchFails(w)
        PROVE  AgentsInv'
    BY <2>2, CoordinationSteps
  <2>3. ASSUME NEW w \in Works, NEW tree \in Requests[w].trees,
               NEW scope \in Requests[w].scopes, Acquire(w, tree, scope)
        PROVE  AgentsInv'
    BY <2>3, AcquireStep
  <2>4. ASSUME NEW w \in Works, Dispatch(w)
        PROVE  AgentsInv'
    BY <2>4, DispatchKeeps
  <2>5. ASSUME NEW w \in Works, NEW ok \in BOOLEAN, Exit(w, ok)
        PROVE  AgentsInv'
    BY <2>5, ProcessSteps
  <2>6. ASSUME NEW i \in DOMAIN leases,
               \/ Lapse(i)
               \/ \E g \in 1..Len(leases[i].holders) : Renew(i, g) \/ Release(i, g)
               \/ \E a \in DOMAIN Agents, w \in Works : TakeOver(i, a, w)
        PROVE  AgentsInv'
    BY <2>6, LeaseSteps
  <2>7. CASE ExpireStale
    BY <2>7, ExpireKeeps
  <2>8. CASE Restart
    BY <2>8, ProcessSteps
  <2>9. ASSUME NEW x \in DOMAIN execs,
               \/ CollectBegin(x)
               \/ CollectRaises(x)
               \/ CollectNothing(x)
               \/ Cancel(x)
               \/ Reconcile(x)
        PROVE  AgentsInv'
    BY <2>9, CollectorSteps
  <2>10. ASSUME NEW x \in DOMAIN execs, CollectResult(x)
         PROVE  AgentsInv'
    BY <2>10, ResultKeeps
  <2> QED
    BY <1>2, <2>1, <2>2, <2>3, <2>4, <2>5, <2>6, <2>7, <2>8, <2>9, <2>10 DEF AgentsNext
<1> QED
  BY <1>1, <1>2

LEMMA CoordinationInvariant == AgentsSpec => []AgentsInv
<1>1. AgentsInit => AgentsInv
  BY InitInv
<1>2. AgentsInv /\ [AgentsNext]_agentVars => AgentsInv'
  BY NextInv
<1> QED
  BY <1>1, <1>2, PTL DEF AgentsSpec

LEMMA InvTypes ==
  ASSUME AgentsInv
  PROVE  AgentsTypeOK
<1>1. \A w \in Works : work[w] = NoWork \/ AssignmentRow(work[w])
  <2> SUFFICES ASSUME NEW w \in Works, work[w] # NoWork
               PROVE  AssignmentRow(work[w])
    OBVIOUS
  <2>1. work[w] \in WorkRows /\ Exists(w)
    BY WorkFacts DEF AgentsInv, CourseInv
  <2> QED
    BY <2>1 DEF AgentsInv, CourseInv, RowsRight, AssignmentRow, WorkRows
<1>2. \A i \in DOMAIN leases : LeaseRow(leases[i])
  <2> SUFFICES ASSUME NEW i \in DOMAIN leases
               PROVE  LeaseRow(leases[i])
    OBVIOUS
  <2>1. leases[i] \in LeaseRows /\ Exists(leases[i].work)
    BY LeaseFacts
  <2>2. leases[i].stale => leases[i].ttl
    BY DEF AgentsInv, LeasesRight
  <2> QED
    BY <2>1, <2>2 DEF LeaseRow, LeaseRows
<1>3. \A x \in DOMAIN execs : ExecutionRow(execs[x])
  <2> SUFFICES ASSUME NEW x \in DOMAIN execs
               PROVE  ExecutionRow(execs[x])
    OBVIOUS
  <2>1. execs[x] \in ExecRows /\ Exists(execs[x].work)
    BY ExecFacts DEF AgentsInv, RunsRight
  <2> QED
    BY <2>1 DEF ExecutionRow, ExecRows
<1> QED
  BY <1>1, <1>2, <1>3 DEF AgentsTypeOK, AgentsInv, MemoryRight

\* Whatever agents, assignments and dependencies there are, and however
\* transitions, dispatches, restarts and late collectors interleave: the rows
\* are typed, work starts only after what it depends on had started, no
\* assignment sleeps on dependencies that were released, two live assignments
\* of one key never both run for the first time, and an ingested execution is
\* the attempt its evidence records (transition_status, _release_dependents,
\* create_assignment, collect_and_ingest_execution_result).
THEOREM CourseOfWork == AgentsSpec => []AssignmentInv
<1>1. AgentsInv => AssignmentInv
  BY InvTypes DEF AgentsInv, CourseInv, EvidenceRight, AssignmentInv
<1> QED
  BY <1>1, CoordinationInvariant, PTL

\* Two live write leases obstruct each other only when the later one was
\* taken over, for any paths, worktrees and groups (acquire_lease,
\* takeover_stale_lease, renew_lease, expire_stale_active_leases).
THEOREM WritersStayApart == AgentsSpec => []WritersApart
<1>1. AgentsInv => WritersApart
  BY DEF AgentsInv
<1> QED
  BY <1>1, CoordinationInvariant, PTL

-----------------------------------------------------------------------------
(* The Supervisor: rows and ticks                                          *)

\* Task, job and lease rows as its ticks and the worker write them.
SupTasks ==
  [prio : Nat, fit : BOOLEAN, independent : BOOLEAN, reverify : BOOLEAN,
   status : SupTaskStatuses, why : {"none", "provider", "repair"}, job : Nat,
   parent : Nat, pjob : Nat, depth : Nat]
SupJobs ==
  [task : Nat, status : SupJobStatuses, by : Ticks \cup {NoWorker},
   lapsed : BOOLEAN, cancel : BOOLEAN, chosen : Nat, blind : BOOLEAN]
SupLeases == [by : Ticks \cup {NoWorker}, lapsed : BOOLEAN]
SupMoments == {"idle", "eligible", "loop", "dispatched", "driving",
               "completed", "cancelled", "blind"}

\* A row that is over; what no step changes of a task's lineage; a task, or a
\* job, that no blind run has touched.
Settled(row) == row.status \in SupTerminal
SameLineage(r, q) ==
  r.parent = q.parent /\ r.pjob = q.pjob /\ r.depth = q.depth
NoBlind(tt, jj, t) ==
  \A j \in DOMAIN jj : t \in {jj[j].task, tt[jj[j].task].parent} => ~jj[j].blind
Blindless(jj, t) == \A j \in DOMAIN jj : jj[j].task = t => ~jj[j].blind

\* The generation of a repair of t (_live_generation_depth); a source parked for
\* its repair; a task parked for the provider has no live job.
GapOf(tt, t) == IF tt[t].parent = 0 THEN 0 ELSE tt[t].depth + 1
Parked(row) == row.status = "blocked" /\ row.why = "repair"
LetGo(row, jj) ==
  row.why = "provider" /\ row.status = "blocked" =>
    row.job = 0 \/ Settled(jj[row.job])

\* The committed rows: a task points to a claimed job, and a repair is one
\* generation after the earlier task it repairs.
DbRight(tt, jj) ==
  /\ tt \in Seq(SupTasks) /\ jj \in Seq(SupJobs)
  /\ \A j \in DOMAIN jj : /\ jj[j].task \in DOMAIN tt
                          /\ jj[j].status = "queued" => jj[j].by = NoWorker
  /\ \A t \in DOMAIN tt :
       /\ tt[t].job # 0 => /\ tt[t].job \in DOMAIN jj
                           /\ jj[tt[t].job].status # "queued"
       /\ LetGo(tt[t], jj)
       /\ tt[t].parent # 0 =>
            /\ tt[t].parent \in 1..(t - 1)
            /\ tt[t].depth < MaxDepth /\ tt[t].depth = GapOf(tt, tt[t].parent)

\* What the transaction of w may have made of a job row, of a task row, and the
\* children it may have inserted, relative to the committed rows.  hand is the
\* task whose new job it has not claimed yet.
OwnJob(w, old, new) ==
  /\ ~Settled(old) /\ (old.by = w \/ old.status = "queued")
  /\ new.by = w /\ new.status # "queued"
  /\ new.task = old.task /\ new.blind = old.blind
OwnTask(tt, jj, w, vt, vj, hand, t) ==
  /\ ~Settled(tt[t]) /\ ~Settled(vt[t]) /\ SameLineage(tt[t], vt[t])
  /\ vt[t].status = "running" => tt[t].status = "running"
  /\ vt[t].job # 0 => /\ vt[t].job \in DOMAIN jj
                      /\ vj[vt[t].job].status # "queued" \/ t \in hand
  /\ LetGo(vt[t], vj)
  /\ \/ vt[t].job # 0 /\ vj[vt[t].job].by = w
     \/ vt[t].job # 0 /\ t \in hand
     \/ /\ vt[t].job = tt[t].job
        /\ NoBlind(tt, jj, t) => tt[t].status = "blocked"
NewChild(tt, jj, vt, u) ==
  LET p == vt[u].parent
  IN  /\ p \in DOMAIN tt /\ vt[u].status = "ready" /\ vt[u].why = "none" /\ vt[u].job = 0
      /\ vt[u].depth < MaxDepth /\ vt[u].depth = GapOf(tt, p)
      /\ NoBlind(tt, jj, p) =>
           /\ vt[p] # tt[p] /\ Parked(vt[p])
           /\ \A t \in DOMAIN vt \ DOMAIN tt : vt[t].parent = p => t = u

\* The rows as w sees them: its own writes over the committed ones.
ViewRight(tt, jj, w, vt, vj, hand) ==
  /\ vt \in Seq(SupTasks) /\ vj \in Seq(SupJobs)
  /\ DOMAIN tt \subseteq DOMAIN vt /\ DOMAIN vj = DOMAIN jj
  /\ \A j \in DOMAIN jj : vj[j] # jj[j] => OwnJob(w, jj[j], vj[j])
  /\ \A t \in DOMAIN tt : vt[t] # tt[t] => OwnTask(tt, jj, w, vt, vj, hand, t)
  /\ \A u \in DOMAIN vt \ DOMAIN tt : NewChild(tt, jj, vt, u)

\* The task of a tick between its dispatch and its outcome.  As long as w holds
\* the job, nobody else has moved the task on.
AtHand(q) == q.at \in {"dispatched", "driving"}
HandOf(q) == IF q.at = "dispatched" THEN {q.task} ELSE {}
HandRight(tt, jj, w, vt, vj, q) ==
  LET t == q.task
      j == vt[t].job
  IN  /\ t \in DOMAIN tt /\ j # 0
      /\ vt[t] # tt[t] => vt[t].status = "running"
      /\ Holds(w, vj[j]) =>
           /\ NoBlind(tt, jj, t) => tt[t].status = "running"
           /\ Blindless(jj, t) => ~Settled(tt[t])
TasksOf(q, tt) == Over(q.mine.task, tt)
JobsOf(q, jj) == Over(q.mine.job, jj)

\* A tick: what it has open at which point, and that its view is right.
TickRight(tt, jj, w, q) ==
  /\ q.at \in SupMoments
  /\ q.at \in {"idle", "eligible", "completed", "cancelled", "blind"} =>
       DOMAIN q.mine.task = {} /\ DOMAIN q.mine.job = {}
  /\ DOMAIN q.mine.lease \subseteq {1}
  /\ q.at = "driving" => 1 \in DOMAIN q.mine.lease
  /\ q.at \in {"completed", "cancelled"} => q.task \in DOMAIN tt
  /\ ViewRight(tt, jj, w, TasksOf(q, tt), JobsOf(q, jj), HandOf(q))
  /\ AtHand(q) => HandRight(tt, jj, w, TasksOf(q, tt), JobsOf(q, jj), q)

\* Row locks: no row has two writers, and only one transaction inserts.
Apart(tt, k) ==
  \A w, x \in Ticks : w # x =>
    /\ DOMAIN k[w].mine.task \cap DOMAIN k[x].mine.task = {}
    /\ DOMAIN k[w].mine.job \cap DOMAIN k[x].mine.job = {}
    /\ DOMAIN k[w].mine.lease \cap DOMAIN k[x].mine.lease = {}
    /\ \/ DOMAIN k[w].mine.task \subseteq DOMAIN tt
       \/ DOMAIN k[x].mine.task \subseteq DOMAIN tt

\* The repairs of s that are not over, and the tick that has completed one and
\* has yet to make s ready: together at most one, and s is parked meanwhile.
OpenRepairs(tt, s) == {u \in DOMAIN tt : tt[u].parent = s /\ ~Settled(tt[u])}
Reassesses(tt, q, s) == q.at = "completed" /\ tt[q.task].parent = s
NoRepair(tt, k, s) ==
  OpenRepairs(tt, s) = {} /\ \A w \in Ticks : ~Reassesses(tt, k[w], s)
RepairsRight(tt, k, s) ==
  /\ \A t, u \in OpenRepairs(tt, s) : t = u
  /\ \A w \in Ticks : Reassesses(tt, k[w], s) =>
       /\ OpenRepairs(tt, s) = {}
       /\ \A x \in Ticks : Reassesses(tt, k[x], s) => w = x
  /\ NoRepair(tt, k, s) \/ Parked(tt[s])
  /\ \A w \in Ticks : TasksOf(k[w], tt)[s] # tt[s] => NoRepair(tt, k, s)

\* The invariant over the task rows tt, the job rows jj and the ticks k.
Right(tt, jj, k) ==
  /\ DbRight(tt, jj) /\ Apart(tt, k)
  /\ \A w \in Ticks : TickRight(tt, jj, w, k[w])
  /\ \A s \in DOMAIN tt : NoBlind(tt, jj, s) => RepairsRight(tt, k, s)

-----------------------------------------------------------------------------
(* What a step may do                                                      *)

\* How rows move, whoever writes them.
TaskMoves(r, n) == SameLineage(r, n) /\ (r.job # 0 => n.job # 0)
JobMoves(r, n) ==
  /\ n.task = r.task /\ (r.blind => n.blind) /\ (Settled(r) => Settled(n))
  /\ r.status # "queued" => n.status # "queued" /\ n.by = r.by
TablesMove(tt, jj, vt, vj) ==
  /\ DbRight(tt, jj) /\ DbRight(vt, vj)
  /\ DOMAIN tt \subseteq DOMAIN vt /\ DOMAIN jj \subseteq DOMAIN vj
  /\ \A t \in DOMAIN tt : TaskMoves(tt[t], vt[t])
  /\ \A j \in DOMAIN jj : JobMoves(jj[j], vj[j])

\* What a step leaves to a tick that does not take it, and to its task.
LeftAlone(tt, jj, vt, vj, q) ==
  /\ \A t \in DOMAIN q.mine.task \cap DOMAIN tt : vt[t] = tt[t]
  /\ \A j \in DOMAIN q.mine.job : vj[j] = jj[j]
  /\ DOMAIN q.mine.task \subseteq DOMAIN tt \/ DOMAIN vt = DOMAIN tt
HandLeft(tt, jj, vt, vj, x, q) ==
  LET t == q.task
      p == vt[t].job
      lost == p # 0 /\ (Settled(vj[p]) \/ vj[p].by \notin {x, NoWorker})
  IN  AtHand(q) /\ vt[t] # tt[t] =>
        /\ NoBlind(vt, vj, t) =>
             \/ vt[t].status = "running" \/ lost
             \/ p = tt[t].job /\ tt[t].status # "running"
        /\ Blindless(vj, t) => ~Settled(vt[t]) \/ lost

\* What a transaction may go on with, and what it may commit.
RowFree(k, w, t) == \A x \in Ticks \ {w} : t \notin DOMAIN k[x].mine.task
JobFree(k, w, j) == \A x \in Ticks \ {w} : j \notin DOMAIN k[x].mine.job
InsertsAlone(tt, k, w, vt) ==
  \/ DOMAIN vt = DOMAIN tt
  \/ \A x \in Ticks \ {w} : DOMAIN k[x].mine.task \subseteq DOMAIN tt
WriteRight(tt, jj, k, w, vt, vj, hand) ==
  /\ ViewRight(tt, jj, w, vt, vj, hand)
  /\ \A j \in DOMAIN jj : vj[j] # jj[j] => JobFree(k, w, j)
  /\ \A t \in DOMAIN tt : vt[t] # tt[t] =>
       /\ RowFree(k, w, t)
       /\ NoBlind(tt, jj, t) => NoRepair(tt, k, t)
  /\ InsertsAlone(tt, k, w, vt)

\* The same once the transaction commits: every new job is claimed.
CommitTask(tt, jj, k, w, vt, vj, t) ==
  /\ RowFree(k, w, t)
  /\ ~Settled(tt[t]) /\ ~Settled(vt[t]) /\ SameLineage(tt[t], vt[t])
  /\ tt[t].job # 0 => vt[t].job # 0
  /\ vt[t].job # 0 => vt[t].job \in DOMAIN jj /\ vj[vt[t].job].status # "queued"
  /\ LetGo(vt[t], vj)
  /\ \/ vt[t].status = "running"
     \/ vt[t].job # 0 /\ vj[vt[t].job].by = w
     \/ /\ vt[t].job = tt[t].job
        /\ NoBlind(tt, jj, t) => tt[t].status = "blocked"
  /\ NoBlind(tt, jj, t) => NoRepair(tt, k, t)
CommitRight(tt, jj, k, w, vt, vj) ==
  /\ vt \in Seq(SupTasks) /\ vj \in Seq(SupJobs)
  /\ DOMAIN tt \subseteq DOMAIN vt /\ DOMAIN jj \subseteq DOMAIN vj
  /\ \A j \in DOMAIN jj : vj[j] # jj[j] => JobFree(k, w, j) /\ OwnJob(w, jj[j], vj[j])
  /\ \A j \in DOMAIN vj \ DOMAIN jj :
       /\ vj[j].task \in DOMAIN vt
       /\ vj[j].status = "queued" => vj[j].by = NoWorker
  /\ \A t \in DOMAIN tt : vt[t] # tt[t] => CommitTask(tt, jj, k, w, vt, vj, t)
  /\ \A u \in DOMAIN vt \ DOMAIN tt : NewChild(tt, jj, vt, u)
  /\ InsertsAlone(tt, k, w, vt)

\* One more write of w to the task and job it holds (park, gap child), and the
\* claim of that job.
OwnWrite(tt, k, w, vt, vj, t, j, pt, pj) ==
  /\ Holds(w, vj[j]) /\ RowFree(k, w, t) /\ JobFree(k, w, j)
  /\ pj \in Seq(SupJobs) /\ DOMAIN pj = DOMAIN vj
  /\ \A i \in DOMAIN vj : i # j => pj[i] = vj[i]
  /\ pj[j].by = w /\ pj[j].status # "queued" /\ pj[j].task = vj[j].task
  /\ pj[j].blind = vj[j].blind
  /\ pt \in Seq(SupTasks) /\ DOMAIN vt \subseteq DOMAIN pt
  /\ \A i \in DOMAIN vt : i # t => pt[i] = vt[i]
  /\ SameLineage(vt[t], pt[t])
  /\ \/ pt[t] = vt[t]
     \/ /\ ~Settled(vt[t]) /\ pt[t].status = "blocked"
        /\ pt[t].job = j /\ LetGo(pt[t], pj)
  /\ \A u \in DOMAIN pt \ DOMAIN vt :
       /\ pt[u].parent = t /\ pt[u].status = "ready" /\ pt[u].why = "none"
       /\ pt[u].job = 0 /\ pt[u].depth < MaxDepth
       /\ pt[u].depth = GapOf(vt, t)
       /\ \A i \in DOMAIN pt \ DOMAIN vt : i = u
       /\ Settled(vt[t]) \/ Parked(pt[t])
  /\ InsertsAlone(tt, k, w, pt)

ClaimWrite(k, w, vj, j, pj) ==
  /\ JobFree(k, w, j) /\ (vj[j].status = "queued" \/ Holds(w, vj[j]))
  /\ pj \in Seq(SupJobs) /\ DOMAIN pj = DOMAIN vj
  /\ \A i \in DOMAIN vj : i # j => pj[i] = vj[i]
  /\ Holds(w, pj[j]) /\ pj[j].task = vj[j].task /\ pj[j].blind = vj[j].blind

\* The goal row, a tick's record, its lease writes and its bindings.
SupGoals == [status : {"running", "completed", "failed"}, instr : Nat, env : Nat]
IsTick(q) ==
  q = [at |-> q.at, env |-> q.env, instr |-> q.instr, bound |-> q.bound,
       task |-> q.task, deferred |-> q.deferred, ran |-> q.ran, mine |-> q.mine]
OwnLease(q) ==
  /\ DOMAIN q.mine.lease \subseteq {1}
  /\ \A i \in DOMAIN q.mine.lease : q.mine.lease[i] \in SupLeases
  /\ q.at \notin {"loop", "dispatched", "driving"} => DOMAIN q.mine.lease = {}
BoundIn(q, tt) == q.bound \subseteq DOMAIN tt

\* The inductive invariant.
SupRight ==
  /\ supGoal \in SupGoals
  /\ db = [task |-> db.task, job |-> db.job, lease |-> db.lease]
  /\ DOMAIN db.lease = {1} /\ db.lease[1] \in SupLeases
  /\ DOMAIN tick = Ticks
  /\ \A w \in Ticks : /\ IsTick(tick[w]) /\ OwnLease(tick[w])
                      /\ BoundIn(tick[w], db.task)
  /\ Right(db.task, db.job, tick)

\* A step of w that commits nothing and leaves it at q; k is the state of the
\* ticks it starts from.  The same for Goes.
TickStepRight(tt, jj, k, kt, w, vt, vj, q) ==
  /\ Right(tt, jj, k) /\ \A x \in Ticks \ {w} : k[x] = kt[x]
  /\ IsTick(q) /\ OwnLease(q) /\ BoundIn(q, tt)
  /\ WriteRight(tt, jj, k, w, vt, vj, HandOf(q))
  /\ q.mine.task = Changed(vt, tt) /\ q.mine.job = Changed(vj, jj)
  /\ \A x \in Ticks \ {w} : DOMAIN q.mine.lease \cap DOMAIN kt[x].mine.lease = {}
  /\ q.at \in {"loop", "dispatched", "driving"}
  /\ q.at = "driving" => 1 \in DOMAIN q.mine.lease
  /\ AtHand(q) => HandRight(tt, jj, w, vt, vj, q)
GoRight(tt, jj, ll, k, kt, w, t, vt, vj, vl) ==
  /\ Right(tt, jj, k) /\ \A x \in Ticks \ {w} : k[x] = kt[x]
  /\ IsTick(t) /\ BoundIn(t, tt) /\ t.mine = kt[w].mine
  /\ DOMAIN vl = {1} /\ vl[1] \in SupLeases
  /\ \A x \in Ticks \ {w} : DOMAIN Changed(vl, ll) \cap DOMAIN kt[x].mine.lease = {}
  /\ t.at \in {"loop", "dispatched"}
  /\ WriteRight(tt, jj, k, w, vt, vj, HandOf(t))
  /\ AtHand(t) => HandRight(tt, jj, w, vt, vj, t)

\* What the rest of the worker's round and the founder may write.
OutRight(tt, jj, k, vt, vj) ==
  /\ TablesMove(tt, jj, vt, vj) /\ DOMAIN vt = DOMAIN tt
  /\ \A x \in Ticks : LeftAlone(tt, jj, vt, vj, k[x])
  /\ \A x \in Ticks : HandLeft(tt, jj, vt, vj, x, k[x])
  /\ \A s \in DOMAIN tt : NoBlind(vt, vj, s) =>
       /\ OpenRepairs(vt, s) \subseteq OpenRepairs(tt, s)
       /\ vt[s] = tt[s] \/ ~Parked(tt[s])
\* A tick with nothing open.
Vacant(q, tt) ==
  /\ IsTick(q) /\ BoundIn(q, tt) /\ q.at \in {"idle", "blind"}
  /\ DOMAIN q.mine.task = {} /\ DOMAIN q.mine.job = {} /\ DOMAIN q.mine.lease = {}

-----------------------------------------------------------------------------
(* The view of a tick: its own rows over the committed ones                *)

\* Reading rows through a view, and which of its rows it has changed.
LEMMA OverIs ==
  ASSUME NEW own, NEW all
  PROVE  /\ DOMAIN Over(own, all) = DOMAIN own \cup DOMAIN all
         /\ \A i \in DOMAIN own : Over(own, all)[i] = own[i]
         /\ \A i \in DOMAIN all : i \notin DOMAIN own => Over(own, all)[i] = all[i]
BY DEF Over

\* The rows that differ from the tables, laid over them, are the view.
LEMMA OverChanged ==
  ASSUME NEW S, NEW v \in Seq(S), NEW d, DOMAIN d \subseteq DOMAIN v
  PROVE  /\ Over(Changed(v, d), d) = v
         /\ \A i : i \in DOMAIN Changed(v, d)
                     <=> i \in DOMAIN v /\ (i \in DOMAIN d => v[i] # d[i])
<1> DEFINE c == Changed(v, d)
           o == Over(c, d)
<1>1. DOMAIN c = {i \in DOMAIN v : i \in DOMAIN d => v[i] # d[i]}
  BY DEF Changed
<1>2. \A i \in DOMAIN c : c[i] = v[i]
  BY <1>1 DEF Changed
<1> HIDE DEF c
<1>3. /\ DOMAIN o = DOMAIN c \cup DOMAIN d
      /\ \A i \in DOMAIN c : o[i] = c[i]
      /\ \A i \in DOMAIN d : i \notin DOMAIN c => o[i] = d[i]
  BY OverIs
<1>4. o = [i \in DOMAIN o |-> o[i]]
  BY DEF Over
<1>5. v = [i \in DOMAIN v |-> v[i]]
  OBVIOUS
<1> HIDE DEF o
<1>6. DOMAIN o = DOMAIN v /\ \A i \in DOMAIN v : o[i] = v[i]
  BY <1>1, <1>2, <1>3
<1>7. o = v
  BY <1>4, <1>5, <1>6
<1> QED
  BY <1>1, <1>7 DEF o, c

\* A task no blind run has touched after a step had none before it.
LEMMA NoBlindBack ==
  ASSUME NEW tt, NEW jj, NEW vt, NEW vj, TablesMove(tt, jj, vt, vj), NEW t,
         NoBlind(vt, vj, t)
  PROVE  NoBlind(tt, jj, t)
<1> SUFFICES ASSUME NEW j \in DOMAIN jj, t \in {jj[j].task, tt[jj[j].task].parent}
             PROVE  ~jj[j].blind
  BY DEF NoBlind
<1>1. jj[j].task \in DOMAIN tt /\ j \in DOMAIN vj
  BY DEF TablesMove, DbRight
<1>2. JobMoves(jj[j], vj[j]) /\ TaskMoves(tt[jj[j].task], vt[jj[j].task])
  BY <1>1 DEF TablesMove
<1>3. t \in {vj[j].task, vt[vj[j].task].parent}
  BY <1>2 DEF JobMoves, TaskMoves, SameLineage
<1> QED
  BY <1>1, <1>2, <1>3 DEF NoBlind, JobMoves

\* The same of a task alone.
LEMMA BlindlessBack ==
  ASSUME NEW tt, NEW jj, NEW vt, NEW vj, TablesMove(tt, jj, vt, vj), NEW t,
         Blindless(vj, t)
  PROVE  Blindless(jj, t)
BY DEF Blindless, TablesMove, JobMoves

\* What another step does, as a tick sees it.
LEMMA Bystander ==
  ASSUME NEW tt, NEW jj, NEW vt, NEW vj, TablesMove(tt, jj, vt, vj),
         NoWorker \notin Ticks, NEW x \in Ticks, NEW q, TickRight(tt, jj, x, q),
         LeftAlone(tt, jj, vt, vj, q), HandLeft(tt, jj, vt, vj, x, q)
  PROVE  TickRight(vt, vj, x, q)
<1> DEFINE ot == q.mine.task
           oj == q.mine.job
           old == TasksOf(q, tt)
           new == TasksOf(q, vt)
           oldj == JobsOf(q, jj)
           newj == JobsOf(q, vj)
           hand == HandOf(q)
<1>1. /\ DOMAIN old = DOMAIN ot \cup DOMAIN tt
      /\ \A i \in DOMAIN ot : old[i] = ot[i]
      /\ \A i \in DOMAIN tt : i \notin DOMAIN ot => old[i] = tt[i]
  BY OverIs DEF TasksOf
<1>2. /\ DOMAIN new = DOMAIN ot \cup DOMAIN vt
      /\ \A i \in DOMAIN ot : new[i] = ot[i]
      /\ \A i \in DOMAIN vt : i \notin DOMAIN ot => new[i] = vt[i]
  BY OverIs DEF TasksOf
<1>3. /\ DOMAIN oldj = DOMAIN oj \cup DOMAIN jj
      /\ \A i \in DOMAIN oj : oldj[i] = oj[i]
      /\ \A i \in DOMAIN jj : i \notin DOMAIN oj => oldj[i] = jj[i]
  BY OverIs DEF JobsOf
<1>4. /\ DOMAIN newj = DOMAIN oj \cup DOMAIN vj
      /\ \A i \in DOMAIN oj : newj[i] = oj[i]
      /\ \A i \in DOMAIN vj : i \notin DOMAIN oj => newj[i] = vj[i]
  BY OverIs DEF JobsOf
<1>5. ViewRight(tt, jj, x, old, oldj, hand)
  BY DEF TickRight
<1>5a. new = [i \in DOMAIN new |-> new[i]] /\ newj = [i \in DOMAIN newj |-> newj[i]]
  BY DEF TasksOf, JobsOf, Over
<1> HIDE DEF old, new, oldj, newj, hand, ot, oj
<1>6. /\ DOMAIN tt \subseteq DOMAIN vt /\ DOMAIN jj \subseteq DOMAIN vj
      /\ vt \in Seq(SupTasks) /\ vj \in Seq(SupJobs)
      /\ tt \in Seq(SupTasks) /\ jj \in Seq(SupJobs)
  BY DEF TablesMove, DbRight
<1>7. /\ \A i \in DOMAIN ot : i \in DOMAIN tt => vt[i] = tt[i]
      /\ \A i \in DOMAIN oj : vj[i] = jj[i]
      /\ DOMAIN ot \subseteq DOMAIN tt \/ DOMAIN vt = DOMAIN tt
  BY DEF LeftAlone, ot, oj
<1>8. DOMAIN oj \subseteq DOMAIN jj /\ old \in Seq(SupTasks) /\ oldj \in Seq(SupJobs)
  BY <1>3, <1>5 DEF ViewRight
<1>8a. \A i \in DOMAIN vt : vt[i] \in SupTasks
  BY <1>6
<1>8b. \A i \in DOMAIN old : old[i] \in SupTasks
  BY <1>8
<1>8c. \A i \in DOMAIN vj : vj[i] \in SupJobs
  BY <1>6
<1>8d. \A i \in DOMAIN oldj : oldj[i] \in SupJobs
  BY <1>8
<1>9. DOMAIN newj = DOMAIN vj /\ newj \in Seq(SupJobs)
  <2>1. DOMAIN newj = DOMAIN vj
    BY <1>4, <1>6, <1>8
  <2>2. \A i \in DOMAIN vj : newj[i] \in SupJobs
    BY <1>3, <1>4, <1>6, <1>8, <1>8c, <1>8d
  <2>3. DOMAIN vj = 1..Len(vj) /\ Len(vj) \in Nat
    BY <1>6
  <2>4. newj \in [1..Len(vj) -> SupJobs]
    BY <1>5a, <2>1, <2>2, <2>3
  <2> QED
    BY <2>1, <2>3, <2>4
<1>10. new \in Seq(SupTasks) /\ DOMAIN vt \subseteq DOMAIN new
  <2>1. DOMAIN new = DOMAIN vt \/ DOMAIN new = DOMAIN old
    BY <1>1, <1>2, <1>6, <1>7
  <2>2. \A i \in DOMAIN new : new[i] \in SupTasks
    BY <1>1, <1>2, <1>6, <1>8, <1>8a, <1>8b
  <2>3. PICK n \in Nat : DOMAIN new = 1..n
    <3>1. DOMAIN vt = 1..Len(vt) /\ Len(vt) \in Nat /\ DOMAIN old = 1..Len(old) /\ Len(old) \in Nat
      BY <1>6, <1>8
    <3> QED
      BY <2>1, <3>1
  <2>4. new \in [1..n -> SupTasks]
    BY <1>5a, <2>2, <2>3
  <2>5. DOMAIN vt \subseteq DOMAIN new
    BY <1>2
  <2> QED
    BY <2>4, <2>5
\* a job in the view moves like its row
<1>11. \A j \in DOMAIN jj :
         /\ JobMoves(oldj[j], newj[j])
         /\ newj[j] # vj[j] => oldj[j] # jj[j] /\ newj[j] = oldj[j] /\ vj[j] = jj[j]
         /\ j \in DOMAIN newj
  <2> TAKE j \in DOMAIN jj
  <2>1. CASE j \in DOMAIN oj
    <3>1. newj[j] = oldj[j] /\ vj[j] = jj[j]
      BY <1>3, <1>4, <1>7, <2>1
    <3> QED
      BY <3>1, <1>4, <2>1 DEF JobMoves
  <2>2. CASE j \notin DOMAIN oj
    <3>1. newj[j] = vj[j] /\ oldj[j] = jj[j]
      BY <1>3, <1>4, <1>6, <2>2
    <3> QED
      BY <3>1, <1>6, <1>9 DEF TablesMove
  <2> QED
    BY <2>1, <2>2
<1>12. \A j \in DOMAIN vj : newj[j] # vj[j] => OwnJob(x, vj[j], newj[j])
  <2> SUFFICES ASSUME NEW j \in DOMAIN vj, newj[j] # vj[j]
               PROVE  OwnJob(x, vj[j], newj[j])
    OBVIOUS
  <2>1. j \in DOMAIN jj
    BY <1>4, <1>8
  <2> QED
    BY <2>1, <1>11, <1>5 DEF ViewRight
\* a task in the view is the same, or not written by the tick
<1>13. \A t \in DOMAIN tt :
         new[t] # vt[t] => old[t] # tt[t] /\ new[t] = old[t] /\ vt[t] = tt[t]
  BY <1>1, <1>2, <1>6, <1>7
<1>14. \A t \in DOMAIN vt : new[t] # vt[t] => OwnTask(vt, vj, x, new, newj, hand, t)
  <2> SUFFICES ASSUME NEW t \in DOMAIN vt, new[t] # vt[t]
               PROVE  OwnTask(vt, vj, x, new, newj, hand, t)
    OBVIOUS
  <2>1. t \in DOMAIN tt
    BY <1>2, <1>7
  <2>2. old[t] # tt[t] /\ new[t] = old[t] /\ vt[t] = tt[t]
    BY <1>13, <2>1
  <2>3. OwnTask(tt, jj, x, old, oldj, hand, t)
    BY <2>1, <2>2, <1>5 DEF ViewRight
  <2>4. new[t].job # 0 => /\ new[t].job \in DOMAIN jj /\ new[t].job \in DOMAIN vj
                          /\ JobMoves(oldj[new[t].job], newj[new[t].job])
    BY <2>2, <2>3, <1>6, <1>11 DEF OwnTask
  <2>5. LetGo(new[t], newj)
    BY <2>2, <2>3, <2>4 DEF OwnTask, LetGo, JobMoves
  <2>6. new[t].job # 0 => newj[new[t].job].status # "queued" \/ t \in hand
    BY <2>2, <2>3, <2>4 DEF OwnTask, JobMoves
  <2>7. \/ new[t].job # 0 /\ newj[new[t].job].by = x
        \/ new[t].job # 0 /\ t \in hand
        \/ /\ new[t].job = vt[t].job
           /\ NoBlind(vt, vj, t) => vt[t].status = "blocked"
    <3>1. CASE new[t].job # 0 /\ oldj[new[t].job].by = x
      <4>1. CASE oldj[new[t].job].status = "queued"
        <5>1. t \in hand
          BY <2>2, <2>3, <3>1, <4>1 DEF OwnTask
        <5> QED
          BY <5>1, <3>1
      <4>2. CASE oldj[new[t].job].status # "queued"
        BY <4>2, <3>1, <2>4 DEF JobMoves
      <4> QED
        BY <4>1, <4>2
    <3>2. CASE new[t].job # 0 /\ t \in hand
      BY <3>2
    <3>3. CASE /\ new[t].job = tt[t].job
               /\ NoBlind(tt, jj, t) => tt[t].status = "blocked"
      BY <3>3, <2>2, NoBlindBack
    <3> QED
      BY <3>1, <3>2, <3>3, <2>2, <2>3 DEF OwnTask
  <2> QED
    BY <2>2, <2>3, <2>4, <2>5, <2>6, <2>7 DEF OwnTask
<1>15. \A u \in DOMAIN new \ DOMAIN vt : NewChild(vt, vj, new, u)
  <2> SUFFICES ASSUME NEW u \in DOMAIN new \ DOMAIN vt
               PROVE  NewChild(vt, vj, new, u)
    OBVIOUS
  <2> DEFINE p == new[u].parent
  <2>1. u \in DOMAIN ot /\ u \notin DOMAIN tt /\ DOMAIN vt = DOMAIN tt /\ new[u] = old[u]
    BY <1>1, <1>2, <1>6, <1>7
  <2>2. NewChild(tt, jj, old, u)
    BY <2>1, <1>1, <1>5 DEF ViewRight
  <2>3. p \in DOMAIN tt /\ TaskMoves(tt[p], vt[p])
    BY <2>1, <2>2 DEF NewChild, TablesMove
  <2>4. GapOf(vt, p) = GapOf(tt, p)
    BY <2>3 DEF GapOf, TaskMoves, SameLineage
  <2>5. DOMAIN new = DOMAIN old
    BY <1>1, <1>2, <2>1
  <2>6. NoBlind(vt, vj, p) =>
           /\ new[p] # vt[p] /\ Parked(new[p])
           /\ \A t \in DOMAIN new \ DOMAIN vt : new[t].parent = p => t = u
    <3> SUFFICES ASSUME NoBlind(vt, vj, p)
                 PROVE  /\ new[p] # vt[p] /\ Parked(new[p])
                        /\ \A t \in DOMAIN new \ DOMAIN vt : new[t].parent = p => t = u
      OBVIOUS
    <3>1. NoBlind(tt, jj, p)
      BY NoBlindBack
    <3>2. /\ old[p] # tt[p] /\ Parked(old[p])
          /\ \A t \in DOMAIN old \ DOMAIN tt : old[t].parent = p => t = u
      BY <3>1, <2>1, <2>2 DEF NewChild
    <3>3. p \in DOMAIN ot /\ new[p] = old[p] /\ vt[p] = tt[p]
      BY <3>2, <2>3, <1>1, <1>2, <1>7
    <3>4. \A t \in DOMAIN new \ DOMAIN vt : new[t] = old[t]
      BY <1>1, <1>2
    <3> QED
      BY <3>2, <3>3, <3>4, <2>1, <2>5
  <2> QED
    BY <2>1, <2>2, <2>3, <2>4, <2>6, <1>6 DEF NewChild
<1>16. ViewRight(vt, vj, x, new, newj, hand)
  BY <1>9, <1>10, <1>12, <1>14, <1>15 DEF ViewRight
<1>17. AtHand(q) => HandRight(vt, vj, x, new, newj, q)
  <2> SUFFICES ASSUME AtHand(q)
               PROVE  HandRight(vt, vj, x, new, newj, q)
    OBVIOUS
  <2> DEFINE t == q.task
             j == old[t].job
             p == new[t].job
  <2>1. HandRight(tt, jj, x, old, oldj, q)
    BY DEF TickRight, old, oldj
  <2>2. t \in DOMAIN tt /\ j # 0 /\ t \in DOMAIN vt
    BY <2>1, <1>6 DEF HandRight
  <2>3. new[t] # vt[t] => new[t].status = "running"
    BY <2>1, <2>2, <1>13 DEF HandRight
  <2>4. CASE new[t] # vt[t]
    <3>1. old[t] # tt[t] /\ new[t] = old[t] /\ vt[t] = tt[t]
      BY <2>2, <2>4, <1>13
    <3>2. OwnTask(tt, jj, x, old, oldj, hand, t)
      BY <3>1, <2>2, <1>5 DEF ViewRight
    <3>3. tt[t].status = "running" /\ ~Settled(tt[t])
      BY <3>1, <3>2, <2>3, <2>4 DEF OwnTask
    <3> QED
      BY <3>1, <3>3, <2>2, <2>3 DEF HandRight
  <2>5. CASE new[t] = vt[t]
    <3>1. vt[t].job # 0 /\ p # 0
      <4>1. old[t] = tt[t] \/ new[t] = old[t]
        BY <2>2, <1>1, <1>2
      <4>2. tt[t].job # 0 => vt[t].job # 0
        BY <2>2 DEF TablesMove, TaskMoves
      <4> QED
        BY <4>1, <4>2, <2>2, <2>5
    <3>2. ASSUME Holds(x, newj[p])
          PROVE  /\ NoBlind(vt, vj, t) => vt[t].status = "running"
                 /\ Blindless(vj, t) => ~Settled(vt[t])
      <4>1. /\ NoBlind(vt, vj, t) => NoBlind(tt, jj, t)
            /\ Blindless(vj, t) => Blindless(jj, t)
        BY NoBlindBack, BlindlessBack
      <4>2. p \in DOMAIN vj /\ vj[p].status # "queued"
        BY <3>1, <2>2, <2>5 DEF TablesMove, DbRight
      \* a job at the view's end of the pointer was there before
      <4>3. ASSUME p = j, old[t] = tt[t]
            PROVE  Holds(x, oldj[j])
        <5>1. p \in DOMAIN jj /\ jj[p].status # "queued"
          BY <4>3, <2>2 DEF TablesMove, DbRight
        <5>2. JobMoves(oldj[p], newj[p])
          BY <5>1, <1>11
        <5>3. oldj[p].status # "queued"
          <6>1. oldj[p] # jj[p] => OwnJob(x, jj[p], oldj[p])
            BY <5>1, <1>5 DEF ViewRight
          <6> QED
            BY <6>1, <5>1 DEF OwnJob
        <5>4. oldj[p] \in SupJobs
          BY <5>1, <1>8d, <1>3
        <5> QED
          BY <4>3, <5>2, <5>3, <5>4, <3>2
             DEF JobMoves, Holds, Settled, SupJobs, SupJobStatuses, SupTerminal
      <4>4. ASSUME p = j, old[t] = tt[t]
            PROVE  /\ NoBlind(vt, vj, t) => tt[t].status = "running"
                   /\ Blindless(vj, t) => ~Settled(tt[t])
        BY <4>1, <4>3, <4>4, <2>1 DEF HandRight
      <4>5. CASE vt[t] = tt[t]
        <5>1. CASE old[t] = tt[t]
          BY <5>1, <4>5, <4>4, <2>5
        <5>2. CASE old[t] # tt[t]
          <6>1. old[t].status = "running" /\ OwnTask(tt, jj, x, old, oldj, hand, t)
            BY <5>2, <2>1, <2>2, <1>5 DEF HandRight, ViewRight
          <6> QED
            BY <6>1, <4>5 DEF OwnTask
        <5> QED
          BY <5>1, <5>2
      <4>6. CASE vt[t] # tt[t]
        <5>1. t \notin DOMAIN ot /\ old[t] = tt[t]
          BY <4>6, <2>2, <1>1, <1>7
        <5>2. /\ ~Settled(vj[p]) /\ vj[p].by \in {x, NoWorker}
          <6>1. CASE newj[p] # vj[p]
            <7>1. OwnJob(x, vj[p], newj[p])
              BY <6>1, <4>2, <1>12
            <7> QED
              BY <7>1, <4>2 DEF OwnJob
          <6>2. CASE newj[p] = vj[p]
            BY <6>2, <3>2 DEF Holds, Settled, SupTerminal
          <6> QED
            BY <6>1, <6>2
        <5>3. /\ NoBlind(vt, vj, t) => \/ vt[t].status = "running"
                                       \/ p = tt[t].job /\ tt[t].status # "running"
              /\ Blindless(vj, t) => ~Settled(vt[t])
          BY <4>6, <5>2, <2>5 DEF HandLeft
        <5> QED
          BY <5>1, <5>3, <4>4
      <4> QED
        BY <4>5, <4>6
    <3> QED
      BY <3>1, <3>2, <2>2, <2>5 DEF HandRight
  <2> QED
    BY <2>4, <2>5
<1> QED
  <2>1. q.at \in {"completed", "cancelled"} => q.task \in DOMAIN vt
    BY <1>6 DEF TickRight
  <2> QED
    BY <1>16, <1>17, <2>1 DEF TickRight, new, newj, hand

-----------------------------------------------------------------------------
(* Commits: the rows of a tick become the tables                           *)

\* Committing a view makes it the tables.
LEMMA WriteCommits ==
  ASSUME NEW tt, NEW jj, NEW k, NEW w, NEW vt, NEW vj,
         WriteRight(tt, jj, k, w, vt, vj, {})
  PROVE  CommitRight(tt, jj, k, w, vt, vj)
<1>1. ViewRight(tt, jj, w, vt, vj, {})
  BY DEF WriteRight
<1>2. \A t \in DOMAIN tt : vt[t] # tt[t] => CommitTask(tt, jj, k, w, vt, vj, t)
  <2> SUFFICES ASSUME NEW t \in DOMAIN tt, vt[t] # tt[t]
               PROVE  CommitTask(tt, jj, k, w, vt, vj, t)
    OBVIOUS
  <2>1. OwnTask(tt, jj, w, vt, vj, {}, t)
    BY <1>1 DEF ViewRight
  <2>2. RowFree(k, w, t) /\ (NoBlind(tt, jj, t) => NoRepair(tt, k, t))
    BY DEF WriteRight
  <2> QED
    BY <2>1, <2>2 DEF OwnTask, CommitTask
<1> QED
  BY <1>1, <1>2 DEF ViewRight, WriteRight, CommitRight

\* The view a tick has of itself is right.
LEMMA ViewNow ==
  ASSUME NEW tt, NEW jj, NEW k, Right(tt, jj, k), NEW w \in Ticks
  PROVE  WriteRight(tt, jj, k, w, TasksOf(k[w], tt), JobsOf(k[w], jj), HandOf(k[w]))
<1> DEFINE q == k[w]
           vt == TasksOf(q, tt)
           vj == JobsOf(q, jj)
<1>1. ViewRight(tt, jj, w, vt, vj, HandOf(q))
  BY DEF Right, TickRight
<1>2. /\ \A t \in DOMAIN tt : vt[t] # tt[t] => t \in DOMAIN q.mine.task
      /\ \A j \in DOMAIN jj : vj[j] # jj[j] => j \in DOMAIN q.mine.job
      /\ DOMAIN vt = DOMAIN q.mine.task \cup DOMAIN tt
  <2>1. /\ DOMAIN vt = DOMAIN q.mine.task \cup DOMAIN tt
        /\ \A t \in DOMAIN tt : t \notin DOMAIN q.mine.task => vt[t] = tt[t]
    BY OverIs DEF TasksOf
  <2>2. \A j \in DOMAIN jj : j \notin DOMAIN q.mine.job => vj[j] = jj[j]
    BY OverIs DEF JobsOf
  <2> QED
    BY <2>1, <2>2
<1>3. \A t \in DOMAIN q.mine.task : RowFree(k, w, t)
  BY DEF Right, Apart, RowFree
<1>4. \A j \in DOMAIN q.mine.job : JobFree(k, w, j)
  BY DEF Right, Apart, JobFree
<1>5. InsertsAlone(tt, k, w, vt)
  BY <1>2 DEF Right, Apart, InsertsAlone
<1>6. \A t \in DOMAIN tt : vt[t] # tt[t] /\ NoBlind(tt, jj, t) => NoRepair(tt, k, t)
  BY DEF Right, RepairsRight
<1> HIDE DEF vt, vj, q
<1> QED
  <2>1. WriteRight(tt, jj, k, w, vt, vj, HandOf(q))
    BY <1>1, <1>2, <1>3, <1>4, <1>5, <1>6 DEF WriteRight
  <2> QED
    BY <2>1 DEF q, vt, vj

\* Repairs stay right when tasks move and none is opened.
LEMMA RepairsMove ==
  ASSUME NEW tt, NEW jj, NEW vt, NEW vj, NEW k, NEW k2, Right(tt, jj, k),
         TablesMove(tt, jj, vt, vj), NEW s \in DOMAIN tt, NoBlind(vt, vj, s),
         OpenRepairs(vt, s) \subseteq OpenRepairs(tt, s),
         \A x \in Ticks : Reassesses(vt, k2[x], s) => Reassesses(tt, k[x], s),
         vt[s] = tt[s] \/ NoRepair(tt, k, s) \/ ~Parked(tt[s]),
         \A x \in Ticks : TasksOf(k2[x], vt)[s] # vt[s] => NoRepair(tt, k, s)
  PROVE  RepairsRight(vt, k2, s)
<1>1. RepairsRight(tt, k, s)
  BY NoBlindBack DEF Right
<1>2. NoRepair(tt, k, s) => NoRepair(vt, k2, s)
  BY DEF NoRepair
<1> QED
  BY <1>1, <1>2 DEF RepairsRight

\* A source that gets its first repair is parked with it.
LEMMA RepairsBegin ==
  ASSUME NEW tt, NEW vt, NEW k, NEW k2, NEW s,
         \A t, u \in OpenRepairs(vt, s) : t = u, Parked(vt[s]),
         \A x \in Ticks : ~Reassesses(vt, k2[x], s),
         \A x \in Ticks : TasksOf(k2[x], vt)[s] = vt[s]
  PROVE  RepairsRight(vt, k2, s)
BY DEF RepairsRight

\* What a right view commits is a legal move of the tables.
LEMMA CommitMoves ==
  ASSUME NEW tt, NEW jj, NEW k, NEW w \in Ticks, NEW vt, NEW vj,
         NoWorker \notin Ticks, DbRight(tt, jj), CommitRight(tt, jj, k, w, vt, vj)
  PROVE  TablesMove(tt, jj, vt, vj)
<1>1. /\ tt \in Seq(SupTasks) /\ jj \in Seq(SupJobs)
      /\ vt \in Seq(SupTasks) /\ vj \in Seq(SupJobs)
      /\ DOMAIN tt \subseteq DOMAIN vt /\ DOMAIN jj \subseteq DOMAIN vj
  BY DEF DbRight, CommitRight
<1>2. \A j \in DOMAIN jj : JobMoves(jj[j], vj[j])
  <2> TAKE j \in DOMAIN jj
  <2>1. vj[j] # jj[j] => OwnJob(w, jj[j], vj[j])
    BY DEF CommitRight
  <2> QED
    BY <2>1 DEF OwnJob, JobMoves
<1>3. \A t \in DOMAIN tt : TaskMoves(tt[t], vt[t])
  <2> TAKE t \in DOMAIN tt
  <2>1. vt[t] # tt[t] => CommitTask(tt, jj, k, w, vt, vj, t)
    BY DEF CommitRight
  <2> QED
    BY <2>1 DEF CommitTask, TaskMoves, SameLineage
<1>4. \A j \in DOMAIN vj : /\ vj[j].task \in DOMAIN vt
                           /\ vj[j].status = "queued" => vj[j].by = NoWorker
  <2> TAKE j \in DOMAIN vj
  <2>1. CASE j \in DOMAIN jj
    <3>1. vj[j] # jj[j] => OwnJob(w, jj[j], vj[j])
      BY <2>1 DEF CommitRight
    <3>2. jj[j].task \in DOMAIN tt /\ (jj[j].status = "queued" => jj[j].by = NoWorker)
      BY <2>1 DEF DbRight
    <3> QED
      BY <3>1, <3>2, <1>1 DEF OwnJob
  <2>2. CASE j \notin DOMAIN jj
    BY <2>2 DEF CommitRight
  <2> QED
    BY <2>1, <2>2
<1>5. \A t \in DOMAIN vt :
       /\ vt[t].job # 0 => vt[t].job \in DOMAIN vj /\ vj[vt[t].job].status # "queued"
       /\ LetGo(vt[t], vj)
  <2> TAKE t \in DOMAIN vt
  <2>1. CASE t \in DOMAIN tt /\ vt[t] = tt[t]
    <3>1. vt[t].job # 0 => vt[t].job \in DOMAIN jj /\ jj[vt[t].job].status # "queued"
      BY <2>1 DEF DbRight
    <3>2. vt[t].job # 0 => JobMoves(jj[vt[t].job], vj[vt[t].job])
      BY <3>1, <1>2
    <3>3. LetGo(vt[t], jj)
      BY <2>1 DEF DbRight
    <3> QED
      BY <3>1, <3>2, <3>3, <1>1 DEF JobMoves, LetGo
  <2>2. CASE t \in DOMAIN tt /\ vt[t] # tt[t]
    <3>1. CommitTask(tt, jj, k, w, vt, vj, t)
      BY <2>2 DEF CommitRight
    <3> QED
      BY <3>1, <1>1 DEF CommitTask
  <2>3. CASE t \notin DOMAIN tt
    <3>1. vt[t].job = 0
      BY <2>3 DEF CommitRight, NewChild
    <3> QED
      BY <3>1 DEF LetGo
  <2> QED
    BY <2>1, <2>2, <2>3
<1>6. \A p \in DOMAIN tt : GapOf(vt, p) = GapOf(tt, p)
  BY <1>3 DEF GapOf, TaskMoves, SameLineage
<1>7. \A t \in DOMAIN vt : vt[t].parent # 0 =>
        /\ vt[t].parent \in 1..(t - 1)
        /\ vt[t].depth < MaxDepth /\ vt[t].depth = GapOf(vt, vt[t].parent)
  <2> SUFFICES ASSUME NEW t \in DOMAIN vt, vt[t].parent # 0
               PROVE  /\ vt[t].parent \in 1..(t - 1)
                      /\ vt[t].depth < MaxDepth /\ vt[t].depth = GapOf(vt, vt[t].parent)
    OBVIOUS
  <2>1. /\ DOMAIN tt = 1..Len(tt) /\ Len(tt) \in Nat
        /\ DOMAIN vt = 1..Len(vt) /\ Len(vt) \in Nat
    BY <1>1
  <2>2. CASE t \in DOMAIN tt
    <3>1. SameLineage(tt[t], vt[t])
      BY <2>2, <1>3 DEF TaskMoves
    <3>2. /\ tt[t].parent \in 1..(t - 1)
          /\ tt[t].depth < MaxDepth /\ tt[t].depth = GapOf(tt, tt[t].parent)
      BY <2>2, <3>1 DEF DbRight, SameLineage
    <3>3. tt[t].parent \in DOMAIN tt
      BY <3>2, <2>1, <2>2
    <3> QED
      BY <3>1, <3>2, <3>3, <1>6 DEF SameLineage
  <2>3. CASE t \notin DOMAIN tt
    <3>1. NewChild(tt, jj, vt, t)
      BY <2>3 DEF CommitRight
    <3>2. vt[t].parent \in DOMAIN tt
      BY <3>1 DEF NewChild
    <3>3. vt[t].parent \in 1..(t - 1)
      BY <3>2, <2>1, <2>3
    <3> QED
      BY <3>1, <3>2, <3>3, <1>6 DEF NewChild
  <2> QED
    BY <2>2, <2>3
<1>8. DbRight(vt, vj)
  BY <1>1, <1>4, <1>5, <1>7 DEF DbRight
<1> QED
  BY <1>1, <1>2, <1>3, <1>8 DEF TablesMove

\* Which rows a tick reads as its own after another's step.
LEMMA ViewAfter ==
  ASSUME NEW tt, NEW jj, NEW vt, NEW vj, NEW q, LeftAlone(tt, jj, vt, vj, q),
         NEW s \in DOMAIN tt, DOMAIN tt \subseteq DOMAIN vt
  PROVE  TasksOf(q, vt)[s] # vt[s] =>
           TasksOf(q, tt)[s] # tt[s] /\ s \in DOMAIN q.mine.task
<1> DEFINE ot == q.mine.task
           new == TasksOf(q, vt)
           old == TasksOf(q, tt)
<1>1. /\ \A i \in DOMAIN ot : new[i] = ot[i]
      /\ \A i \in DOMAIN vt : i \notin DOMAIN ot => new[i] = vt[i]
  BY DEF TasksOf, Over
<1>2. /\ \A i \in DOMAIN ot : old[i] = ot[i]
      /\ \A i \in DOMAIN tt : i \notin DOMAIN ot => old[i] = tt[i]
  BY DEF TasksOf, Over
<1>3. s \in DOMAIN ot => vt[s] = tt[s]
  BY DEF LeftAlone
<1> HIDE DEF ot, new, old
<1>4. new[s] # vt[s] => old[s] # tt[s] /\ s \in DOMAIN ot
  BY <1>1, <1>2, <1>3
<1> QED
  BY <1>4 DEF ot, new, old

\* A tick commits what it may and goes on with no rows of its own.
LEMMA Committed ==
  ASSUME NEW tt, NEW jj, NEW k, NEW w \in Ticks, NEW vt, NEW vj, NEW k2,
         NoWorker \notin Ticks, Right(tt, jj, k), CommitRight(tt, jj, k, w, vt, vj),
         \A x \in Ticks \ {w} : k2[x] = k[x],
         DOMAIN k2[w].mine.task = {}, DOMAIN k2[w].mine.job = {},
         DOMAIN k2[w].mine.lease \subseteq DOMAIN k[w].mine.lease,
         k2[w].at \in SupMoments \ {"completed"},
         k2[w].at = "driving" => 1 \in DOMAIN k2[w].mine.lease,
         k2[w].at \in {"idle", "eligible", "cancelled", "blind"} =>
           DOMAIN k2[w].mine.lease = {},
         k2[w].at = "cancelled" => k2[w].task \in DOMAIN vt,
         AtHand(k2[w]) => HandRight(vt, vj, w, vt, vj, k2[w])
  PROVE  Right(vt, vj, k2)
<1>1. TablesMove(tt, jj, vt, vj)
  BY CommitMoves DEF Right
<1>2. /\ DbRight(tt, jj) /\ Apart(tt, k) /\ \A x \in Ticks : TickRight(tt, jj, x, k[x])
      /\ \A s \in DOMAIN tt : NoBlind(tt, jj, s) => RepairsRight(tt, k, s)
  BY DEF Right
<1>3. /\ DOMAIN tt \subseteq DOMAIN vt /\ DOMAIN jj \subseteq DOMAIN vj
      /\ DbRight(vt, vj)
      /\ \A t \in DOMAIN tt : TaskMoves(tt[t], vt[t])
  BY <1>1 DEF TablesMove
<1>4. \A x \in Ticks \ {w} : LeftAlone(tt, jj, vt, vj, k[x])
  <2> TAKE x \in Ticks \ {w}
  <2>1. \A t \in DOMAIN k[x].mine.task \cap DOMAIN tt : vt[t] = tt[t]
    BY DEF CommitRight, CommitTask, RowFree
  <2>2. DOMAIN k[x].mine.job \subseteq DOMAIN jj
    <3>1. DOMAIN JobsOf(k[x], jj) = DOMAIN k[x].mine.job \cup DOMAIN jj
      BY OverIs DEF JobsOf
    <3> QED
      BY <3>1, <1>2 DEF TickRight, ViewRight
  <2>3. \A j \in DOMAIN k[x].mine.job : vj[j] = jj[j]
    BY <2>2 DEF CommitRight, JobFree
  <2>4. DOMAIN k[x].mine.task \subseteq DOMAIN tt \/ DOMAIN vt = DOMAIN tt
    BY DEF CommitRight, InsertsAlone
  <2> QED
    BY <2>1, <2>3, <2>4 DEF LeftAlone
<1>5. \A x \in Ticks \ {w} : HandLeft(tt, jj, vt, vj, x, k[x])
  <2> TAKE x \in Ticks \ {w}
  <2> DEFINE q == k[x]
             t == q.task
             p == vt[t].job
  <2> SUFFICES ASSUME AtHand(q), vt[t] # tt[t]
               PROVE  HandLeft(tt, jj, vt, vj, x, q)
    BY DEF HandLeft
  <2>1. t \in DOMAIN tt
    BY <1>2 DEF TickRight, HandRight
  <2>2. CommitTask(tt, jj, k, w, vt, vj, t)
    BY <2>1 DEF CommitRight
  <2>3. NoBlind(vt, vj, t) => NoBlind(tt, jj, t)
    BY <1>1, NoBlindBack
  <2> QED
    BY <2>2, <2>3 DEF CommitTask, HandLeft
<1>6. \A x \in Ticks \ {w} : TickRight(vt, vj, x, k2[x])
  BY <1>1, <1>2, <1>4, <1>5, Bystander
<1>7. TasksOf(k2[w], vt) = vt /\ JobsOf(k2[w], vj) = vj
  <2>1. vt \in Seq(SupTasks) /\ vj \in Seq(SupJobs)
    BY <1>3 DEF DbRight
  <2>2. vt = [i \in DOMAIN vt |-> vt[i]] /\ vj = [i \in DOMAIN vj |-> vj[i]]
    BY <2>1
  <2> QED
    BY <2>2 DEF TasksOf, JobsOf, Over
<1>8. TickRight(vt, vj, w, k2[w])
  <2>1. ViewRight(vt, vj, w, vt, vj, HandOf(k2[w]))
    BY <1>3 DEF DbRight, ViewRight
  <2>2. DOMAIN k2[w].mine.lease \subseteq {1}
    BY <1>2 DEF TickRight
  <2> QED
    BY <1>7, <2>1, <2>2 DEF TickRight
<1>9. Apart(vt, k2)
  <2> SUFFICES ASSUME NEW y \in Ticks, NEW x \in Ticks, y # x
               PROVE  /\ DOMAIN k2[y].mine.task \cap DOMAIN k2[x].mine.task = {}
                      /\ DOMAIN k2[y].mine.job \cap DOMAIN k2[x].mine.job = {}
                      /\ DOMAIN k2[y].mine.lease \cap DOMAIN k2[x].mine.lease = {}
                      /\ \/ DOMAIN k2[y].mine.task \subseteq DOMAIN vt
                         \/ DOMAIN k2[x].mine.task \subseteq DOMAIN vt
    BY DEF Apart
  <2>1. /\ DOMAIN k[y].mine.task \cap DOMAIN k[x].mine.task = {}
        /\ DOMAIN k[y].mine.job \cap DOMAIN k[x].mine.job = {}
        /\ DOMAIN k[y].mine.lease \cap DOMAIN k[x].mine.lease = {}
        /\ \/ DOMAIN k[y].mine.task \subseteq DOMAIN tt
           \/ DOMAIN k[x].mine.task \subseteq DOMAIN tt
    BY <1>2 DEF Apart
  <2>2. CASE y = w
    <3>1. k2[x] = k[x]
      BY <2>2
    <3> QED
      BY <2>1, <2>2, <3>1
  <2>3. CASE x = w
    <3>1. k2[y] = k[y]
      BY <2>3
    <3> QED
      BY <2>1, <2>3, <3>1
  <2>4. CASE y # w /\ x # w
    <3>1. k2[x] = k[x] /\ k2[y] = k[y]
      BY <2>4
    <3> QED
      BY <2>1, <3>1, <1>3
  <2> QED
    BY <2>2, <2>3, <2>4
\* no tick reassesses more than before
<1>10. \A s, x : x \in Ticks /\ Reassesses(vt, k2[x], s) =>
         x # w /\ Reassesses(tt, k[x], s) /\ k[x].task \in DOMAIN tt
  <2> SUFFICES ASSUME NEW s, NEW x \in Ticks, Reassesses(vt, k2[x], s)
               PROVE  x # w /\ Reassesses(tt, k[x], s) /\ k[x].task \in DOMAIN tt
    OBVIOUS
  <2>1. x # w /\ k2[x] = k[x]
    BY DEF Reassesses
  <2>2. k[x].task \in DOMAIN tt
    BY <2>1, <1>2 DEF Reassesses, TickRight
  <2> QED
    BY <2>1, <2>2, <1>3 DEF Reassesses, TaskMoves, SameLineage
<1>11. \A u \in DOMAIN tt : ~Settled(vt[u]) => ~Settled(tt[u]) /\ vt[u].parent = tt[u].parent
  BY <1>3 DEF CommitRight, CommitTask, TaskMoves, SameLineage
<1>12. ASSUME NEW s \in DOMAIN vt, NoBlind(vt, vj, s)
       PROVE  RepairsRight(vt, k2, s)
  <2>1. CASE s \notin DOMAIN tt
    <3>1. DOMAIN tt = 1..Len(tt) /\ Len(tt) \in Nat /\ DOMAIN vt = 1..Len(vt) /\ Len(vt) \in Nat
      BY <1>2, <1>3 DEF DbRight
    <3>2. \A u \in DOMAIN vt : vt[u].parent # s
      <4> SUFFICES ASSUME NEW u \in DOMAIN vt, vt[u].parent = s PROVE FALSE
        OBVIOUS
      <4>1. CASE u \in DOMAIN tt
        <5>1. tt[u].parent = s /\ s # 0
          BY <4>1, <1>3, <3>1 DEF TaskMoves, SameLineage
        <5>2. s \in 1..(u - 1)
          BY <5>1, <4>1, <1>2 DEF DbRight
        <5> QED
          BY <5>2, <3>1, <4>1, <2>1
      <4>2. CASE u \notin DOMAIN tt
        BY <4>2, <2>1 DEF CommitRight, NewChild
      <4> QED
        BY <4>1, <4>2
    <3>3. \A x \in Ticks : ~Reassesses(vt, k2[x], s)
      <4> SUFFICES ASSUME NEW x \in Ticks, Reassesses(vt, k2[x], s) PROVE FALSE
        OBVIOUS
      <4>1. k[x].task \in DOMAIN tt /\ tt[k[x].task].parent = s
        BY <1>10 DEF Reassesses
      <4>2. k[x].task \in DOMAIN vt /\ vt[k[x].task].parent = s
        BY <4>1, <1>3 DEF TaskMoves, SameLineage
      <4> QED
        BY <4>2, <3>2
    <3>4. OpenRepairs(vt, s) = {}
      BY <3>2 DEF OpenRepairs
    <3> QED
      BY <3>3, <3>4 DEF RepairsRight, NoRepair
  <2>2. CASE s \in DOMAIN tt /\ \E u \in DOMAIN vt \ DOMAIN tt : vt[u].parent = s
    <3>1. PICK u \in DOMAIN vt \ DOMAIN tt : vt[u].parent = s
      BY <2>2
    <3>2. NoBlind(tt, jj, s)
      BY <1>1, <1>12, NoBlindBack
    <3>3. /\ vt[s] # tt[s] /\ Parked(vt[s])
          /\ \A t \in DOMAIN vt \ DOMAIN tt : vt[t].parent = s => t = u
      BY <3>1, <3>2 DEF CommitRight, NewChild
    <3>4. NoRepair(tt, k, s) /\ RowFree(k, w, s)
      BY <3>2, <3>3, <2>2 DEF CommitRight, CommitTask
    <3>5. \A t \in OpenRepairs(vt, s) : t = u
      BY <3>3, <3>4, <1>11 DEF OpenRepairs, NoRepair
    <3>6. \A x \in Ticks : ~Reassesses(vt, k2[x], s)
      BY <3>4, <1>10 DEF NoRepair
    <3>7. \A x \in Ticks : TasksOf(k2[x], vt)[s] = vt[s]
      <4> TAKE x \in Ticks
      <4>1. CASE x = w
        BY <4>1, <1>7
      <4>2. CASE x # w
        BY <4>2, <2>2, <3>4, <1>3, <1>4, ViewAfter DEF RowFree
      <4> QED
        BY <4>1, <4>2
    <3> QED
      BY <3>3, <3>5, <3>6, <3>7, RepairsBegin
  <2>3. CASE s \in DOMAIN tt /\ \A u \in DOMAIN vt \ DOMAIN tt : vt[u].parent # s
    <3>1. OpenRepairs(vt, s) \subseteq OpenRepairs(tt, s)
      BY <2>3, <1>11 DEF OpenRepairs
    <3>2. \A x \in Ticks : Reassesses(vt, k2[x], s) => Reassesses(tt, k[x], s)
      BY <1>10
    <3>3. NoBlind(tt, jj, s)
      BY <1>1, <1>12, NoBlindBack
    <3>4. vt[s] = tt[s] \/ NoRepair(tt, k, s)
      BY <2>3, <3>3 DEF CommitRight, CommitTask
    <3>5. \A x \in Ticks : TasksOf(k2[x], vt)[s] # vt[s] => NoRepair(tt, k, s)
      <4> TAKE x \in Ticks
      <4>1. CASE x = w
        BY <4>1, <1>7
      <4>2. CASE x # w
        <5>1. TasksOf(k2[x], vt)[s] # vt[s] => TasksOf(k[x], tt)[s] # tt[s]
          BY <4>2, <2>3, <1>3, <1>4, ViewAfter
        <5> QED
          BY <5>1, <3>3, <2>3, <1>2 DEF RepairsRight
      <4> QED
        BY <4>1, <4>2
    <3> QED
      BY <2>3, <1>1, <1>12, <3>1, <3>2, <3>4, <3>5, RepairsMove
  <2> QED
    BY <2>1, <2>2, <2>3
<1> QED
  BY <1>3, <1>6, <1>8, <1>9, <1>12 DEF Right

\* A tick goes on without a commit: what differs from the tables is its own.
LEMMA Went ==
  ASSUME NEW tt, NEW jj, NEW k, NEW w \in Ticks, NEW vt, NEW vj, NEW k2,
         Right(tt, jj, k), WriteRight(tt, jj, k, w, vt, vj, HandOf(k2[w])),
         \A x \in Ticks \ {w} : k2[x] = k[x],
         k2[w].mine.task = Changed(vt, tt), k2[w].mine.job = Changed(vj, jj),
         DOMAIN k2[w].mine.lease \subseteq {1},
         \A x \in Ticks \ {w} :
           DOMAIN k2[w].mine.lease \cap DOMAIN k[x].mine.lease = {},
         k2[w].at \in {"loop", "dispatched", "driving"},
         k2[w].at = "driving" => 1 \in DOMAIN k2[w].mine.lease,
         AtHand(k2[w]) => HandRight(tt, jj, w, vt, vj, k2[w])
  PROVE  Right(tt, jj, k2)
<1>1. /\ DbRight(tt, jj) /\ Apart(tt, k) /\ \A x \in Ticks : TickRight(tt, jj, x, k[x])
      /\ \A s \in DOMAIN tt : NoBlind(tt, jj, s) => RepairsRight(tt, k, s)
  BY DEF Right
<1>2. ViewRight(tt, jj, w, vt, vj, HandOf(k2[w]))
  BY DEF WriteRight
<1>3. /\ vt \in Seq(SupTasks) /\ DOMAIN tt \subseteq DOMAIN vt
      /\ vj \in Seq(SupJobs) /\ DOMAIN vj = DOMAIN jj
  BY <1>2 DEF ViewRight
<1>4. /\ TasksOf(k2[w], tt) = vt
      /\ \A i : i \in DOMAIN k2[w].mine.task
                  <=> i \in DOMAIN vt /\ (i \in DOMAIN tt => vt[i] # tt[i])
  <2>1. /\ Over(Changed(vt, tt), tt) = vt
        /\ \A i : i \in DOMAIN Changed(vt, tt)
                    <=> i \in DOMAIN vt /\ (i \in DOMAIN tt => vt[i] # tt[i])
    BY <1>3, OverChanged
  <2> QED
    BY <2>1 DEF TasksOf
<1>5. /\ JobsOf(k2[w], jj) = vj
      /\ \A i : i \in DOMAIN k2[w].mine.job
                  <=> i \in DOMAIN vj /\ (i \in DOMAIN jj => vj[i] # jj[i])
  <2>1. /\ Over(Changed(vj, jj), jj) = vj
        /\ \A i : i \in DOMAIN Changed(vj, jj)
                    <=> i \in DOMAIN vj /\ (i \in DOMAIN jj => vj[i] # jj[i])
    BY <1>3, OverChanged
  <2> QED
    BY <2>1 DEF JobsOf
<1>6. TickRight(tt, jj, w, k2[w])
  BY <1>2, <1>4, <1>5 DEF TickRight, SupMoments
<1>7. \A x \in Ticks : TickRight(tt, jj, x, k2[x])
  BY <1>1, <1>6
<1>8. \A t \in DOMAIN k2[w].mine.task :
        \A x \in Ticks \ {w} : t \notin DOMAIN k[x].mine.task
  <2> TAKE t \in DOMAIN k2[w].mine.task
  <2> TAKE x \in Ticks \ {w}
  <2>1. CASE t \in DOMAIN tt
    BY <2>1, <1>4 DEF WriteRight, RowFree
  <2>2. CASE t \notin DOMAIN tt
    BY <2>2, <1>4 DEF WriteRight, InsertsAlone
  <2> QED
    BY <2>1, <2>2
<1>9. \A j \in DOMAIN k2[w].mine.job :
        \A x \in Ticks \ {w} : j \notin DOMAIN k[x].mine.job
  BY <1>3, <1>5 DEF WriteRight, JobFree
<1>10. \/ DOMAIN k2[w].mine.task \subseteq DOMAIN tt
       \/ \A x \in Ticks \ {w} : DOMAIN k[x].mine.task \subseteq DOMAIN tt
  BY <1>4 DEF WriteRight, InsertsAlone
<1>11. Apart(tt, k2)
  <2> SUFFICES ASSUME NEW y \in Ticks, NEW x \in Ticks, y # x
               PROVE  /\ DOMAIN k2[y].mine.task \cap DOMAIN k2[x].mine.task = {}
                      /\ DOMAIN k2[y].mine.job \cap DOMAIN k2[x].mine.job = {}
                      /\ DOMAIN k2[y].mine.lease \cap DOMAIN k2[x].mine.lease = {}
                      /\ \/ DOMAIN k2[y].mine.task \subseteq DOMAIN tt
                         \/ DOMAIN k2[x].mine.task \subseteq DOMAIN tt
    BY DEF Apart
  <2>1. CASE y = w
    <3>1. k2[x] = k[x] /\ x \in Ticks \ {w}
      BY <2>1
    <3> QED
      BY <2>1, <3>1, <1>8, <1>9, <1>10
  <2>2. CASE x = w
    <3>1. k2[y] = k[y] /\ y \in Ticks \ {w}
      BY <2>2
    <3> QED
      BY <2>2, <3>1, <1>8, <1>9, <1>10
  <2>3. CASE y # w /\ x # w
    <3>1. k2[x] = k[x] /\ k2[y] = k[y]
      BY <2>3
    <3> QED
      BY <3>1, <1>1 DEF Apart
  <2> QED
    BY <2>1, <2>2, <2>3
<1>12. ASSUME NEW s \in DOMAIN tt, NoBlind(tt, jj, s)
       PROVE  RepairsRight(tt, k2, s)
  <2>1. RepairsRight(tt, k, s)
    BY <1>1, <1>12
  <2>2. \A x \in Ticks : Reassesses(tt, k2[x], s) => Reassesses(tt, k[x], s)
    BY DEF Reassesses
  <2>3. NoRepair(tt, k, s) => NoRepair(tt, k2, s)
    BY <2>2 DEF NoRepair
  <2>4. \A x \in Ticks : TasksOf(k2[x], tt)[s] # tt[s] => NoRepair(tt, k, s)
    <3> TAKE x \in Ticks
    <3>1. CASE x = w
      BY <3>1, <1>4, <1>12 DEF WriteRight
    <3>2. CASE x # w
      BY <3>2, <2>1 DEF RepairsRight
    <3> QED
      BY <3>1, <3>2
  <2> QED
    BY <2>1, <2>2, <2>3, <2>4 DEF RepairsRight
<1> QED
  BY <1>1, <1>7, <1>11, <1>12 DEF Right

-----------------------------------------------------------------------------
(* Rolling back, and rows no tick has locked                               *)

\* The same tables, and a tick that has nothing of its own any more.
LEMMA Dropped ==
  ASSUME NEW tt, NEW jj, NEW k, NEW w \in Ticks, NEW k2,
         NoWorker \notin Ticks, Right(tt, jj, k),
         \A x \in Ticks \ {w} : k2[x] = k[x],
         DOMAIN k2[w].mine.task = {}, DOMAIN k2[w].mine.job = {},
         DOMAIN k2[w].mine.lease = {}, k2[w].at \in {"idle", "eligible", "loop"}
  PROVE  Right(tt, jj, k2)
<1>1. tt \in Seq(SupTasks) /\ jj \in Seq(SupJobs)
  BY DEF Right, DbRight
<1>2. CommitRight(tt, jj, k, w, tt, jj)
  BY <1>1 DEF CommitRight, InsertsAlone
<1> QED
  BY <1>2, Committed DEF SupMoments, AtHand

\* A tick that gives up its reassessment of s leaves s without a repair.
LEMMA TokenDropped ==
  ASSUME NEW tt, NEW jj, NEW k, NEW w \in Ticks, NEW k2, Right(tt, jj, k),
         \A x \in Ticks \ {w} : k2[x] = k[x], k2[w].at # "completed",
         NEW s \in DOMAIN tt, NoBlind(tt, jj, s), Reassesses(tt, k[w], s)
  PROVE  NoRepair(tt, k2, s) /\ Parked(tt[s])
<1>1. RepairsRight(tt, k, s)
  BY DEF Right
<1>2. OpenRepairs(tt, s) = {} /\ \A x \in Ticks : Reassesses(tt, k[x], s) => w = x
  BY <1>1 DEF RepairsRight
<1>3. Parked(tt[s])
  BY <1>1 DEF RepairsRight, NoRepair
<1> QED
  BY <1>2, <1>3 DEF NoRepair, Reassesses

\* Rows that no tick has locked change.
LEMMA Outside ==
  ASSUME NEW tt, NEW jj, NEW k, NEW vt, NEW vj, NEW k2,
         NoWorker \notin Ticks, Right(tt, jj, k), TablesMove(tt, jj, vt, vj),
         DOMAIN vt = DOMAIN tt,
         \A x \in Ticks : \/ k2[x] = k[x]
                          \/ /\ DOMAIN k2[x].mine.task = {} /\ DOMAIN k2[x].mine.job = {}
                             /\ DOMAIN k2[x].mine.lease = {}
                             /\ k2[x].at \in {"idle", "blind"},
         \A x \in Ticks : LeftAlone(tt, jj, vt, vj, k[x]),
         \A x \in Ticks : HandLeft(tt, jj, vt, vj, x, k[x]),
         \A s \in DOMAIN tt : NoBlind(vt, vj, s) =>
           /\ OpenRepairs(vt, s) \subseteq OpenRepairs(tt, s)
           /\ vt[s] = tt[s] \/ ~Parked(tt[s])
  PROVE  Right(vt, vj, k2)
<1>1. /\ DbRight(tt, jj) /\ Apart(tt, k) /\ \A x \in Ticks : TickRight(tt, jj, x, k[x])
      /\ \A s \in DOMAIN tt : NoBlind(tt, jj, s) => RepairsRight(tt, k, s)
  BY DEF Right
<1>2. DbRight(vt, vj) /\ \A t \in DOMAIN tt : TaskMoves(tt[t], vt[t])
  BY DEF TablesMove
<1>3. \A x \in Ticks : k2[x] # k[x] => TasksOf(k2[x], vt) = vt /\ JobsOf(k2[x], vj) = vj
  <2>1. vt = [i \in DOMAIN vt |-> vt[i]] /\ vj = [i \in DOMAIN vj |-> vj[i]]
    BY <1>2 DEF DbRight
  <2> QED
    BY <2>1 DEF TasksOf, JobsOf, Over
<1>4. \A x \in Ticks : TickRight(vt, vj, x, k2[x])
  <2> TAKE x \in Ticks
  <2>1. CASE k2[x] = k[x]
    BY <2>1, <1>1, Bystander
  <2>2. CASE k2[x] # k[x]
    <3>1. ViewRight(vt, vj, x, vt, vj, HandOf(k2[x]))
      BY <1>2 DEF DbRight, ViewRight
    <3>2. TasksOf(k2[x], vt) = vt /\ JobsOf(k2[x], vj) = vj
      BY <2>2, <1>3
    <3> QED
      BY <2>2, <3>1, <3>2 DEF TickRight, AtHand, SupMoments
  <2> QED
    BY <2>1, <2>2
<1>5. Apart(vt, k2)
  <2> SUFFICES ASSUME NEW y \in Ticks, NEW x \in Ticks, y # x
               PROVE  /\ DOMAIN k2[y].mine.task \cap DOMAIN k2[x].mine.task = {}
                      /\ DOMAIN k2[y].mine.job \cap DOMAIN k2[x].mine.job = {}
                      /\ DOMAIN k2[y].mine.lease \cap DOMAIN k2[x].mine.lease = {}
                      /\ \/ DOMAIN k2[y].mine.task \subseteq DOMAIN vt
                         \/ DOMAIN k2[x].mine.task \subseteq DOMAIN vt
    BY DEF Apart
  <2>1. /\ DOMAIN k[y].mine.task \cap DOMAIN k[x].mine.task = {}
        /\ DOMAIN k[y].mine.job \cap DOMAIN k[x].mine.job = {}
        /\ DOMAIN k[y].mine.lease \cap DOMAIN k[x].mine.lease = {}
        /\ \/ DOMAIN k[y].mine.task \subseteq DOMAIN tt
           \/ DOMAIN k[x].mine.task \subseteq DOMAIN tt
    BY <1>1 DEF Apart
  <2>2. CASE k2[y] # k[y]
    BY <2>2
  <2>3. CASE k2[x] # k[x]
    BY <2>3
  <2>4. CASE k2[x] = k[x] /\ k2[y] = k[y]
    BY <2>1, <2>4
  <2> QED
    BY <2>2, <2>3, <2>4
<1>6. ASSUME NEW s \in DOMAIN vt, NoBlind(vt, vj, s)
      PROVE  RepairsRight(vt, k2, s)
  <2>1. s \in DOMAIN tt /\ NoBlind(tt, jj, s) /\ RepairsRight(tt, k, s)
    BY <1>1, <1>6, NoBlindBack
  <2>2. \A x \in Ticks : Reassesses(vt, k2[x], s) => Reassesses(tt, k[x], s)
    <3> SUFFICES ASSUME NEW x \in Ticks, Reassesses(vt, k2[x], s)
                 PROVE  Reassesses(tt, k[x], s)
      OBVIOUS
    <3>1. k2[x] = k[x]
      BY DEF Reassesses
    <3>2. k[x].task \in DOMAIN tt
      BY <3>1, <1>1 DEF Reassesses, TickRight
    <3> QED
      BY <3>1, <3>2, <1>2 DEF Reassesses, TaskMoves, SameLineage
  <2>3. \A x \in Ticks : TasksOf(k2[x], vt)[s] # vt[s] => NoRepair(tt, k, s)
    <3> TAKE x \in Ticks
    <3>1. CASE k2[x] # k[x]
      BY <3>1, <1>3
    <3>2. CASE k2[x] = k[x]
      <4>1. TasksOf(k[x], vt)[s] # vt[s] => TasksOf(k[x], tt)[s] # tt[s]
        BY <2>1, ViewAfter
      <4> QED
        BY <4>1, <3>2, <2>1 DEF RepairsRight
    <3> QED
      BY <3>1, <3>2
  <2> QED
    BY <2>1, <2>2, <2>3, <1>6, RepairsMove
<1> QED
  BY <1>2, <1>4, <1>5, <1>6 DEF Right

\* The task at hand and its job end, by the job's holder; the tick has no
\* other rows.
LEMMA Ended ==
  ASSUME NEW tt, NEW jj, NEW k, NEW w \in Ticks, NEW k2, NEW st \in SupTerminal,
         NEW js \in SupTerminal,
         NoWorker \notin Ticks, Right(tt, jj, k), k[w].at = "driving",
         DOMAIN k[w].mine.task = {}, DOMAIN k[w].mine.job = {},
         Holds(w, jj[tt[k[w].task].job]),
         RowFree(k, w, k[w].task), JobFree(k, w, tt[k[w].task].job),
         \A x \in Ticks \ {w} : k2[x] = k[x],
         DOMAIN k2[w].mine.task = {}, DOMAIN k2[w].mine.job = {},
         DOMAIN k2[w].mine.lease = {}, k2[w].at \in {"completed", "cancelled"},
         k2[w].task = k[w].task
  PROVE  Right([tt EXCEPT ![k[w].task].status = st],
               [jj EXCEPT ![tt[k[w].task].job].status = js], k2)
<1> DEFINE t == k[w].task
           j == tt[t].job
           vt == [tt EXCEPT ![t].status = st]
           vj == [jj EXCEPT ![j].status = js]
<1>1. /\ DbRight(tt, jj) /\ Apart(tt, k) /\ \A x \in Ticks : TickRight(tt, jj, x, k[x])
      /\ \A s \in DOMAIN tt : NoBlind(tt, jj, s) => RepairsRight(tt, k, s)
  BY DEF Right
<1>2. tt \in Seq(SupTasks) /\ jj \in Seq(SupJobs)
  BY <1>1 DEF DbRight
<1>3. TasksOf(k[w], tt) = tt /\ JobsOf(k[w], jj) = jj
  <2>1. tt = [i \in DOMAIN tt |-> tt[i]] /\ jj = [i \in DOMAIN jj |-> jj[i]]
    BY <1>2
  <2> QED
    BY <2>1 DEF TasksOf, JobsOf, Over
<1>4. HandRight(tt, jj, w, tt, jj, k[w])
  <2>1. TickRight(tt, jj, w, k[w])
    BY <1>1
  <2> QED
    BY <2>1, <1>3 DEF TickRight, AtHand
<1>5. t \in DOMAIN tt /\ j # 0 /\ j \in DOMAIN jj
  BY <1>1, <1>4 DEF HandRight, DbRight
<1>6. /\ NoBlind(tt, jj, t) => tt[t].status = "running"
      /\ Blindless(jj, t) => ~Settled(tt[t])
  BY <1>4 DEF HandRight
<1>7. tt[t] \in SupTasks /\ jj[j] \in SupJobs
  BY <1>2, <1>5
<1>8. /\ vt \in Seq(SupTasks) /\ DOMAIN vt = DOMAIN tt
      /\ \A i \in DOMAIN tt : i # t => vt[i] = tt[i]
      /\ vt[t] = [tt[t] EXCEPT !.status = st]
  <2>1. [tt[t] EXCEPT !.status = st] \in SupTasks
    BY <1>7 DEF SupTasks, SupTaskStatuses
  <2> QED
    BY <2>1, <1>2, <1>5
<1>9. /\ vj \in Seq(SupJobs) /\ DOMAIN vj = DOMAIN jj
      /\ \A i \in DOMAIN jj : i # j => vj[i] = jj[i]
      /\ vj[j] = [jj[j] EXCEPT !.status = js]
  <2>1. [jj[j] EXCEPT !.status = js] \in SupJobs
    BY <1>7 DEF SupJobs, SupJobStatuses
  <2> QED
    BY <2>1, <1>2, <1>5
<1>10. /\ vt[t].status = st /\ vt[t].why = tt[t].why /\ vt[t].job = j
       /\ SameLineage(tt[t], vt[t])
  <2>1. ASSUME NEW r \in SupTasks, NEW n, n = [r EXCEPT !.status = st]
        PROVE  /\ n.status = st /\ n.why = r.why /\ n.job = r.job
               /\ SameLineage(r, n)
    BY <2>1 DEF SupTasks, SameLineage
  <2>2. vt[t] = [tt[t] EXCEPT !.status = st]
    BY <1>8
  <2> QED
    BY <1>7, <2>1, <2>2
<1>11. /\ vj[j].status = js /\ vj[j].by = jj[j].by /\ vj[j].task = jj[j].task
       /\ vj[j].blind = jj[j].blind
  <2>1. ASSUME NEW r \in SupJobs, NEW n, n = [r EXCEPT !.status = js]
        PROVE  n.status = js /\ n.by = r.by /\ n.task = r.task /\ n.blind = r.blind
    BY <2>1 DEF SupJobs
  <2>2. vj[j] = [jj[j] EXCEPT !.status = js]
    BY <1>9
  <2> QED
    BY <1>7, <2>1, <2>2
<1>12. Settled(vt[t]) /\ Settled(vj[j]) /\ ~Settled(jj[j]) /\ vj[j].status # "queued"
  BY <1>10, <1>11 DEF Settled, Holds, SupTerminal
<1> HIDE DEF vt, vj
<1>13. \A i \in DOMAIN jj : JobMoves(jj[i], vj[i])
  <2> TAKE i \in DOMAIN jj
  <2> QED
    BY <1>9, <1>11, <1>12 DEF JobMoves
<1>14. \A i \in DOMAIN tt : TaskMoves(tt[i], vt[i])
  <2> TAKE i \in DOMAIN tt
  <2> QED
    BY <1>5, <1>8, <1>10 DEF TaskMoves, SameLineage
<1>15. DbRight(vt, vj)
  <2>1. \A i \in DOMAIN vj : /\ vj[i].task \in DOMAIN vt
                             /\ vj[i].status = "queued" => vj[i].by = NoWorker
    <3> TAKE i \in DOMAIN vj
    <3>1. /\ i \in DOMAIN jj /\ jj[i].task \in DOMAIN tt
          /\ jj[i].status = "queued" => jj[i].by = NoWorker
      BY <1>1, <1>9 DEF DbRight
    <3>2. CASE i = j
      <4>1. vj[i].status # "queued" /\ vj[i].task = jj[i].task
        BY <3>2, <1>11, <1>12
      <4> QED
        BY <3>1, <4>1, <1>8
    <3>3. CASE i # j
      <4>1. vj[i] = jj[i]
        BY <3>1, <3>3, <1>9
      <4> QED
        BY <3>1, <4>1, <1>8
    <3> QED
      BY <3>2, <3>3
  <2>2. \A i \in DOMAIN vt : vt[i].job # 0 => vt[i].job \in DOMAIN vj /\ vj[vt[i].job].status # "queued"
    <3> TAKE i \in DOMAIN vt
    <3>1. i \in DOMAIN tt /\ vt[i].job = tt[i].job
      BY <1>8, <1>10
    <3>2. tt[i].job # 0 => tt[i].job \in DOMAIN jj /\ jj[tt[i].job].status # "queued"
      BY <3>1, <1>1 DEF DbRight
    <3> QED
      BY <3>1, <3>2, <1>9, <1>12
  <2>3. \A i \in DOMAIN vt : LetGo(vt[i], vj)
    <3> TAKE i \in DOMAIN vt
    <3>1. CASE i = t
      BY <3>1, <1>10 DEF LetGo, SupTerminal
    <3>2. CASE i # t
      <4>1. vt[i] = tt[i] /\ i \in DOMAIN tt
        BY <3>2, <1>8
      <4>2. LetGo(tt[i], jj) /\ (tt[i].job # 0 => tt[i].job \in DOMAIN jj)
        BY <4>1, <1>1 DEF DbRight
      <4> QED
        BY <4>1, <4>2, <1>13 DEF LetGo, JobMoves
    <3> QED
      BY <3>1, <3>2
  <2>4. \A i \in DOMAIN tt : GapOf(vt, i) = GapOf(tt, i)
    BY <1>14 DEF GapOf, TaskMoves, SameLineage
  <2>5. \A i \in DOMAIN vt : vt[i].parent # 0 =>
          /\ vt[i].parent \in 1..(i - 1)
          /\ vt[i].depth < MaxDepth /\ vt[i].depth = GapOf(vt, vt[i].parent)
    <3> SUFFICES ASSUME NEW i \in DOMAIN vt, vt[i].parent # 0
                 PROVE  /\ vt[i].parent \in 1..(i - 1)
                        /\ vt[i].depth < MaxDepth /\ vt[i].depth = GapOf(vt, vt[i].parent)
      OBVIOUS
    <3>1. i \in DOMAIN tt /\ SameLineage(tt[i], vt[i])
      BY <1>8, <1>14 DEF TaskMoves
    <3>2. /\ tt[i].parent \in 1..(i - 1)
          /\ tt[i].depth < MaxDepth /\ tt[i].depth = GapOf(tt, tt[i].parent)
      BY <3>1, <1>1 DEF DbRight, SameLineage
    <3>3. tt[i].parent \in DOMAIN tt
      <4>1. DOMAIN tt = 1..Len(tt) /\ Len(tt) \in Nat
        BY <1>2
      <4> QED
        BY <4>1, <3>1, <3>2
    <3> QED
      BY <3>1, <3>2, <3>3, <2>4 DEF SameLineage
  <2> QED
    BY <2>1, <2>2, <2>3, <2>5, <1>8, <1>9 DEF DbRight
<1>16. TablesMove(tt, jj, vt, vj)
  BY <1>1, <1>8, <1>9, <1>13, <1>14, <1>15 DEF TablesMove
<1>17. \A x \in Ticks \ {w} : LeftAlone(tt, jj, vt, vj, k[x])
  <2> TAKE x \in Ticks \ {w}
  <2>1. t \notin DOMAIN k[x].mine.task /\ j \notin DOMAIN k[x].mine.job
    BY DEF RowFree, JobFree
  <2>2. DOMAIN k[x].mine.job \subseteq DOMAIN jj
    <3>1. DOMAIN JobsOf(k[x], jj) = DOMAIN k[x].mine.job \cup DOMAIN jj
      BY OverIs DEF JobsOf
    <3> QED
      BY <3>1, <1>1 DEF TickRight, ViewRight
  <2> QED
    BY <2>1, <2>2, <1>8, <1>9 DEF LeftAlone
<1>18. \A x \in Ticks \ {w} : HandLeft(tt, jj, vt, vj, x, k[x])
  <2> TAKE x \in Ticks \ {w}
  <2> SUFFICES ASSUME AtHand(k[x]), vt[k[x].task] # tt[k[x].task]
               PROVE  HandLeft(tt, jj, vt, vj, x, k[x])
    BY DEF HandLeft
  <2>1. k[x].task \in DOMAIN tt
    BY <1>1 DEF TickRight, HandRight
  <2>2. k[x].task = t
    BY <2>1, <1>8
  <2> QED
    BY <2>2, <1>5, <1>10, <1>12 DEF HandLeft
<1>19. \A x \in Ticks \ {w} : TickRight(vt, vj, x, k2[x])
  BY <1>1, <1>16, <1>17, <1>18, Bystander
<1>20. TasksOf(k2[w], vt) = vt /\ JobsOf(k2[w], vj) = vj
  <2>1. vt = [i \in DOMAIN vt |-> vt[i]] /\ vj = [i \in DOMAIN vj |-> vj[i]]
    BY <1>8, <1>9
  <2> QED
    BY <2>1 DEF TasksOf, JobsOf, Over
<1>21. TickRight(vt, vj, w, k2[w])
  <2>1. ViewRight(vt, vj, w, vt, vj, HandOf(k2[w]))
    BY <1>8, <1>9 DEF ViewRight
  <2> QED
    BY <2>1, <1>5, <1>8, <1>20 DEF TickRight, AtHand, SupMoments
<1>22. Apart(vt, k2)
  <2> SUFFICES ASSUME NEW y \in Ticks, NEW x \in Ticks, y # x
               PROVE  /\ DOMAIN k2[y].mine.task \cap DOMAIN k2[x].mine.task = {}
                      /\ DOMAIN k2[y].mine.job \cap DOMAIN k2[x].mine.job = {}
                      /\ DOMAIN k2[y].mine.lease \cap DOMAIN k2[x].mine.lease = {}
                      /\ \/ DOMAIN k2[y].mine.task \subseteq DOMAIN vt
                         \/ DOMAIN k2[x].mine.task \subseteq DOMAIN vt
    BY DEF Apart
  <2>1. /\ DOMAIN k[y].mine.task \cap DOMAIN k[x].mine.task = {}
        /\ DOMAIN k[y].mine.job \cap DOMAIN k[x].mine.job = {}
        /\ DOMAIN k[y].mine.lease \cap DOMAIN k[x].mine.lease = {}
        /\ \/ DOMAIN k[y].mine.task \subseteq DOMAIN tt
           \/ DOMAIN k[x].mine.task \subseteq DOMAIN tt
    BY <1>1 DEF Apart
  <2>2. CASE y = w
    BY <2>2
  <2>3. CASE x = w
    BY <2>3
  <2>4. CASE y # w /\ x # w
    <3>1. k2[x] = k[x] /\ k2[y] = k[y]
      BY <2>4
    <3> QED
      BY <2>1, <3>1, <1>8
  <2> QED
    BY <2>2, <2>3, <2>4
<1>23. \A s, x : x \in Ticks \ {w} /\ Reassesses(vt, k2[x], s) => Reassesses(tt, k[x], s)
  <2> SUFFICES ASSUME NEW s, NEW x \in Ticks \ {w}, Reassesses(vt, k2[x], s)
               PROVE  Reassesses(tt, k[x], s)
    OBVIOUS
  <2>1. k2[x] = k[x] /\ k[x].task \in DOMAIN tt
    BY <1>1 DEF Reassesses, TickRight
  <2> QED
    BY <2>1, <1>14 DEF Reassesses, TaskMoves, SameLineage
<1>24. \A x \in Ticks, s \in DOMAIN tt :
          TasksOf(k2[x], vt)[s] # vt[s] => x # w /\ TasksOf(k[x], tt)[s] # tt[s]
  <2> TAKE x \in Ticks, s \in DOMAIN tt
  <2>1. CASE x = w
    BY <2>1, <1>20
  <2>2. CASE x # w
    BY <2>2, <1>8, <1>17, ViewAfter
  <2> QED
    BY <2>1, <2>2
<1>25. \A i \in DOMAIN tt : ~Settled(vt[i]) => i # t /\ ~Settled(tt[i]) /\ vt[i] = tt[i]
  BY <1>8, <1>12
<1>26. ASSUME NEW s \in DOMAIN vt, NoBlind(vt, vj, s)
       PROVE  RepairsRight(vt, k2, s)
  <2>1. s \in DOMAIN tt /\ NoBlind(tt, jj, s) /\ RepairsRight(tt, k, s)
    BY <1>1, <1>8, <1>16, <1>26, NoBlindBack
  <2>2. OpenRepairs(vt, s) \subseteq OpenRepairs(tt, s) \ {t}
    BY <1>8, <1>25 DEF OpenRepairs
  <2>3. CASE ~Reassesses(vt, k2[w], s)
    <3>1. \A x \in Ticks : Reassesses(vt, k2[x], s) => Reassesses(tt, k[x], s)
      BY <2>3, <1>23
    <3>2. vt[s] = tt[s] \/ ~Parked(tt[s])
      BY <2>1, <1>6, <1>8 DEF Parked
    <3>3. \A x \in Ticks : TasksOf(k2[x], vt)[s] # vt[s] => NoRepair(tt, k, s)
      BY <2>1, <1>24 DEF RepairsRight
    <3> QED
      BY <2>1, <2>2, <3>1, <3>2, <3>3, <1>16, <1>26, RepairsMove
  <2>4. CASE Reassesses(vt, k2[w], s)
    <3>1. tt[t].parent = s /\ s # 0
      <4>1. DOMAIN tt = 1..Len(tt) /\ Len(tt) \in Nat
        BY <1>2
      <4>2. vt[t].parent = s
        BY <2>4 DEF Reassesses
      <4> QED
        BY <4>1, <4>2, <2>1, <1>10 DEF SameLineage
    <3>2. Blindless(jj, t)
      BY <3>1, <2>1 DEF NoBlind, Blindless
    <3>3. t \in OpenRepairs(tt, s)
      BY <3>1, <3>2, <1>5, <1>6 DEF OpenRepairs
    <3>4. /\ \A u \in OpenRepairs(tt, s) : u = t
          /\ \A x \in Ticks : ~Reassesses(tt, k[x], s)
          /\ Parked(tt[s])
          /\ \A x \in Ticks : TasksOf(k[x], tt)[s] = tt[s]
      BY <3>3, <2>1 DEF RepairsRight, NoRepair
    <3>5. s # t
      <4>1. tt[t].parent \in 1..(t - 1)
        BY <3>1, <1>1, <1>5 DEF DbRight
      <4>2. DOMAIN tt = 1..Len(tt) /\ Len(tt) \in Nat
        BY <1>2
      <4> QED
        BY <4>1, <4>2, <3>1, <1>5
    <3>6. OpenRepairs(vt, s) = {}
      BY <2>2, <3>4
    <3>7. vt[s] = tt[s]
      BY <3>5, <2>1, <1>8
    <3>8. \A x \in Ticks : Reassesses(vt, k2[x], s) => x = w
      BY <3>4, <1>23
    <3>9. \A x \in Ticks : TasksOf(k2[x], vt)[s] = vt[s]
      BY <3>4, <2>1, <1>24
    <3> QED
      BY <3>4, <3>6, <3>7, <3>8, <3>9 DEF RepairsRight
  <2> QED
    BY <2>3, <2>4
<1>27. Right(vt, vj, k2)
  <2>1. \A x \in Ticks : TickRight(vt, vj, x, k2[x])
    BY <1>19, <1>21
  <2> QED
    BY <2>1, <1>15, <1>22, <1>26 DEF Right
<1> QED
  BY <1>27 DEF vt, vj

-----------------------------------------------------------------------------
(* How a step treats its tick: goes on, commits, raises                    *)

\* A tick that changes only its own record leaves the rest alone.
LEMMA TickSteps ==
  ASSUME SupRight, NEW w \in Ticks, NEW q, NEW vt, NEW vj, NEW k,
         TickStepRight(db.task, db.job, k, tick, w, vt, vj, q),
         tick' = [tick EXCEPT ![w] = q], db' = db, supGoal' \in SupGoals
  PROVE  SupRight'
<1> USE DEF TickStepRight
<1>1. DOMAIN tick' = Ticks /\ tick'[w] = q /\ \A x \in Ticks \ {w} : tick'[x] = tick[x]
  BY DEF SupRight
<1>2. Right(db.task, db.job, tick')
  <2>1. \A x \in Ticks \ {w} : DOMAIN q.mine.lease \cap DOMAIN k[x].mine.lease = {}
    OBVIOUS
  <2>2. ASSUME NEW k2, k2[w] = q, \A x \in Ticks \ {w} : k2[x] = k[x]
        PROVE  Right(db.task, db.job, k2)
    <3>1. DOMAIN q.mine.lease \subseteq {1}
      BY DEF OwnLease
    <3>2. DOMAIN k2[w].mine.lease \subseteq {1}
      BY <2>2, <3>1
    <3>3. k2[w].mine.task = Changed(vt, db.task) /\ k2[w].mine.job = Changed(vj, db.job)
      BY <2>2
    <3> HIDE DEF SupRight
    <3> QED
      BY <2>1, <2>2, <3>2, <3>3, Went
  <2> QED
    <3>1. \A x \in Ticks \ {w} : tick'[x] = k[x]
      BY <1>1
    <3> QED
      BY <1>1, <2>2, <3>1
<1> QED
  BY <1>1, <1>2 DEF SupRight

\* A tick that commits and goes on keeps the invariant.
LEMMA TickCommits ==
  ASSUME SupRight, NEW w \in Ticks, NEW q, NEW vt, NEW vj, NEW vl,
         tick' = [tick EXCEPT ![w] = q],
         db' = [task |-> vt, job |-> vj, lease |-> vl], supGoal' \in SupGoals,
         DOMAIN vl = {1}, vl[1] \in SupLeases, IsTick(q), OwnLease(q),
         BoundIn(q, vt),
         CommitRight(db.task, db.job, tick, w, vt, vj),
         DOMAIN q.mine.task = {}, DOMAIN q.mine.job = {},
         DOMAIN q.mine.lease \subseteq DOMAIN tick[w].mine.lease,
         q.at \in SupMoments \ {"completed"},
         q.at = "driving" => 1 \in DOMAIN q.mine.lease,
         q.at = "cancelled" => q.task \in DOMAIN vt,
         AtHand(q) => HandRight(vt, vj, w, vt, vj, q)
  PROVE  SupRight'
<1>1. DOMAIN tick' = Ticks /\ tick'[w] = q /\ \A x \in Ticks \ {w} : tick'[x] = tick[x]
  BY DEF SupRight
<1>2. Right(vt, vj, tick')
  <2>1. Right(db.task, db.job, tick) /\ NoWorker \notin Ticks
    BY SupervisorBounds DEF SupRight
  <2>2. q.at \in {"idle", "eligible", "cancelled", "blind"} => DOMAIN q.mine.lease = {}
    BY DEF OwnLease
  <2>3. ASSUME NEW k2, k2[w] = q, \A x \in Ticks \ {w} : k2[x] = tick[x]
        PROVE  Right(vt, vj, k2)
    BY <2>1, <2>2, <2>3, Committed
  <2> QED
    BY <1>1, <2>3
<1>3. db'.task = vt /\ db'.job = vj /\ db'.lease = vl
  OBVIOUS
<1> HIDE DEF SupRight
<1>4. \A x \in Ticks : IsTick(tick'[x]) /\ OwnLease(tick'[x])
  BY <1>1 DEF SupRight
<1>5. \A x \in Ticks : BoundIn(tick'[x], vt)
  BY <1>1 DEF SupRight, CommitRight, BoundIn
<1> QED
  BY <1>1, <1>2, <1>3, <1>4, <1>5 DEF SupRight

\* A rollback keeps the invariant.
LEMMA TickDrops ==
  ASSUME SupRight, NEW w \in Ticks, NEW q, tick' = [tick EXCEPT ![w] = q],
         db' = db, supGoal' \in SupGoals, IsTick(q), BoundIn(q, db.task),
         DOMAIN q.mine.task = {}, DOMAIN q.mine.job = {},
         DOMAIN q.mine.lease = {}, q.at \in {"idle", "eligible", "loop"}
  PROVE  SupRight'
<1>1. DOMAIN tick' = Ticks /\ tick'[w] = q /\ \A x \in Ticks \ {w} : tick'[x] = tick[x]
  BY DEF SupRight
<1>2. Right(db.task, db.job, tick')
  <2>1. Right(db.task, db.job, tick) /\ NoWorker \notin Ticks
    BY SupervisorBounds DEF SupRight
  <2> QED
    BY <1>1, <2>1, Dropped
<1> QED
  BY <1>1, <1>2 DEF SupRight, OwnLease

\* A view is what a tick reads: its own rows over the committed ones.
LEMMA ViewIs ==
  ASSUME SupRight, NEW w \in Ticks
  PROVE  /\ View(w) = [task |-> TasksOf(tick[w], db.task),
                       job |-> JobsOf(tick[w], db.job), lease |-> View(w).lease]
         /\ View(w).task = TasksOf(tick[w], db.task)
         /\ View(w).job = JobsOf(tick[w], db.job)
         /\ DOMAIN View(w).lease = {1} /\ View(w).lease[1] \in SupLeases
         /\ \A i : i \in DOMAIN Changed(View(w).lease, db.lease) =>
              i \in DOMAIN tick[w].mine.lease
<1>1. View(w).lease = Over(tick[w].mine.lease, db.lease)
  BY DEF View
<1>2. DOMAIN Over(tick[w].mine.lease, db.lease) = {1}
  BY DEF SupRight, OwnLease, Over
<1>3. Over(tick[w].mine.lease, db.lease)[1] \in SupLeases
  BY <1>2 DEF SupRight, OwnLease, Over
<1>4. \A i : i \in DOMAIN Changed(View(w).lease, db.lease) =>
        i \in DOMAIN tick[w].mine.lease
  BY <1>1, <1>2 DEF Changed, Over, SupRight
<1> QED
  BY <1>1, <1>2, <1>3, <1>4 DEF View, TasksOf, JobsOf

-----------------------------------------------------------------------------
(* Entry, ends and deferrals of a tick (run_production_supervisor_tick)    *)

\* An idle tick has nothing open.
LEMMA IdleIs ==
  /\ IsTick(IdleTick) /\ IdleTick.at = "idle" /\ (\A tt : BoundIn(IdleTick, tt)) /\ IdleTick.mine = NoRows
  /\ DOMAIN NoRows.task = {} /\ DOMAIN NoRows.job = {} /\ DOMAIN NoRows.lease = {}
<1>1. DOMAIN Empty = {}
  BY DEF Empty
<1> QED
  BY <1>1 DEF IsTick, IdleTick, NoRows, BoundIn

\* An exception rolls the tick back (run_once).
LEMMA RaisesKeeps ==
  ASSUME SupRight, NEW w \in Ticks, Raises(w), supGoal' \in SupGoals
  PROVE  SupRight'
<1>1. tick' = [tick EXCEPT ![w] = IdleTick] /\ db' = db
  BY DEF Raises
<1> QED
  BY <1>1, IdleIs, TickDrops

\* The commit that ends a tick, with the release of its goal lease.
LEMMA EndsKeeps ==
  ASSUME SupRight, NEW w \in Ticks, NEW vt, NEW vj, NEW vl, DOMAIN vl = {1},
         vl[1] \in SupLeases, WriteRight(db.task, db.job, tick, w, vt, vj, {}),
         Ends(w, [task |-> vt, job |-> vj, lease |-> vl]), supGoal' \in SupGoals
  PROVE  SupRight'
<1> DEFINE v == [task |-> vt, job |-> vj, lease |-> vl]
           ul == LeaseReleased(w, v).lease
<1>1. /\ v.task = vt /\ v.job = vj /\ v.lease = vl
      /\ v = [task |-> vt, job |-> vj, lease |-> vl]
  OBVIOUS
<1>2. Lease(NoWorker) \in SupLeases
  BY DEF Lease, SupLeases
<1>3. /\ LeaseReleased(w, v) = [task |-> vt, job |-> vj, lease |-> ul]
      /\ DOMAIN ul = {1} /\ ul[1] \in SupLeases
  <2>1. CASE vl[1].by = w
    <3>1. LeaseReleased(w, v) = [v EXCEPT !.lease[1] = Lease(NoWorker)]
      BY <2>1, <1>1 DEF LeaseReleased
    <3>2. LeaseReleased(w, v) = [task |-> vt, job |-> vj, lease |-> [vl EXCEPT ![1] = Lease(NoWorker)]]
      BY <3>1
    <3> QED
      BY <3>2, <1>2
  <2>2. CASE vl[1].by # w
    <3>1. LeaseReleased(w, v) = v
      BY <2>2, <1>1 DEF LeaseReleased
    <3> QED
      BY <3>1, <1>1
  <2> QED
    BY <2>1, <2>2
<1>4. /\ db' = [task |-> vt, job |-> vj, lease |-> ul]
      /\ tick' = [tick EXCEPT ![w] = [IdleTick EXCEPT !.mine = NoRows]]
  BY <1>3 DEF Ends, Commits
<1>5. [IdleTick EXCEPT !.mine = NoRows] = IdleTick
  BY DEF IdleTick
<1>6. CommitRight(db.task, db.job, tick, w, vt, vj)
  BY WriteCommits
<1>7. OwnLease(IdleTick)
  BY IdleIs DEF OwnLease
<1> HIDE DEF ul
<1> QED
  BY <1>3, <1>4, <1>5, <1>6, <1>7, IdleIs, TickCommits DEF AtHand, SupMoments

\* What a tick that goes on keeps of its record.
LEMMA GoesKeeps ==
  ASSUME SupRight, NEW w \in Ticks, NEW t, NEW k, NEW vt, NEW vj, NEW vl,
         GoRight(db.task, db.job, db.lease, k, tick, w, t, vt, vj, vl),
         Goes(w, t, [task |-> vt, job |-> vj, lease |-> vl]), supGoal' \in SupGoals
  PROVE  SupRight'
<1> USE DEF GoRight
<1> DEFINE v == [task |-> vt, job |-> vj, lease |-> vl]
           own == Over(Changed(vl, db.lease), t.mine.lease)
           q == [t EXCEPT !.mine = [Written(v) EXCEPT !.lease = Over(@, t.mine.lease)]]
<1>1. Written(v) = [task |-> Changed(vt, db.task), job |-> Changed(vj, db.job),
                    lease |-> Changed(vl, db.lease)]
  BY DEF Written
<1>2. [Written(v) EXCEPT !.lease = Over(@, t.mine.lease)] =
        [task |-> Changed(vt, db.task), job |-> Changed(vj, db.job), lease |-> own]
  BY <1>1
<1>3. q = [t EXCEPT !.mine = [task |-> Changed(vt, db.task),
                              job |-> Changed(vj, db.job), lease |-> own]]
  BY <1>2
<1>4. tick' = [tick EXCEPT ![w] = q] /\ db' = db
  BY DEF Goes
<1>5. /\ IsTick(q) /\ q.at = t.at /\ q.task = t.task /\ q.bound = t.bound
      /\ q.mine.task = Changed(vt, db.task) /\ q.mine.job = Changed(vj, db.job)
      /\ q.mine.lease = own
  <2> DEFINE m == [task |-> Changed(vt, db.task), job |-> Changed(vj, db.job), lease |-> own]
  <2>1. m.task = Changed(vt, db.task) /\ m.job = Changed(vj, db.job) /\ m.lease = own
    OBVIOUS
  <2>2. q = [t EXCEPT !.mine = m]
    BY <1>3
  <2> HIDE DEF m, q, own
  <2>3. t = [at |-> t.at, env |-> t.env, instr |-> t.instr, bound |-> t.bound,
             task |-> t.task, deferred |-> t.deferred, ran |-> t.ran, mine |-> t.mine]
    BY DEF IsTick
  <2>4. q = [at |-> t.at, env |-> t.env, instr |-> t.instr, bound |-> t.bound,
             task |-> t.task, deferred |-> t.deferred, ran |-> t.ran, mine |-> m]
    BY <2>2, <2>3
  <2>5. q.at = t.at /\ q.task = t.task /\ q.bound = t.bound /\ q.mine = m /\ IsTick(q)
    BY <2>4 DEF IsTick
  <2> QED
    BY <2>1, <2>5
<1>6. OwnLease(tick[w]) /\ \A x \in Ticks \ {w} :
        DOMAIN tick[w].mine.lease \cap DOMAIN tick[x].mine.lease = {}
  BY DEF SupRight, Right, Apart
<1>7. /\ DOMAIN own = DOMAIN Changed(vl, db.lease) \cup DOMAIN tick[w].mine.lease
      /\ \A i \in DOMAIN own : i = 1 /\ own[i] \in SupLeases
  <2>1. \A i : i \in DOMAIN Changed(vl, db.lease) => i = 1 /\ Changed(vl, db.lease)[i] \in SupLeases
    BY DEF Changed
  <2>2. \A i \in DOMAIN t.mine.lease : i = 1 /\ t.mine.lease[i] \in SupLeases
    BY <1>6 DEF OwnLease
  <2>3. /\ DOMAIN own = DOMAIN Changed(vl, db.lease) \cup DOMAIN t.mine.lease
        /\ \A i \in DOMAIN Changed(vl, db.lease) : own[i] = Changed(vl, db.lease)[i]
        /\ \A i \in DOMAIN t.mine.lease : i \notin DOMAIN Changed(vl, db.lease) => own[i] = t.mine.lease[i]
    <3> DEFINE new == Changed(vl, db.lease)
               mine == t.mine.lease
    <3> HIDE DEF new, mine
    <3>1. own = Over(new, mine)
      BY DEF new, mine
    <3> HIDE DEF own
    <3>2. /\ DOMAIN own = DOMAIN new \cup DOMAIN mine
          /\ \A i \in DOMAIN new : own[i] = new[i]
          /\ \A i \in DOMAIN mine : i \notin DOMAIN new => own[i] = mine[i]
      BY <3>1 DEF Over
    <3> QED
      BY <3>2 DEF new, mine
  <2> HIDE DEF own
  <2> QED
    BY <2>1, <2>2, <2>3
<1> HIDE DEF q, own
<1>8. OwnLease(q)
  BY <1>5, <1>7 DEF OwnLease
<1>9. \A x \in Ticks \ {w} : DOMAIN q.mine.lease \cap DOMAIN tick[x].mine.lease = {}
  BY <1>5, <1>6, <1>7
<1>10. /\ WriteRight(db.task, db.job, k, w, vt, vj, HandOf(q))
       /\ AtHand(q) => HandRight(db.task, db.job, w, vt, vj, q)
       /\ q.at \in {"loop", "dispatched", "driving"} /\ q.at # "driving"
      /\ BoundIn(q, db.task)
  BY <1>5 DEF HandOf, AtHand, HandRight, BoundIn
<1>11. /\ q.mine.task = Changed(vt, db.task) /\ q.mine.job = Changed(vj, db.job)
       /\ q.at = "driving" => 1 \in DOMAIN q.mine.lease
       /\ q.at \in {"loop", "dispatched", "driving"} /\ IsTick(q)
  BY <1>5, <1>10
<1>12. TickStepRight(db.task, db.job, k, tick, w, vt, vj, q)
  BY <1>8, <1>9, <1>10, <1>11 DEF TickStepRight
<1> QED
  BY <1>4, <1>12, TickSteps

\* A deferral that writes nothing but the run of the tick.
LEMMA AsideKeeps ==
  ASSUME SupRight, NEW w \in Ticks, NEW vt, NEW vj, NEW vl, DOMAIN vl = {1},
         vl[1] \in SupLeases,
         \A i : i \in DOMAIN Changed(vl, db.lease) => i \in DOMAIN tick[w].mine.lease,
         WriteRight(db.task, db.job, tick, w, vt, vj, {}),
         PutAside(w, [task |-> vt, job |-> vj, lease |-> vl]), supGoal' \in SupGoals
  PROVE  SupRight'
<1> DEFINE v == [task |-> vt, job |-> vj, lease |-> vl]
           i == tick[w].task
           t == Deferred(tick[w], i)
<1>1. CASE Ends(w, v)
  BY <1>1, EndsKeeps
<1>2. CASE Goes(w, t, v)
  <2>1. IsTick(t) /\ t.mine = tick[w].mine /\ t.at = "loop" /\ t.bound = tick[w].bound
    <3> DEFINE r == tick[w]
               d == r.deferred \cup {i}
    <3>1. t = [r EXCEPT !.deferred = d, !.at = "loop"]
      BY DEF Deferred
    <3>2. r = [at |-> r.at, env |-> r.env, instr |-> r.instr, bound |-> r.bound,
               task |-> r.task, deferred |-> r.deferred, ran |-> r.ran, mine |-> r.mine]
      BY DEF SupRight, IsTick
    <3> HIDE DEF r, d, t
    <3>3. t = [at |-> "loop", env |-> r.env, instr |-> r.instr, bound |-> r.bound,
               task |-> r.task, deferred |-> d, ran |-> r.ran, mine |-> r.mine]
      BY <3>1, <3>2
    <3>4. IsTick(t) /\ t.mine = r.mine /\ t.at = "loop" /\ t.bound = r.bound
      BY <3>3 DEF IsTick
    <3> QED
      BY <3>4 DEF r
  <2>2. \A x \in Ticks \ {w} :
          DOMAIN Changed(vl, db.lease) \cap DOMAIN tick[x].mine.lease = {}
    BY DEF SupRight, Right, Apart
  <2>3. BoundIn(t, db.task)
    BY <2>1 DEF SupRight, BoundIn
  <2>4. HandOf(t) = {} /\ ~AtHand(t)
    BY <2>1 DEF HandOf, AtHand
  <2> HIDE DEF t
  <2>5. /\ WriteRight(db.task, db.job, tick, w, vt, vj, HandOf(t))
        /\ AtHand(t) => HandRight(db.task, db.job, w, vt, vj, t)
        /\ t.at \in {"loop", "dispatched"}
        /\ Goes(w, t, [task |-> vt, job |-> vj, lease |-> vl])
    BY <1>2, <2>1, <2>4
  <2>6. Right(db.task, db.job, tick)
    BY DEF SupRight
  <2>7. GoRight(db.task, db.job, db.lease, tick, tick, w, t, vt, vj, vl)
    BY <2>1, <2>2, <2>3, <2>5, <2>6 DEF GoRight
  <2> QED
    BY <2>5, <2>7, GoesKeeps
<1> QED
  BY <1>1, <1>2 DEF PutAside

\* A view that is written stays one.
LEMMA ViewWrites ==
  ASSUME SupRight, NEW w \in Ticks
  PROVE  WriteRight(db.task, db.job, tick, w, TasksOf(tick[w], db.task),
                    JobsOf(tick[w], db.job), HandOf(tick[w]))
<1>1. Right(db.task, db.job, tick)
  BY DEF SupRight
<1> QED
  BY <1>1, ViewNow

\* The goal and its envelope are read (eligible_authorized_goals).
LEMMA ReadEligibleKeeps ==
  ASSUME SupRight, NEW w \in Ticks, ReadEligible(w)
  PROVE  SupRight'
<1> DEFINE r == tick[w]
           e == supGoal.env
           q == [r EXCEPT !.at = "eligible", !.env = e]
<1>1. tick' = [tick EXCEPT ![w] = q] /\ db' = db /\ supGoal' = supGoal
  BY DEF ReadEligible, SupRight
<1>2. r = [at |-> r.at, env |-> r.env, instr |-> r.instr, bound |-> r.bound,
           task |-> r.task, deferred |-> r.deferred, ran |-> r.ran, mine |-> r.mine]
  BY DEF SupRight, IsTick
<1>3. DOMAIN r.mine.task = {} /\ DOMAIN r.mine.job = {} /\ DOMAIN r.mine.lease = {}
  <2>1. TickRight(db.task, db.job, w, r) /\ OwnLease(r) /\ r.at = "idle"
    BY DEF SupRight, Right, ReadEligible
  <2> QED
    BY <2>1 DEF TickRight, OwnLease
<1>4. supGoal' \in SupGoals
  BY <1>1 DEF SupRight
<1>5. q = [r EXCEPT !.at = "eligible", !.env = e]
  OBVIOUS
<1> HIDE DEF r, e, q
<1>6. q = [at |-> "eligible", env |-> e, instr |-> r.instr, bound |-> r.bound,
           task |-> r.task, deferred |-> r.deferred, ran |-> r.ran, mine |-> r.mine]
  BY <1>5, <1>2
<1>7. IsTick(q) /\ q.mine = r.mine /\ q.at = "eligible" /\ q.bound = r.bound
  BY <1>6 DEF IsTick
<1>8. BoundIn(q, db.task)
  BY <1>7 DEF r, SupRight, BoundIn
<1> QED
  BY <1>1, <1>3, <1>4, <1>7, <1>8, TickDrops

\* The goal lease is claimed or refused (claim_supervisor_goal_lease).
LEMMA ClaimGoalKeeps ==
  ASSUME SupRight, NEW w \in Ticks, ClaimGoal(w)
  PROVE  SupRight'
<1> DEFINE r == tick[w]
           vt == TasksOf(r, db.task)
           vj == JobsOf(r, db.job)
           vl == [View(w).lease EXCEPT ![1] = Lease(w)]
           i == supGoal.instr
           b == Bindable(View(w))
           q == [r EXCEPT !.at = "loop", !.instr = i, !.bound = b]
<1>1. supGoal' \in SupGoals /\ r.at = "eligible"
  BY DEF ClaimGoal, SupRight
<1>2. CASE Raises(w)
  BY <1>1, <1>2, RaisesKeeps
<1>3. CASE Goes(w, q, [View(w) EXCEPT !.lease[1] = Lease(w)])
  <2>1. [View(w) EXCEPT !.lease[1] = Lease(w)] = [task |-> vt, job |-> vj, lease |-> vl]
    BY ViewIs
  <2>2. DOMAIN vl = {1} /\ vl[1] \in SupLeases
    BY ViewIs DEF Lease, SupLeases
  <2>3. \A x \in Ticks \ {w} : 1 \notin DOMAIN tick[x].mine.lease
    BY DEF ClaimGoal, LockedFor
  <2>4. \A x \in Ticks \ {w} : DOMAIN Changed(vl, db.lease) \cap DOMAIN tick[x].mine.lease = {}
    BY <2>2, <2>3 DEF Changed
  <2>5. r = [at |-> r.at, env |-> r.env, instr |-> r.instr, bound |-> r.bound,
             task |-> r.task, deferred |-> r.deferred, ran |-> r.ran, mine |-> r.mine]
    BY DEF SupRight, IsTick
  <2>6. IsTick(q) /\ q.mine = r.mine /\ q.at = "loop" /\ q.bound = b
    <3>1. q = [r EXCEPT !.at = "loop", !.instr = i, !.bound = b]
      OBVIOUS
    <3> HIDE DEF r, i, b, q
    <3>2. q = [at |-> "loop", env |-> r.env, instr |-> i, bound |-> b, task |-> r.task,
               deferred |-> r.deferred, ran |-> r.ran, mine |-> r.mine]
      BY <3>1, <2>5
    <3> QED
      BY <3>2 DEF IsTick
  <2>7. WriteRight(db.task, db.job, tick, w, vt, vj, {})
    BY <1>1, ViewWrites DEF HandOf
  <2>8. HandOf(q) = {} /\ ~AtHand(q)
    BY <2>6 DEF HandOf, AtHand
  <2>9. b \subseteq DOMAIN db.task
    <3>1. TickRight(db.task, db.job, w, r)
      BY DEF SupRight, Right
    <3>2. DOMAIN r.mine.task = {}
      BY <1>1, <3>1 DEF TickRight
    <3>3. DOMAIN View(w).task = DOMAIN db.task
      BY <3>2 DEF View, Over
    <3> QED
      BY <3>3 DEF Bindable
  <2> HIDE DEF q, vl, vt, vj, b
  <2>10. /\ WriteRight(db.task, db.job, tick, w, vt, vj, HandOf(q))
         /\ AtHand(q) => HandRight(db.task, db.job, w, vt, vj, q)
         /\ q.at \in {"loop", "dispatched"} /\ q.mine = tick[w].mine
         /\ Goes(w, q, [task |-> vt, job |-> vj, lease |-> vl])
         /\ BoundIn(q, db.task)
    BY <1>3, <2>1, <2>6, <2>7, <2>8, <2>9 DEF BoundIn, r
  <2>11. Right(db.task, db.job, tick)
    BY DEF SupRight
  <2>12. GoRight(db.task, db.job, db.lease, tick, tick, w, q, vt, vj, vl)
    BY <2>2, <2>4, <2>6, <2>10, <2>11 DEF GoRight
  <2> QED
    BY <1>1, <2>10, <2>12, GoesKeeps
<1> QED
  BY <1>2, <1>3 DEF ClaimGoal

\* A tick that ends with what it has written.
LEMMA StopKeeps ==
  ASSUME SupRight, NEW w \in Ticks, tick[w].at # "dispatched",
         Ends(w, View(w)), supGoal' = supGoal
  PROVE  SupRight'
<1> DEFINE vt == TasksOf(tick[w], db.task)
           vj == JobsOf(tick[w], db.job)
           vl == View(w).lease
<1>1. View(w) = [task |-> vt, job |-> vj, lease |-> vl] /\ DOMAIN vl = {1} /\ vl[1] \in SupLeases
  BY ViewIs
<1>2. WriteRight(db.task, db.job, tick, w, vt, vj, {})
  BY ViewWrites DEF HandOf
<1>3. supGoal' \in SupGoals
  BY DEF SupRight
<1> HIDE DEF vt, vj, vl
<1> QED
  BY <1>1, <1>2, <1>3, EndsKeeps

\* The chosen task is put aside (_apply_deferred).
LEMMA PutAsideKeeps ==
  ASSUME SupRight, NEW w \in Ticks, tick[w].at = "driving", NEW vt, NEW vj,
         WriteRight(db.task, db.job, tick, w, vt, vj, {}),
         PutAside(w, [task |-> vt, job |-> vj, lease |-> View(w).lease]), supGoal' = supGoal
  PROVE  SupRight'
<1>1. supGoal' \in SupGoals
  BY DEF SupRight
<1> QED
  BY <1>1, ViewIs, AsideKeeps

\* A missing capability becomes a repair (gap_from_capability_missing).
LEMMA CapabilityKeeps ==
  ASSUME SupRight, NEW w \in Ticks, CapabilityIsMissing(w)
  PROVE  SupRight'
<1> DEFINE vt == TasksOf(tick[w], db.task)
           vj == JobsOf(tick[w], db.job)
<1>1. View(w) = [task |-> vt, job |-> vj, lease |-> View(w).lease]
  BY ViewIs
<1>2. WriteRight(db.task, db.job, tick, w, vt, vj, {}) /\ tick[w].at = "driving"
  BY ViewWrites DEF HandOf, CapabilityIsMissing
<1>3. PutAside(w, [task |-> vt, job |-> vj, lease |-> View(w).lease]) /\ supGoal' = supGoal
  BY <1>1 DEF CapabilityIsMissing
<1> HIDE DEF vt, vj
<1> QED
  BY <1>2, <1>3, PutAsideKeeps

-----------------------------------------------------------------------------
(* Parking a task and inserting its repair (handle_live_gap_signal)        *)

\* A tick writes its own task, whose job it holds: the task is parked, the
\* job given back or kept, and at most one repair of the task inserted.
LEMMA OwnWrites ==
  ASSUME NEW tt, NEW jj, NEW k, NEW w \in Ticks, NEW vt, NEW vj, NEW q, NEW pt, NEW pj,
         Right(tt, jj, k), WriteRight(tt, jj, k, w, vt, vj, {}),
         HandRight(tt, jj, w, vt, vj, q),
         OwnWrite(tt, k, w, vt, vj, q.task, vt[q.task].job, pt, pj)
  PROVE  WriteRight(tt, jj, k, w, pt, pj, {})
<1> DEFINE t == q.task
           j == vt[t].job
<1>1. /\ Holds(w, vj[j]) /\ RowFree(k, w, t) /\ JobFree(k, w, j)
      /\ pj \in Seq(SupJobs) /\ DOMAIN pj = DOMAIN vj
      /\ \A i \in DOMAIN vj : i # j => pj[i] = vj[i]
      /\ pj[j].by = w /\ pj[j].status # "queued" /\ pj[j].task = vj[j].task
      /\ pj[j].blind = vj[j].blind
      /\ pt \in Seq(SupTasks) /\ DOMAIN vt \subseteq DOMAIN pt
      /\ \A i \in DOMAIN vt : i # t => pt[i] = vt[i]
      /\ SameLineage(vt[t], pt[t])
      /\ \/ pt[t] = vt[t]
         \/ /\ ~Settled(vt[t]) /\ pt[t].status = "blocked"
            /\ pt[t].job = j /\ LetGo(pt[t], pj)
      /\ \A u \in DOMAIN pt \ DOMAIN vt :
           /\ pt[u].parent = t /\ pt[u].status = "ready" /\ pt[u].why = "none"
           /\ pt[u].job = 0 /\ pt[u].depth < MaxDepth
           /\ pt[u].depth = GapOf(vt, t)
           /\ \A i \in DOMAIN pt \ DOMAIN vt : i = u
           /\ Settled(vt[t]) \/ Parked(pt[t])
      /\ InsertsAlone(tt, k, w, pt)
  BY DEF OwnWrite
<1> USE <1>1
<1>2. ViewRight(tt, jj, w, vt, vj, {}) /\ DbRight(tt, jj)
  BY DEF WriteRight, Right
<1>3. /\ t \in DOMAIN tt /\ j # 0 /\ (vt[t] # tt[t] => vt[t].status = "running")
      /\ NoBlind(tt, jj, t) => tt[t].status = "running"
  BY DEF HandRight
<1>4. t \in DOMAIN vt /\ DOMAIN vj = DOMAIN jj /\ DOMAIN tt \subseteq DOMAIN vt
  BY <1>2, <1>3 DEF ViewRight
<1>5. j \in DOMAIN jj
  BY <1>2, <1>3 DEF ViewRight, OwnTask, DbRight
<1>6. ~Settled(jj[j]) /\ (jj[j].by = w \/ jj[j].status = "queued")
      /\ vj[j].task = jj[j].task /\ vj[j].blind = jj[j].blind
  <2>1. CASE vj[j] = jj[j]
    BY <2>1 DEF Holds, Settled, SupTerminal
  <2>2. CASE vj[j] # jj[j]
    BY <2>2, <1>2, <1>5 DEF ViewRight, OwnJob
  <2> QED
    BY <2>1, <2>2
<1>7. OwnJob(w, jj[j], pj[j])
  BY <1>6 DEF OwnJob
<1>8. NoBlind(tt, jj, t) => NoRepair(tt, k, t)
  <2>1. NoBlind(tt, jj, t) => RepairsRight(tt, k, t)
    BY <1>3 DEF Right
  <2> QED
    BY <2>1, <1>3 DEF RepairsRight, Parked
<1>9. \A i \in DOMAIN vj : Settled(vj[i]) => i # j
  BY DEF Holds, Settled, SupTerminal
<1>10. \A i \in DOMAIN tt : pt[i] # tt[i] => OwnTask(tt, jj, w, pt, pj, {}, i)
  <2> SUFFICES ASSUME NEW i \in DOMAIN tt, pt[i] # tt[i]
               PROVE  OwnTask(tt, jj, w, pt, pj, {}, i)
    OBVIOUS
  <2>1. CASE pt[i] = vt[i]
    <3>1. OwnTask(tt, jj, w, vt, vj, {}, i)
      BY <2>1, <1>2 DEF ViewRight
    <3>2. /\ ~Settled(tt[i]) /\ ~Settled(vt[i]) /\ SameLineage(tt[i], vt[i])
          /\ vt[i].status = "running" => tt[i].status = "running"
          /\ vt[i].job # 0 => vt[i].job \in DOMAIN jj /\ vj[vt[i].job].status # "queued"
          /\ LetGo(vt[i], vj)
      BY <3>1 DEF OwnTask
    <3>3. \/ vt[i].job # 0 /\ vj[vt[i].job].by = w
          \/ vt[i].job = tt[i].job /\ (NoBlind(tt, jj, i) => tt[i].status = "blocked")
      BY <3>1 DEF OwnTask
    <3>4. vt[i].job # 0 => /\ pj[vt[i].job].status # "queued"
                           /\ vj[vt[i].job].by = w => pj[vt[i].job].by = w
      BY <3>2, <1>4
    <3>5. LetGo(vt[i], pj)
      BY <3>2, <1>4, <1>9 DEF LetGo
    <3> QED
      BY <2>1, <3>2, <3>3, <3>4, <3>5 DEF OwnTask
  <2>2. CASE pt[i] # vt[i]
    <3>1. i = t /\ ~Settled(vt[t]) /\ pt[t].status = "blocked" /\ pt[t].job = j
          /\ LetGo(pt[t], pj)
      BY <2>2, <1>4
    <3>2. ~Settled(tt[t]) /\ SameLineage(tt[t], vt[t])
      <4>1. CASE vt[t] = tt[t]
        BY <4>1, <3>1 DEF SameLineage
      <4>2. CASE vt[t] # tt[t]
        BY <4>2, <1>2, <1>3 DEF ViewRight, OwnTask
      <4> QED
        BY <4>1, <4>2
    <3>3. SameLineage(tt[t], pt[t]) /\ ~Settled(pt[t])
      BY <3>1, <3>2 DEF SameLineage, Settled, SupTerminal
    <3> QED
      BY <3>1, <3>2, <3>3, <1>3, <1>5 DEF OwnTask
  <2> QED
    BY <2>1, <2>2
<1>11. \A u \in DOMAIN vt \ DOMAIN tt : NoBlind(tt, jj, t) => vt[u].parent # t
  <2> SUFFICES ASSUME NEW u \in DOMAIN vt \ DOMAIN tt, NoBlind(tt, jj, t), vt[u].parent = t
               PROVE  FALSE
    OBVIOUS
  <2>1. vt[t] # tt[t] /\ Parked(vt[t])
    BY <1>2 DEF ViewRight, NewChild
  <2> QED
    BY <2>1, <1>3 DEF Parked
<1>12. GapOf(vt, t) = GapOf(tt, t)
  <2>1. vt[t] # tt[t] => SameLineage(tt[t], vt[t])
    BY <1>2, <1>3 DEF ViewRight, OwnTask
  <2> QED
    BY <2>1 DEF SameLineage, GapOf
<1>13. \A u \in DOMAIN pt \ DOMAIN tt : NewChild(tt, jj, pt, u)
  <2> SUFFICES ASSUME NEW u \in DOMAIN pt \ DOMAIN tt
               PROVE  NewChild(tt, jj, pt, u)
    OBVIOUS
  <2>1. CASE u \in DOMAIN vt
    <3> DEFINE p == vt[u].parent
    <3>1. NewChild(tt, jj, vt, u) /\ pt[u] = vt[u]
      BY <2>1, <1>2, <1>3 DEF ViewRight
    <3>2. NoBlind(tt, jj, p) => p # t
      BY <2>1, <1>11
    <3>3. p \in DOMAIN tt /\ p \in DOMAIN vt
      BY <3>1, <1>4 DEF NewChild
    <3>4. NoBlind(tt, jj, p) => pt[p] # tt[p] /\ Parked(pt[p])
      BY <3>1, <3>2, <3>3 DEF NewChild
    <3>5. NoBlind(tt, jj, p) =>
            \A i \in DOMAIN pt \ DOMAIN tt : pt[i].parent = p => i = u
      <4> SUFFICES ASSUME NoBlind(tt, jj, p), NEW i \in DOMAIN pt \ DOMAIN tt, pt[i].parent = p
                   PROVE  i = u
        OBVIOUS
      <4>1. i \in DOMAIN vt
        BY <3>2
      <4>2. pt[i] = vt[i]
        BY <4>1, <1>3
      <4> QED
        BY <3>1, <4>1, <4>2 DEF NewChild
    <3> QED
      BY <3>1, <3>4, <3>5 DEF NewChild
  <2>2. CASE u \notin DOMAIN vt
    <3>1. /\ pt[u].parent = t /\ pt[u].status = "ready" /\ pt[u].why = "none"
          /\ pt[u].job = 0 /\ pt[u].depth < MaxDepth /\ pt[u].depth = GapOf(tt, t)
          /\ \A i \in DOMAIN pt \ DOMAIN vt : i = u
          /\ Settled(vt[t]) \/ Parked(pt[t])
      BY <2>2, <1>12
    <3>2. NoBlind(tt, jj, t) => ~Settled(vt[t])
      BY <1>3 DEF Settled, SupTerminal
    <3>3. NoBlind(tt, jj, t) => pt[t] # tt[t] /\ Parked(pt[t])
      BY <3>1, <3>2, <1>3 DEF Parked
    <3>4. NoBlind(tt, jj, t) =>
            \A i \in DOMAIN pt \ DOMAIN tt : pt[i].parent = t => i = u
      <4> SUFFICES ASSUME NoBlind(tt, jj, t), NEW i \in DOMAIN pt \ DOMAIN tt, pt[i].parent = t
                   PROVE  i = u
        OBVIOUS
      <4>1. i \in DOMAIN vt => pt[i] = vt[i]
        BY <1>3
      <4> QED
        BY <3>1, <4>1, <1>11
    <3> QED
      BY <3>1, <3>3, <3>4, <1>3 DEF NewChild
  <2> QED
    BY <2>1, <2>2
<1>14. ViewRight(tt, jj, w, pt, pj, {})
  <2>1. \A i \in DOMAIN jj : pj[i] # jj[i] => OwnJob(w, jj[i], pj[i])
    <3> SUFFICES ASSUME NEW i \in DOMAIN jj, pj[i] # jj[i]
                 PROVE  OwnJob(w, jj[i], pj[i])
      OBVIOUS
    <3>1. CASE i = j
      BY <3>1, <1>7
    <3>2. CASE i # j
      BY <3>2, <1>2, <1>4 DEF ViewRight
    <3> QED
      BY <3>1, <3>2
  <2>2. DOMAIN tt \subseteq DOMAIN pt
    BY <1>4
  <2> QED
    BY <2>1, <2>2, <1>4, <1>10, <1>13 DEF ViewRight
<1>15. \A i \in DOMAIN jj : pj[i] # jj[i] => JobFree(k, w, i)
  BY <1>4 DEF WriteRight
<1>16. \A i \in DOMAIN tt : pt[i] # tt[i] =>
         RowFree(k, w, i) /\ (NoBlind(tt, jj, i) => NoRepair(tt, k, i))
  <2> SUFFICES ASSUME NEW i \in DOMAIN tt, pt[i] # tt[i]
               PROVE  RowFree(k, w, i) /\ (NoBlind(tt, jj, i) => NoRepair(tt, k, i))
    OBVIOUS
  <2>1. CASE i = t
    BY <2>1, <1>8
  <2>2. CASE i # t
    <3>1. pt[i] = vt[i]
      BY <2>2, <1>4
    <3> QED
      BY <3>1 DEF WriteRight
  <2> QED
    BY <2>1, <2>2
<1> QED
  BY <1>14, <1>15, <1>16 DEF WriteRight

\* What a tick that drives knows of its task.
LEMMA DrivingHas ==
  ASSUME SupRight, NEW w \in Ticks, tick[w].at = "driving"
  PROVE  /\ Right(db.task, db.job, tick)
         /\ WriteRight(db.task, db.job, tick, w, TasksOf(tick[w], db.task),
                       JobsOf(tick[w], db.job), {})
         /\ HandRight(db.task, db.job, w, TasksOf(tick[w], db.task),
                      JobsOf(tick[w], db.job), tick[w])
<1>1. Right(db.task, db.job, tick)
  BY DEF SupRight
<1>2. TickRight(db.task, db.job, w, tick[w])
  BY <1>1 DEF Right
<1>3. HandRight(db.task, db.job, w, TasksOf(tick[w], db.task),
                JobsOf(tick[w], db.job), tick[w])
  BY <1>2 DEF TickRight, AtHand
<1> QED
  BY <1>1, <1>3, ViewWrites DEF HandOf

\* A row that no other tick has locked is the committed one or its own.
LEMMA UnlockedIs ==
  ASSUME NEW w \in Ticks, NEW v, Unlocked(w, v)
  PROVE  RowFree(tick, w, tick[w].task) /\ JobFree(tick, w, v.task[tick[w].task].job)
BY DEF Unlocked, LockedFor, RowFree, JobFree, Job

\* The task waits for its provider (_park_waiting_provider).
LEMMA WaitsKeeps ==
  ASSUME SupRight, NEW w \in Ticks, WaitsForProvider(w)
  PROVE  SupRight'
<1> DEFINE q == tick[w]
           tt == db.task
           jj == db.job
           vt == TasksOf(q, tt)
           vj == JobsOf(q, jj)
           vl == View(w).lease
           v == [task |-> vt, job |-> vj, lease |-> vl]
           t == q.task
           j == vt[t].job
           new == IF vt[t].status = "running"
                  THEN [vt[t] EXCEPT !.status = "blocked", !.why = "provider"] ELSE vt[t]
           gone == [vj[j] EXCEPT !.status = "failed"]
           pt == [vt EXCEPT ![t] = new]
           pj == [vj EXCEPT ![j] = gone]
<1>1. View(w) = v /\ v.task = vt /\ v.job = vj /\ v.lease = vl
  BY ViewIs
<1>2. /\ q.at = "driving" /\ Unlocked(w, v) /\ PutAside(w, ParkedFor(w, v, "provider"))
      /\ supGoal' = supGoal
  BY <1>1 DEF WaitsForProvider
<1>3. Right(tt, jj, tick) /\ WriteRight(tt, jj, tick, w, vt, vj, {})
      /\ HandRight(tt, jj, w, vt, vj, q)
  BY <1>2, DrivingHas
<1>4. Job(w, v) = j
  BY <1>1 DEF Job
<1>5. CASE ~Holds(w, vj[j])
  <2>1. ParkedFor(w, v, "provider") = v
    BY <1>1, <1>4, <1>5 DEF ParkedFor
  <2> HIDE DEF vt, vj
  <2> QED
    BY <1>2, <1>3, <2>1, PutAsideKeeps
<1>6. CASE Holds(w, vj[j])
  <2>1. ParkedFor(w, v, "provider") = [task |-> pt, job |-> pj, lease |-> vl]
    <3>1. ParkedFor(w, v, "provider") =
            [v EXCEPT !.job[j] = ReleasedJob(w, @),
                      !.task[t] = IF @.status = "running"
                                  THEN [@ EXCEPT !.status = "blocked", !.why = "provider"]
                                  ELSE @]
      BY <1>1, <1>4, <1>6 DEF ParkedFor
    <3>2. ReleasedJob(w, vj[j]) = gone
      BY <1>6 DEF ReleasedJob
    <3>3. [v EXCEPT !.job[j] = ReleasedJob(w, @),
                      !.task[t] = IF @.status = "running"
                                  THEN [@ EXCEPT !.status = "blocked", !.why = "provider"]
                                  ELSE @]
          = [v EXCEPT !.job[j] = ReleasedJob(w, vj[j]), !.task[t] = new]
      OBVIOUS
    <3>4. [v EXCEPT !.job[j] = ReleasedJob(w, vj[j]), !.task[t] = new]
          = [task |-> pt, job |-> pj, lease |-> vl]
      <4> HIDE DEF new, vt, vj, vl, t, j, gone
      <4> DEFINE u == [v EXCEPT !.job[j] = ReleasedJob(w, vj[j])]
      <4>1. u = [task |-> vt, job |-> [vj EXCEPT ![j] = ReleasedJob(w, vj[j])], lease |-> vl]
        OBVIOUS
      <4>2. [vj EXCEPT ![j] = ReleasedJob(w, vj[j])] = pj
        BY <3>2
      <4> HIDE DEF u
      <4>3. u = [task |-> vt, job |-> pj, lease |-> vl]
        BY <4>1, <4>2, Zenon
      <4> HIDE DEF pj
      <4>4. [u EXCEPT !.task[t] = new] = [task |-> pt, job |-> pj, lease |-> vl]
        BY <4>3
      <4> QED
        BY <4>4, Zenon DEF u
    <3> HIDE DEF new, gone, v, t, j, pt, pj
    <3> QED
      BY <3>1, <3>3, <3>4
  <2>2. /\ vt \in Seq(SupTasks) /\ vj \in Seq(SupJobs) /\ DOMAIN vj = DOMAIN jj
        /\ t \in DOMAIN tt /\ t \in DOMAIN vt /\ j # 0
    BY <1>3 DEF WriteRight, ViewRight, HandRight
  <2>3. j \in DOMAIN jj
    BY <1>3, <2>2 DEF WriteRight, ViewRight, OwnTask, Right, DbRight
  <2>4. vt[t] \in SupTasks /\ vj[j] \in SupJobs
    BY <2>2, <2>3
  <2>5. /\ gone \in SupJobs /\ gone.by = w /\ gone.status = "failed"
        /\ gone.task = vj[j].task /\ gone.blind = vj[j].blind
    BY <1>6, <2>4 DEF SupJobs, SupJobStatuses, SupTerminal, Holds
  <2>6. /\ new \in SupTasks /\ SameLineage(vt[t], new) /\ new.job = vt[t].job
        /\ \/ new = vt[t]
           \/ vt[t].status = "running" /\ new.status = "blocked"
    <3>1. CASE vt[t].status = "running"
      <4>1. new = [vt[t] EXCEPT !.status = "blocked", !.why = "provider"]
        BY <3>1
      <4> HIDE DEF new, vt
      <4> QED
        BY <2>4, <3>1, <4>1 DEF SupTasks, SupTaskStatuses, SameLineage
    <3>2. CASE vt[t].status # "running"
      BY <2>4, <3>2 DEF SameLineage
    <3> QED
      BY <3>1, <3>2
  <2> HIDE DEF new, gone, vt, vj
  <2>7. /\ pt \in Seq(SupTasks) /\ DOMAIN pt = DOMAIN vt /\ pt[t] = new
        /\ \A i \in DOMAIN vt : i # t => pt[i] = vt[i]
    BY <2>2, <2>6
  <2>8. /\ pj \in Seq(SupJobs) /\ DOMAIN pj = DOMAIN vj /\ pj[j] = gone
        /\ \A i \in DOMAIN vj : i # j => pj[i] = vj[i]
    BY <2>2, <2>3, <2>5
  <2> HIDE DEF pt, pj
  <2>9. LetGo(pt[t], pj)
    BY <2>5, <2>6, <2>7, <2>8 DEF LetGo, Settled, SupTerminal
  <2>10. \/ pt[t] = vt[t]
         \/ ~Settled(vt[t]) /\ pt[t].status = "blocked" /\ pt[t].job = j /\ LetGo(pt[t], pj)
    BY <2>6, <2>7, <2>9 DEF Settled, SupTerminal
  <2>11. RowFree(tick, w, t) /\ JobFree(tick, w, j)
    BY <1>1, <1>2, UnlockedIs
  <2>12. InsertsAlone(tt, tick, w, pt)
    BY <1>3, <2>7 DEF WriteRight, InsertsAlone
  <2>13. WriteRight(tt, jj, tick, w, pt, pj, {})
    <3>1. SameLineage(vt[t], pt[t])
      BY <2>6, <2>7
    <3>2. pj[j].by = w /\ pj[j].status # "queued" /\ pj[j].task = vj[j].task
          /\ pj[j].blind = vj[j].blind
      BY <2>5, <2>8
    <3>3. \A u \in DOMAIN pt \ DOMAIN vt :
            /\ pt[u].parent = t /\ pt[u].status = "ready" /\ pt[u].why = "none"
            /\ pt[u].job = 0 /\ pt[u].depth < MaxDepth /\ pt[u].depth = GapOf(vt, t)
            /\ \A i \in DOMAIN pt \ DOMAIN vt : i = u
            /\ Settled(vt[t]) \/ Parked(pt[t])
      BY <2>7
    <3>4. OwnWrite(tt, tick, w, vt, vj, t, j, pt, pj)
      BY <1>6, <2>7, <2>8, <2>10, <2>11, <2>12, <3>1, <3>2, <3>3 DEF OwnWrite
    <3> QED
      BY <1>3, <3>4, OwnWrites
  <2> QED
    BY <1>2, <2>1, <2>13, PutAsideKeeps
<1> QED
  BY <1>5, <1>6

\* The driver fails and may open a repair (_invoke_live_gap).
LEMMA FailsKeeps ==
  ASSUME SupRight, NEW w \in Ticks, DriverFails(w)
  PROVE  SupRight'
<1> DEFINE q == tick[w]
           tt == db.task
           jj == db.job
           vt == TasksOf(q, tt)
           vj == JobsOf(q, jj)
           vl == View(w).lease
           v == [task |-> vt, job |-> vj, lease |-> vl]
           t == q.task
           j == vt[t].job
           child == [ChildTask(t, j, GapDepth(v, t)) EXCEPT !.reverify = vt[t].reverify]
           mt == IF SameGap(v, t, j) # {} THEN vt ELSE Append(vt, child)
           m == [task |-> mt, job |-> vj, lease |-> vl]
           new == IF vt[t].status \in SupTerminal THEN vt[t]
                  ELSE [vt[t] EXCEPT !.status = "blocked", !.why = "repair"]
           pt == [mt EXCEPT ![t] = new]
<1>1. View(w) = v /\ v.task = vt /\ v.job = vj /\ v.lease = vl
  BY ViewIs
<1>2. /\ q.at = "driving" /\ Unlocked(w, v) /\ NoInsertionOpen(w)
      /\ supGoal' = supGoal
      /\ \/ GapAccepted(w, v) /\ PutAside(w, ParkedSource(WithChild(w, v), t))
         \/ PutAside(w, v)
  BY <1>1 DEF DriverFails
<1>3. Right(tt, jj, tick) /\ WriteRight(tt, jj, tick, w, vt, vj, {})
      /\ HandRight(tt, jj, w, vt, vj, q)
  BY <1>2, DrivingHas
<1>4. Job(w, v) = j
  BY <1>1 DEF Job
<1>5. CASE PutAside(w, v)
  <2> HIDE DEF vt, vj
  <2> QED
    BY <1>2, <1>3, <1>5, PutAsideKeeps
<1>6. CASE GapAccepted(w, v) /\ PutAside(w, ParkedSource(WithChild(w, v), t))
  <2>1. /\ vt \in Seq(SupTasks) /\ vj \in Seq(SupJobs) /\ DOMAIN vj = DOMAIN jj
        /\ t \in DOMAIN tt /\ t \in DOMAIN vt /\ j # 0
        /\ DOMAIN tt \subseteq DOMAIN vt /\ tt \in Seq(SupTasks)
    BY <1>3 DEF WriteRight, ViewRight, HandRight, Right, DbRight
  <2>2. Holds(w, vj[j]) /\ GapDepth(v, t) < MaxDepth
    BY <1>1, <1>4, <1>6 DEF GapAccepted
  <2>3. vt[t] \in SupTasks
    BY <2>1
  <2>4. GapDepth(v, t) = GapOf(vt, t)
    BY <1>1 DEF GapDepth, GapOf
  <2>5. GapOf(vt, t) \in Nat
    BY <2>3 DEF GapOf, SupTasks
  <2>6. DOMAIN vt = 1..Len(vt) /\ Len(vt) \in Nat
    BY <2>1
  <2>7. /\ child \in SupTasks /\ child.parent = t /\ child.status = "ready"
        /\ child.why = "none" /\ child.job = 0 /\ child.depth = GapOf(vt, t)
    <3> DEFINE d == GapDepth(v, t)
               r == vt[t].reverify
    <3>1. d \in Nat /\ d = GapOf(vt, t) /\ r \in BOOLEAN /\ t \in Nat /\ j \in Nat
      <4>1. t \in Nat
        BY <2>1, <2>6
      <4> HIDE DEF vt
      <4>2. vt[t].reverify \in BOOLEAN
        BY <2>3 DEF SupTasks
      <4>3. vt[t].job \in Nat
        BY <2>3 DEF SupTasks
      <4> QED
        BY <2>4, <2>5, <4>1, <4>2, <4>3
    <3>2. child = [ChildTask(t, j, d) EXCEPT !.reverify = r]
      OBVIOUS
    <3> HIDE DEF d, r, child, t, j
    <3>3. child = [prio |-> 0, fit |-> TRUE, independent |-> TRUE, reverify |-> r,
                   status |-> "ready", why |-> "none", job |-> 0,
                   parent |-> t, pjob |-> j, depth |-> d]
      BY <3>2 DEF ChildTask
    <3> QED
      BY <3>1, <3>3 DEF SupTasks, SupTaskStatuses
  <2>8. /\ mt \in Seq(SupTasks) /\ DOMAIN vt \subseteq DOMAIN mt
        /\ \A i \in DOMAIN vt : mt[i] = vt[i]
        /\ \A u \in DOMAIN mt \ DOMAIN vt : u = Len(vt) + 1 /\ mt[u] = child
    <3> HIDE DEF child, vt
    <3>1. CASE SameGap(v, t, j) # {}
      <4>1. mt = vt
        BY <3>1
      <4> HIDE DEF mt
      <4> QED
        BY <4>1, <2>1
    <3>2. CASE SameGap(v, t, j) = {}
      <4>1. mt = Append(vt, child)
        BY <3>2
      <4> HIDE DEF mt
      <4> QED
        BY <4>1, <2>1, <2>6, <2>7
    <3> QED
      BY <3>1, <3>2
  <2>9. WithChild(w, v) = m
    <3>1. WithChild(w, v) = IF SameGap(v, t, j) # {} THEN v
                            ELSE [v EXCEPT !.task = Append(vt, child)]
      BY <1>1, <1>4 DEF WithChild
    <3> HIDE DEF child, vt, vj, vl
    <3>2. [v EXCEPT !.task = Append(vt, child)] = [task |-> Append(vt, child), job |-> vj, lease |-> vl]
      OBVIOUS
    <3> QED
      BY <3>1, <3>2
  <2> HIDE DEF mt, child
  <2>10. mt[t] = vt[t] /\ t \in DOMAIN mt
    BY <2>1, <2>8
  <2>11. ParkedSource(WithChild(w, v), t) = [task |-> pt, job |-> vj, lease |-> vl]
    <3>1. m.task = mt /\ m.job = vj /\ m.lease = vl
      OBVIOUS
    <3>2. CASE vt[t].status \in SupTerminal
      <4>1. ParkedSource(m, t) = m
        BY <2>10, <3>1, <3>2 DEF ParkedSource
      <4>2. pt = [mt EXCEPT ![t] = vt[t]]
        BY <3>2
      <4> HIDE DEF vt, new, pt
      <4>3. pt = mt
        BY <4>2, <2>8, <2>10
      <4> QED
        BY <4>1, <4>3, <2>9
    <3>3. CASE vt[t].status \notin SupTerminal
      <4>1. ParkedSource(m, t) =
              [m EXCEPT !.task[t].status = "blocked", !.task[t].why = "repair"]
        BY <2>10, <3>1, <3>3 DEF ParkedSource
      <4>2. new = [vt[t] EXCEPT !.status = "blocked", !.why = "repair"]
        BY <3>3
      <4> HIDE DEF vt, new
      <4>3. [m EXCEPT !.task[t].status = "blocked", !.task[t].why = "repair"] =
              [m EXCEPT !.task = [[mt EXCEPT ![t].status = "blocked"] EXCEPT ![t].why = "repair"]]
        OBVIOUS
      <4>4. [[mt EXCEPT ![t].status = "blocked"] EXCEPT ![t].why = "repair"] = pt
        BY <4>2, <2>10
      <4> QED
        BY <4>1, <4>3, <4>4, <2>9
    <3> QED
      BY <3>2, <3>3
  <2>12. /\ new \in SupTasks /\ SameLineage(vt[t], new) /\ new.job = j
         /\ \/ new = vt[t] /\ Settled(vt[t])
            \/ ~Settled(vt[t]) /\ new.status = "blocked" /\ new.why = "repair"
    <3>1. CASE vt[t].status \in SupTerminal
      BY <2>3, <3>1 DEF SameLineage, Settled
    <3>2. CASE vt[t].status \notin SupTerminal
      <4>1. new = [vt[t] EXCEPT !.status = "blocked", !.why = "repair"]
        BY <3>2
      <4> HIDE DEF new, vt
      <4> QED
        BY <2>3, <3>2, <4>1 DEF SupTasks, SupTaskStatuses, SameLineage, Settled
    <3> QED
      BY <3>1, <3>2
  <2> HIDE DEF new, vt, vj
  <2>13. /\ pt \in Seq(SupTasks) /\ DOMAIN pt = DOMAIN mt /\ pt[t] = new
         /\ \A i \in DOMAIN mt : i # t => pt[i] = mt[i]
    BY <2>8, <2>10, <2>12
  <2> HIDE DEF pt
  <2>14. \/ pt[t] = vt[t]
         \/ ~Settled(vt[t]) /\ pt[t].status = "blocked" /\ pt[t].job = j /\ LetGo(pt[t], vj)
    BY <2>12, <2>13 DEF LetGo
  <2>15. RowFree(tick, w, t) /\ JobFree(tick, w, j)
    BY <1>1, <1>2, UnlockedIs
  <2>16. InsertsAlone(tt, tick, w, pt)
    BY <1>2 DEF NoInsertionOpen, InsertsAlone
  <2>17. \A u \in DOMAIN pt \ DOMAIN vt :
            /\ pt[u].parent = t /\ pt[u].status = "ready" /\ pt[u].why = "none"
            /\ pt[u].job = 0 /\ pt[u].depth < MaxDepth /\ pt[u].depth = GapOf(vt, t)
            /\ \A i \in DOMAIN pt \ DOMAIN vt : i = u
            /\ Settled(vt[t]) \/ Parked(pt[t])
    <3> SUFFICES ASSUME NEW u \in DOMAIN pt \ DOMAIN vt
                 PROVE  /\ pt[u].parent = t /\ pt[u].status = "ready" /\ pt[u].why = "none"
                        /\ pt[u].job = 0 /\ pt[u].depth < MaxDepth /\ pt[u].depth = GapOf(vt, t)
                        /\ \A i \in DOMAIN pt \ DOMAIN vt : i = u
                        /\ Settled(vt[t]) \/ Parked(pt[t])
      OBVIOUS
    <3>1. pt[u] = child
      BY <2>1, <2>8, <2>13
    <3>2. \A i \in DOMAIN pt \ DOMAIN vt : i = u
      BY <2>8, <2>13
    <3>3. Settled(vt[t]) \/ Parked(pt[t])
      BY <2>12, <2>13 DEF Parked
    <3> QED
      BY <3>1, <3>2, <3>3, <2>2, <2>4, <2>7
  <2>18. WriteRight(tt, jj, tick, w, pt, vj, {})
    <3>1. SameLineage(vt[t], pt[t]) /\ DOMAIN vt \subseteq DOMAIN pt
          /\ \A i \in DOMAIN vt : i # t => pt[i] = vt[i]
      BY <2>8, <2>12, <2>13
    <3>2. vj[j].by = w /\ vj[j].status # "queued"
      BY <2>2 DEF Holds
    <3>3. OwnWrite(tt, tick, w, vt, vj, t, j, pt, vj)
      BY <2>1, <2>2, <2>13, <2>14, <2>15, <2>16, <2>17, <3>1, <3>2 DEF OwnWrite
    <3> QED
      BY <1>3, <3>3, OwnWrites
  <2> QED
    BY <1>2, <1>6, <2>11, <2>18, PutAsideKeeps
<1> QED
  BY <1>2, <1>5, <1>6

-----------------------------------------------------------------------------
(* Dispatch and resumption (create_job, prepare_context)                   *)

\* create_job commits what the tick has written, the task running and the job.
LEMMA JobCreated ==
  ASSUME NEW tt, NEW jj, NEW k, NEW w \in Ticks, NoWorker \notin Ticks, Right(tt, jj, k),
         DOMAIN k[w].mine.task = {}, DOMAIN k[w].mine.job = {}, k[w].at = "loop",
         NEW t \in DOMAIN tt, tt[t].status = "ready", RowFree(k, w, t)
  PROVE  Right([tt EXCEPT ![t].status = "running"], Append(jj, QueuedJob(t)), k)
<1> DEFINE ct == [tt EXCEPT ![t].status = "running"]
           job == QueuedJob(t)
           cj == Append(jj, job)
<1>1. DbRight(tt, jj) /\ tt \in Seq(SupTasks) /\ jj \in Seq(SupJobs)
  BY DEF Right, DbRight
<1>2. DOMAIN tt = 1..Len(tt) /\ DOMAIN jj = 1..Len(jj) /\ Len(jj) \in Nat /\ Len(tt) \in Nat
  BY <1>1
<1>3. tt[t] \in SupTasks /\ t \in Nat
  BY <1>1, <1>2
<1>4. /\ ct \in Seq(SupTasks) /\ DOMAIN ct = DOMAIN tt
      /\ \A i \in DOMAIN tt : i # t => ct[i] = tt[i]
      /\ ct[t] = [tt[t] EXCEPT !.status = "running"]
  <2>1. [tt[t] EXCEPT !.status = "running"] \in SupTasks
    BY <1>3 DEF SupTasks, SupTaskStatuses
  <2> QED
    BY <2>1, <1>1
<1>5. /\ ct[t].status = "running" /\ ct[t].job = tt[t].job /\ SameLineage(tt[t], ct[t])
  BY <1>3, <1>4 DEF SupTasks, SameLineage
<1>6. /\ job \in SupJobs /\ job.task = t /\ job.status = "queued" /\ job.by = NoWorker
  BY <1>3 DEF QueuedJob, SupJobs, SupJobStatuses
<1> HIDE DEF ct, job
<1>7. /\ cj \in Seq(SupJobs) /\ DOMAIN cj = 1..(Len(jj) + 1)
      /\ \A i \in DOMAIN jj : cj[i] = jj[i]
      /\ cj[Len(jj) + 1] = job
  BY <1>1, <1>2, <1>6
<1> HIDE DEF cj
<1>8. CommitTask(tt, jj, k, w, ct, cj, t)
  <2>1. tt[t].job # 0 => /\ tt[t].job \in DOMAIN jj
                         /\ jj[tt[t].job].status # "queued"
    BY <1>1 DEF DbRight
  <2>2. NoBlind(tt, jj, t) => NoRepair(tt, k, t)
    BY DEF Right, RepairsRight, Parked
  <2>3. ~Settled(tt[t]) /\ ~Settled(ct[t]) /\ LetGo(ct[t], cj)
    BY <1>5 DEF Settled, SupTerminal, LetGo
  <2> QED
    BY <1>5, <1>7, <2>1, <2>2, <2>3 DEF CommitTask
<1>9. CommitRight(tt, jj, k, w, ct, cj)
  <2>1. \A i \in DOMAIN tt : ct[i] # tt[i] => CommitTask(tt, jj, k, w, ct, cj, i)
    BY <1>4, <1>8
  <2>2. \A i \in DOMAIN cj \ DOMAIN jj :
          /\ cj[i].task \in DOMAIN ct
          /\ cj[i].status = "queued" => cj[i].by = NoWorker
    BY <1>2, <1>4, <1>6, <1>7
  <2>3. DOMAIN jj \subseteq DOMAIN cj
    BY <1>2, <1>7
  <2> QED
    BY <1>4, <1>7, <2>1, <2>2, <2>3 DEF CommitRight, InsertsAlone
<1>10. Right(ct, cj, k)
  <2>1. DOMAIN k[w].mine.lease \subseteq DOMAIN k[w].mine.lease
        /\ k[w].at \in SupMoments \ {"completed"}
        /\ k[w].at = "loop" /\ ~AtHand(k[w])
    BY DEF SupMoments, AtHand
  <2> QED
    BY <1>9, <2>1, Committed
<1> QED
  BY <1>10 DEF ct, cj, job

\* The pointer to the job is written after that.
LEMMA PointerWritten ==
  ASSUME NEW tt, NEW jj, NEW k, NEW w \in Ticks, Right(tt, jj, k),
         NEW t \in DOMAIN tt, tt[t].status = "running", RowFree(k, w, t),
         NEW j \in DOMAIN jj, tt[t].job # j, jj[j].status = "queued", NEW k2,
         \A x \in Ticks \ {w} : k2[x] = k[x],
         NEW row, row = [tt[t] EXCEPT !.job = j], k2[w].mine.task = Row(t, row),
         k2[w].mine.job = Empty, k2[w].mine.lease = Empty,
         k2[w].at = "dispatched", k2[w].task = t
  PROVE  Right(tt, jj, k2)
<1> DEFINE pt == [tt EXCEPT ![t] = row]
           q == k2[w]
<1>1. DbRight(tt, jj) /\ tt \in Seq(SupTasks) /\ jj \in Seq(SupJobs)
  BY DEF Right, DbRight
<1>2. DOMAIN tt = 1..Len(tt) /\ DOMAIN jj = 1..Len(jj) /\ Len(jj) \in Nat
  BY <1>1
<1>3. tt[t] \in SupTasks /\ j \in Nat /\ j # 0 /\ jj[j] \in SupJobs
  BY <1>1, <1>2
<1>4. /\ row \in SupTasks /\ row.job = j /\ row.status = "running" /\ SameLineage(tt[t], row)
      /\ row # tt[t]
  BY <1>3 DEF SupTasks, SameLineage
<1>5. q.mine.task = Row(t, row) /\ q.mine.job = Empty /\ q.mine.lease = Empty
  OBVIOUS
<1>6. /\ pt \in Seq(SupTasks) /\ DOMAIN pt = DOMAIN tt /\ pt[t] = row
      /\ \A i \in DOMAIN tt : i # t => pt[i] = tt[i]
  BY <1>1, <1>4
<1> HIDE DEF pt
<1>7. q.mine.task = Changed(pt, tt)
  <2> DEFINE own == {i \in DOMAIN pt : i \in DOMAIN tt => pt[i] # tt[i]}
  <2>1. own = {t}
    BY <1>4, <1>6
  <2>2. Changed(pt, tt) = [i \in {t} |-> pt[i]]
    BY <2>1 DEF Changed
  <2> QED
    BY <1>5, <1>6, <2>2 DEF Row
<1>8. q.mine.job = Changed(jj, jj)
  <2> DEFINE own == {i \in DOMAIN jj : i \in DOMAIN jj => jj[i] # jj[i]}
  <2>1. own = {}
    OBVIOUS
  <2>2. Changed(jj, jj) = [i \in {} |-> jj[i]]
    BY <2>1 DEF Changed
  <2> QED
    BY <1>5, <2>2 DEF Empty
<1>9. WriteRight(tt, jj, k, w, pt, jj, {t})
  <2>1. OwnTask(tt, jj, w, pt, jj, {t}, t)
    BY <1>3, <1>4, <1>6 DEF OwnTask, Settled, SupTerminal, LetGo
  <2>2. ViewRight(tt, jj, w, pt, jj, {t})
    BY <1>1, <1>6, <2>1 DEF ViewRight
  <2>3. NoBlind(tt, jj, t) => NoRepair(tt, k, t)
    BY DEF Right, RepairsRight, Parked
  <2> QED
    BY <1>6, <2>2, <2>3 DEF WriteRight, InsertsAlone
<1>10. HandRight(tt, jj, w, pt, jj, q)
  BY <1>3, <1>4, <1>6 DEF HandRight, Holds
<1>11. HandOf(q) = {t} /\ DOMAIN q.mine.lease = {} /\ q.at = "dispatched"
  BY <1>5 DEF HandOf, Empty
<1> QED
  <2>1. WriteRight(tt, jj, k, w, pt, jj, HandOf(k2[w]))
        /\ DOMAIN k2[w].mine.lease \subseteq {1}
        /\ (\A x \in Ticks \ {w} :
              DOMAIN k2[w].mine.lease \cap DOMAIN k[x].mine.lease = {})
        /\ k2[w].at \in {"loop", "dispatched", "driving"} /\ k2[w].at # "driving"
    BY <1>9, <1>11
  <2> HIDE DEF q
  <2> QED
    BY <1>7, <1>8, <1>10, <2>1, Went DEF q

\* A ready task is dispatched with a new job.
LEMMA DispatchChosenKeeps ==
  ASSUME SupRight, NEW w \in Ticks, DispatchChosen(w)
  PROVE  SupRight'
<1> DEFINE q == tick[w]
           tt == db.task
           jj == db.job
           vt == TasksOf(q, tt)
           vj == JobsOf(q, jj)
           vl == View(w).lease
           v == [task |-> vt, job |-> vj, lease |-> vl]
           j == Len(vj) + 1
<1>1. View(w) = v /\ v.task = vt /\ v.job = vj /\ v.lease = vl
      /\ DOMAIN vl = {1} /\ vl[1] \in SupLeases
  BY ViewIs
<1>2. PICK t \in Selected(w, View(w)) :
        LET c == [View(w) EXCEPT !.task[t].status = "running",
                                 !.job = Append(@, QueuedJob(t))]
        IN  /\ View(w).task[t].status = "ready" /\ ~LockedFor(w, "task", t)
            /\ db' = c
            /\ tick' = [tick EXCEPT
                 ![w] = [@ EXCEPT !.at = "dispatched", !.task = t,
                    !.mine = [NoRows EXCEPT !.task =
                       Row(t, [c.task[t] EXCEPT !.job = Len(View(w).job) + 1])]]]
  BY DEF DispatchChosen
<1> DEFINE ct == [vt EXCEPT ![t].status = "running"]
           nj == Append(vj, QueuedJob(t))
           row == [ct[t] EXCEPT !.job = j]
           m == [NoRows EXCEPT !.task = Row(t, row)]
           k1 == [tick EXCEPT ![w] = [q EXCEPT !.mine = NoRows]]
           k2 == [q EXCEPT !.at = "dispatched", !.task = t, !.mine = m]
<1>3. q.at = "loop" /\ supGoal' = supGoal
  BY DEF DispatchChosen
<1>4. Right(tt, jj, tick) /\ NoWorker \notin Ticks /\ DOMAIN tick = Ticks /\ IsTick(q)
  BY SupervisorBounds DEF SupRight
<1>5. WriteRight(tt, jj, tick, w, vt, vj, {})
  BY <1>3, ViewWrites DEF HandOf
<1>6. CommitRight(tt, jj, tick, w, vt, vj)
  BY <1>5, WriteCommits
<1>7. q = [at |-> q.at, env |-> q.env, instr |-> q.instr, bound |-> q.bound,
           task |-> q.task, deferred |-> q.deferred, ran |-> q.ran, mine |-> q.mine]
  BY <1>4 DEF IsTick
<1> DEFINE c == [View(w) EXCEPT !.task[t].status = "running",
                                !.job = Append(@, QueuedJob(t))]
<1>8. c = [task |-> ct, job |-> nj, lease |-> vl]
  <2>1. c = [v EXCEPT !.task = ct, !.job = nj]
    BY <1>1
  <2> HIDE DEF ct, nj, vt, vj, vl, c
  <2> QED
    BY <2>1
<1>9. tick' = [tick EXCEPT ![w] = k2] /\ db' = [task |-> ct, job |-> nj, lease |-> vl]
  <2>1. c.task[t] = ct[t]
    BY <1>8
  <2>2. Len(View(w).job) + 1 = j
    BY <1>1
  <2>3. tick' = [tick EXCEPT
                  ![w] = [@ EXCEPT !.at = "dispatched", !.task = t,
                     !.mine = [NoRows EXCEPT !.task =
                        Row(t, [c.task[t] EXCEPT !.job = Len(View(w).job) + 1])]]]
        /\ db' = c
    BY <1>2
  <2> HIDE DEF c, ct, j
  <2> QED
    BY <1>8, <2>1, <2>2, <2>3
<1> HIDE DEF q, m, vt, vj, vl, row, v, c
<1>10. /\ k1[w].mine = NoRows /\ k1[w].at = "loop"
       /\ \A x \in Ticks \ {w} : k1[x] = tick[x]
  <2> DEFINE r == [q EXCEPT !.mine = NoRows]
  <2>1. r = [q EXCEPT !.mine = NoRows]
    OBVIOUS
  <2> HIDE DEF r
  <2>2. r = [at |-> q.at, env |-> q.env, instr |-> q.instr, bound |-> q.bound,
             task |-> q.task, deferred |-> q.deferred, ran |-> q.ran, mine |-> NoRows]
    BY <1>7, <2>1
  <2>3. r.mine = NoRows /\ r.at = "loop"
    BY <1>3, <2>2
  <2> QED
    BY <1>4, <2>3 DEF r
<1>11. /\ k2.at = "dispatched" /\ k2.task = t /\ k2.mine = m /\ k2.bound = q.bound /\ IsTick(k2)
  <2>1. k2 = [q EXCEPT !.at = "dispatched", !.task = t, !.mine = m]
    OBVIOUS
  <2> HIDE DEF k2
  <2>2. k2 = [at |-> "dispatched", env |-> q.env, instr |-> q.instr, bound |-> q.bound,
              task |-> t, deferred |-> q.deferred, ran |-> q.ran, mine |-> m]
    BY <1>7, <2>1
  <2> QED
    BY <2>2 DEF IsTick
<1> HIDE DEF k1, k2
<1>12. Right(vt, vj, k1)
  <2>1. k1[w].at \in SupMoments \ {"completed"} /\ ~AtHand(k1[w])
        /\ k1[w].at \notin {"idle", "eligible", "driving", "cancelled", "blind"}
    BY <1>10 DEF SupMoments, AtHand
  <2>2. DOMAIN k1[w].mine.task = {} /\ DOMAIN k1[w].mine.job = {}
        /\ DOMAIN k1[w].mine.lease = {}
        /\ DOMAIN k1[w].mine.lease \subseteq DOMAIN tick[w].mine.lease
    BY <1>10, IdleIs
  <2> HIDE DEF tt, jj
  <2> QED
    BY <1>4, <1>6, <1>10, <2>1, <2>2, Committed
<1>13. /\ t \in DOMAIN vt /\ vt \in Seq(SupTasks) /\ vj \in Seq(SupJobs)
       /\ DOMAIN tt \subseteq DOMAIN vt
  <2>1. BoundIn(tick[w], tt)
    BY DEF SupRight
  <2>2. vt \in Seq(SupTasks) /\ vj \in Seq(SupJobs) /\ DOMAIN tt \subseteq DOMAIN vt
    BY <1>5 DEF WriteRight, ViewRight
  <2> QED
    BY <1>1, <2>1, <2>2 DEF Selected, Actionable, Candidates, BoundTasks, BoundIn
<1>14. RowFree(k1, w, t)
  BY <1>2, <1>10 DEF LockedFor, RowFree
<1>15. Right(ct, nj, k1)
  <2>1. DOMAIN k1[w].mine.task = {} /\ DOMAIN k1[w].mine.job = {} /\ k1[w].at = "loop"
    BY <1>10, IdleIs
  <2> QED
    <3>1. vt[t].status = "ready"
      BY <1>1, <1>2
    <3>2. Right([vt EXCEPT ![t].status = "running"], Append(vj, QueuedJob(t)), k1)
      BY <1>4, <1>12, <1>13, <1>14, <2>1, <3>1, JobCreated
    <3> QED
      BY <3>2
<1>16. /\ DOMAIN ct = DOMAIN vt /\ t \in DOMAIN ct /\ ct[t].status = "running"
       /\ ct[t].job = vt[t].job /\ vt[t] \in SupTasks
  <2>1. vt[t] \in SupTasks
    BY <1>13
  <2> QED
    BY <1>13, <2>1 DEF SupTasks
<1>17. j \in DOMAIN nj /\ nj[j].status = "queued" /\ vt[t].job # j
  <2>1. Len(vj) \in Nat /\ DOMAIN vj = 1..Len(vj)
    BY <1>13
  <2>2. QueuedJob(t).status = "queued"
    BY DEF QueuedJob
  <2>3. vt[t].job # 0 => vt[t].job \in DOMAIN vj
    BY <1>12, <1>13 DEF Right, DbRight
  <2>4. j \in DOMAIN nj /\ nj[j] = QueuedJob(t)
    BY <1>13, <2>1
  <2> QED
    BY <2>1, <2>2, <2>3, <2>4
<1> HIDE DEF ct, nj, j
<1>18. Right(ct, nj, tick')
  <2> SUFFICES ASSUME NEW k3, k3[w] = k2, \A x \in Ticks \ {w} : k3[x] = k1[x]
               PROVE  Right(ct, nj, k3)
    <3>1. tick'[w] = k2 /\ \A x \in Ticks \ {w} : tick'[x] = k1[x]
      BY <1>4, <1>9, <1>10
    <3> QED
      BY <3>1
  <2>1. k3[w] = k2 /\ \A x \in Ticks \ {w} : k3[x] = k1[x]
    OBVIOUS
  <2>2. /\ row = [ct[t] EXCEPT !.job = j] /\ k3[w].mine.task = Row(t, row)
        /\ k3[w].mine.job = Empty /\ k3[w].mine.lease = Empty
    <3>1. row = [ct[t] EXCEPT !.job = j]
      BY DEF row
    <3>2. m.task = Row(t, row) /\ m.job = Empty /\ m.lease = Empty
      BY DEF m, NoRows
    <3> QED
      BY <1>11, <2>1, <3>1, <3>2
  <2>3. k3[w].at = "dispatched" /\ k3[w].task = t
    BY <1>11, <2>1
  <2> HIDE DEF tt, jj
  <2> QED
    <3>1. RowFree(k1, w, t) /\ Right(ct, nj, k1) /\ t \in DOMAIN ct
          /\ ct[t].status = "running" /\ j \in DOMAIN nj /\ ct[t].job # j
          /\ nj[j].status = "queued"
      BY <1>14, <1>15, <1>16, <1>17
    <3> QED
      BY <2>1, <2>2, <2>3, <3>1, PointerWritten
<1>19. OwnLease(k2)
  <2>1. m.lease = Empty /\ DOMAIN Empty = {}
    BY DEF m, NoRows, Empty
  <2> QED
    BY <1>11, <2>1 DEF OwnLease
<1>20. \A x \in Ticks : IsTick(tick'[x]) /\ OwnLease(tick'[x]) /\ BoundIn(tick'[x], ct)
  BY <1>4, <1>9, <1>11, <1>13, <1>16, <1>19 DEF SupRight, BoundIn, q
<1>21. db'.task = ct /\ db'.job = nj /\ db'.lease = vl /\ DOMAIN tick' = Ticks
  BY <1>4, <1>9
<1> QED
  BY <1>1, <1>3, <1>9, <1>18, <1>20, <1>21 DEF SupRight

\* A running task's tick takes the task in hand.
LEMMA HandTaken ==
  ASSUME NEW tt, NEW jj, NEW k, NEW w, NEW vt, NEW vj, NEW t,
         WriteRight(tt, jj, k, w, vt, vj, {}), t \in DOMAIN vt,
         vt[t].status = "running", vt[t].job # 0, NEW q, q.task = t
  PROVE  WriteRight(tt, jj, k, w, vt, vj, {t}) /\ HandRight(tt, jj, w, vt, vj, q)
<1>1. ViewRight(tt, jj, w, vt, vj, {})
  BY DEF WriteRight
<1>2. \A i \in DOMAIN tt : vt[i] # tt[i] => OwnTask(tt, jj, w, vt, vj, {t}, i)
  <2> TAKE i \in DOMAIN tt
  <2>1. OwnTask(tt, jj, w, vt, vj, {}, i) => OwnTask(tt, jj, w, vt, vj, {t}, i)
    BY DEF OwnTask
  <2> QED
    BY <1>1, <2>1 DEF ViewRight
<1>3. ViewRight(tt, jj, w, vt, vj, {t})
  BY <1>1, <1>2 DEF ViewRight
<1>4. WriteRight(tt, jj, k, w, vt, vj, {t})
  BY <1>3 DEF WriteRight
<1>5. t \in DOMAIN tt
  BY <1>1 DEF ViewRight, NewChild
<1>6. tt[t].status = "running"
  BY <1>1, <1>5 DEF ViewRight, OwnTask
<1> QED
  BY <1>4, <1>5, <1>6 DEF HandRight, Settled, SupTerminal

\* A running task is resumed.
LEMMA ResumeKeeps ==
  ASSUME SupRight, NEW w \in Ticks, ResumeChosen(w)
  PROVE  SupRight'
<1> DEFINE r == tick[w]
           vt == TasksOf(r, db.task)
           vj == JobsOf(r, db.job)
           vl == View(w).lease
<1>1. supGoal' \in SupGoals /\ r.at = "loop"
  BY DEF ResumeChosen, SupRight
<1>2. View(w) = [task |-> vt, job |-> vj, lease |-> vl] /\ View(w).task = vt
      /\ DOMAIN vl = {1} /\ vl[1] \in SupLeases
  BY ViewIs
<1>3. PICK t \in Selected(w, View(w)) :
        /\ View(w).task[t].status = "running"
        /\ IF View(w).task[t].job = 0 THEN Raises(w)
           ELSE Goes(w, [tick[w] EXCEPT !.at = "dispatched", !.task = t], View(w))
  BY DEF ResumeChosen
<1>4. CASE Raises(w)
  BY <1>1, <1>4, RaisesKeeps
<1>5. CASE ~Raises(w)
  <2> DEFINE q == [r EXCEPT !.at = "dispatched", !.task = t]
  <2>1. vt[t].status = "running" /\ vt[t].job # 0
        /\ Goes(w, q, [task |-> vt, job |-> vj, lease |-> vl])
    BY <1>2, <1>3, <1>5
  <2>2. WriteRight(db.task, db.job, tick, w, vt, vj, {}) /\ IsTick(r) /\ BoundIn(r, db.task)
    BY <1>1, ViewWrites DEF HandOf, SupRight
  <2>3. \A x \in Ticks \ {w} :
          DOMAIN Changed(vl, db.lease) \cap DOMAIN tick[x].mine.lease = {}
    BY ViewIs DEF SupRight, Right, Apart
  <2>4. /\ IsTick(q) /\ q.mine = r.mine /\ q.at = "dispatched" /\ q.task = t
        /\ q.bound = r.bound
    <3>1. r = [at |-> r.at, env |-> r.env, instr |-> r.instr, bound |-> r.bound,
               task |-> r.task, deferred |-> r.deferred, ran |-> r.ran, mine |-> r.mine]
      BY <2>2 DEF IsTick
    <3>2. q = [r EXCEPT !.at = "dispatched", !.task = t]
      OBVIOUS
    <3> HIDE DEF r, q
    <3>3. q = [at |-> "dispatched", env |-> r.env, instr |-> r.instr, bound |-> r.bound,
               task |-> t, deferred |-> r.deferred, ran |-> r.ran, mine |-> r.mine]
      BY <3>1, <3>2
    <3> QED
      BY <3>3 DEF IsTick
  <2>5. t \in DOMAIN vt
    <3>1. DOMAIN db.task \subseteq DOMAIN vt
      BY <2>2 DEF WriteRight, ViewRight
    <3> QED
      BY <1>2, <2>2, <3>1 DEF Selected, Actionable, Candidates, BoundTasks, BoundIn
  <2> HIDE DEF q, vt, vj, vl
  <2>6. WriteRight(db.task, db.job, tick, w, vt, vj, {t})
        /\ HandRight(db.task, db.job, w, vt, vj, q)
    BY <2>1, <2>2, <2>4, <2>5, HandTaken
  <2>7. /\ WriteRight(db.task, db.job, tick, w, vt, vj, HandOf(q))
        /\ q.at \in {"loop", "dispatched"} /\ q.mine = tick[w].mine
        /\ BoundIn(q, db.task)
    BY <2>2, <2>4, <2>6 DEF HandOf, BoundIn
  <2>8. Right(db.task, db.job, tick)
    BY DEF SupRight
  <2>9. GoRight(db.task, db.job, db.lease, tick, tick, w, q, vt, vj, vl)
    BY <1>2, <2>3, <2>4, <2>6, <2>7, <2>8 DEF GoRight
  <2> QED
    BY <1>1, <2>1, <2>9, GoesKeeps
<1> QED
  BY <1>4, <1>5

\* The tick claims the job of the task it has in hand.
LEMMA HandClaims ==
  ASSUME NEW tt, NEW jj, NEW k, NEW w \in Ticks, NEW vt, NEW vj, NEW t, NEW q, NEW p, NEW pj,
         DbRight(tt, jj), WriteRight(tt, jj, k, w, vt, vj, {t}), q.task = t, p.task = t,
         HandRight(tt, jj, w, vt, vj, q), ClaimWrite(k, w, vj, vt[t].job, pj)
  PROVE  WriteRight(tt, jj, k, w, vt, pj, {}) /\ HandRight(tt, jj, w, vt, pj, p)
<1> DEFINE j == vt[t].job
<1>1. ClaimWrite(k, w, vj, j, pj)
  OBVIOUS
<1> USE <1>1 DEF ClaimWrite
<1>2. ViewRight(tt, jj, w, vt, vj, {t})
  BY DEF WriteRight
<1>3. t \in DOMAIN tt /\ j # 0 /\ (vt[t] # tt[t] => vt[t].status = "running")
  BY DEF HandRight
<1>4. DOMAIN vj = DOMAIN jj /\ j \in DOMAIN jj
  BY <1>2, <1>3 DEF ViewRight, OwnTask, DbRight
<1>5. OwnJob(w, jj[j], pj[j])
  <2>1. ~Settled(vj[j])
    BY DEF Settled, SupTerminal, Holds
  <2>2. vj[j] # jj[j] => OwnJob(w, jj[j], vj[j])
    BY <1>2, <1>4 DEF ViewRight
  <2> QED
    BY <2>1, <2>2 DEF OwnJob, Holds
<1>6. \A i \in DOMAIN jj : pj[i] # jj[i] => OwnJob(w, jj[i], pj[i]) /\ JobFree(k, w, i)
  <2> SUFFICES ASSUME NEW i \in DOMAIN jj, pj[i] # jj[i]
               PROVE  OwnJob(w, jj[i], pj[i]) /\ JobFree(k, w, i)
    OBVIOUS
  <2>1. CASE i = j
    BY <2>1, <1>5
  <2>2. CASE i # j
    <3>1. pj[i] = vj[i]
      BY <2>2, <1>4
    <3> QED
      BY <3>1, <1>2 DEF WriteRight, ViewRight
  <2> QED
    BY <2>1, <2>2
<1>7. pj[j].status = "running" /\ pj[j].by = w /\ ~Settled(vj[j])
  BY DEF Settled, SupTerminal, Holds
<1>8. \A i \in DOMAIN tt : vt[i] # tt[i] => OwnTask(tt, jj, w, vt, pj, {}, i)
  <2> SUFFICES ASSUME NEW i \in DOMAIN tt, vt[i] # tt[i]
               PROVE  OwnTask(tt, jj, w, vt, pj, {}, i)
    OBVIOUS
  <2>1. OwnTask(tt, jj, w, vt, vj, {t}, i)
    BY <1>2 DEF ViewRight
  <2>2. vt[i].job # 0 => vt[i].job \in DOMAIN jj
    BY <2>1 DEF OwnTask
  <2>3. LetGo(vt[i], vj) => LetGo(vt[i], pj)
    BY <1>4, <1>7, <2>2 DEF LetGo
  <2>4. vt[i].job # 0 =>
          /\ pj[vt[i].job].status # "queued"
          /\ vj[vt[i].job].by = w \/ i = t => pj[vt[i].job].by = w
    <3>1. vt[i].job = j => pj[vt[i].job].status = "running" /\ pj[vt[i].job].by = w
      BY <1>7
    <3>2. vt[i].job # j /\ vt[i].job # 0 => pj[vt[i].job] = vj[vt[i].job] /\ i # t
      BY <2>2, <1>4
    <3>3. i # t /\ vt[i].job # 0 => vj[vt[i].job].status # "queued"
      BY <2>1 DEF OwnTask
    <3> QED
      BY <3>1, <3>2, <3>3
  <2> QED
    BY <2>1, <2>3, <2>4 DEF OwnTask
<1>9. ViewRight(tt, jj, w, vt, pj, {})
  BY <1>2, <1>6, <1>8 DEF ViewRight
<1>10. WriteRight(tt, jj, k, w, vt, pj, {})
  BY <1>6, <1>9 DEF WriteRight
<1>11. CASE Holds(w, vj[j])
  BY <1>3, <1>10, <1>11 DEF HandRight
<1>12. CASE vj[j].status = "queued"
  <2>1. jj[j].status = "queued"
    BY <1>2, <1>4, <1>12 DEF ViewRight, OwnJob
  <2>2. vt[t] # tt[t]
    BY <1>3, <2>1 DEF DbRight
  <2>3. tt[t].status = "running"
    BY <1>2, <1>3, <2>2 DEF ViewRight, OwnTask
  <2> QED
    BY <1>3, <1>10, <2>3 DEF HandRight, Settled, SupTerminal
<1> QED
  BY <1>11, <1>12

\* prepare_context claims the job, renews the lease and starts the drive.
LEMMA PrepareKeeps ==
  ASSUME SupRight, NEW w \in Ticks, Prepare(w)
  PROVE  SupRight'
<1> DEFINE r == tick[w]
           tt == db.task
           jj == db.job
           vt == TasksOf(r, tt)
           vj == JobsOf(r, jj)
           vl == View(w).lease
           t == r.task
           j == vt[t].job
           n == Len(vt)
           row == [vj[j] EXCEPT !.status = "running", !.by = w, !.lapsed = FALSE, !.chosen = n]
           pj == [vj EXCEPT ![j] = row]
           rl == [vl EXCEPT ![1] = Lease(w)]
           c == [Claimed(w, Renewed(w, View(w))) EXCEPT !.job[Job(w, View(w))].chosen = Len(View(w).task)]
           m == [Written(c) EXCEPT !.lease = RenewalLock(w)]
           q == [r EXCEPT !.at = "driving", !.mine = m]
<1>1. supGoal' \in SupGoals /\ r.at = "dispatched"
      /\ ~LockedFor(w, "lease", 1) /\ ~LockedFor(w, "job", Job(w, View(w)))
  BY DEF Prepare, SupRight
<1>2. View(w) = [task |-> vt, job |-> vj, lease |-> vl] /\ View(w).task = vt
      /\ View(w).job = vj
  BY ViewIs
<1>3. CASE Raises(w)
  BY <1>1, <1>3, RaisesKeeps
<1>4. CASE ~Raises(w)
  <2>1. /\ tick' = [tick EXCEPT ![w] = q] /\ db' = db /\ Claims(w, View(w))
    BY <1>4 DEF Prepare
  <2>2. Job(w, View(w)) = j
    BY <1>2 DEF Job
  <2>3. vj[j].status = "queued" \/ Holds(w, vj[j])
    BY <1>2, <2>1, <2>2 DEF Claims
  <2>4. /\ Right(tt, jj, tick) /\ DbRight(tt, jj) /\ IsTick(r) /\ BoundIn(r, tt)
        /\ WriteRight(tt, jj, tick, w, vt, vj, {t})
        /\ HandRight(tt, jj, w, vt, vj, r)
    <3>1. Right(tt, jj, tick) /\ IsTick(r) /\ BoundIn(r, tt)
      BY DEF SupRight
    <3>2. TickRight(tt, jj, w, r) /\ DbRight(tt, jj)
      BY <3>1 DEF Right
    <3>3. HandRight(tt, jj, w, vt, vj, r)
      BY <1>1, <3>2 DEF TickRight, AtHand
    <3> QED
      BY <1>1, <3>1, <3>2, <3>3, ViewWrites DEF HandOf
  <2>5. /\ vt \in Seq(SupTasks) /\ vj \in Seq(SupJobs) /\ DOMAIN vj = DOMAIN jj
        /\ t \in DOMAIN tt /\ t \in DOMAIN vt /\ j # 0 /\ n \in Nat
    BY <2>4 DEF WriteRight, ViewRight, HandRight
  <2>6. j \in DOMAIN jj
    BY <2>4, <2>5 DEF WriteRight, ViewRight, OwnTask, DbRight
  <2>7. vj[j] \in SupJobs
    BY <2>5, <2>6
  <2>8. /\ row \in SupJobs /\ Holds(w, row) /\ row.task = vj[j].task /\ row.blind = vj[j].blind
    <3>1. row = [vj[j] EXCEPT !.status = "running", !.by = w, !.lapsed = FALSE, !.chosen = n]
      OBVIOUS
    <3> HIDE DEF row, vj, n
    <3> QED
      BY <2>5, <2>7, <3>1 DEF SupJobs, SupJobStatuses, Holds
  <2>9. c = [task |-> vt, job |-> pj, lease |-> rl]
    <3>1. Renewed(w, View(w)) = [task |-> vt, job |-> vj, lease |-> rl]
      BY <1>2 DEF Renewed
    <3>2. Job(w, Renewed(w, View(w))) = j
      BY <3>1 DEF Job
    <3> DEFINE cr == [vj[j] EXCEPT !.status = "running", !.by = w, !.lapsed = FALSE]
               cj == [vj EXCEPT ![j] = cr]
    <3>3. Claimed(w, Renewed(w, View(w))) = [task |-> vt, job |-> cj, lease |-> rl]
      <4> HIDE DEF vt, vj, rl
      <4>1. Claimed(w, [task |-> vt, job |-> vj, lease |-> rl]) =
              [[task |-> vt, job |-> vj, lease |-> rl] EXCEPT !.job[j].status = "running",
                 !.job[j].by = w, !.job[j].lapsed = FALSE]
        BY <3>1, <3>2 DEF Claimed
      <4>2. [[task |-> vt, job |-> vj, lease |-> rl] EXCEPT !.job[j].status = "running",
                 !.job[j].by = w, !.job[j].lapsed = FALSE] = [task |-> vt, job |-> cj, lease |-> rl]
        <5> DEFINE s == [[[vj EXCEPT ![j].status = "running"] EXCEPT ![j].by = w]
                          EXCEPT ![j].lapsed = FALSE]
        <5>1. [[task |-> vt, job |-> vj, lease |-> rl] EXCEPT !.job[j].status = "running",
                 !.job[j].by = w, !.job[j].lapsed = FALSE]
                = [[task |-> vt, job |-> vj, lease |-> rl] EXCEPT !.job = s]
          OBVIOUS
        <5>2. s = cj
          BY <2>5, <2>6
        <5> HIDE DEF s, cj
        <5>3. [[task |-> vt, job |-> vj, lease |-> rl] EXCEPT !.job = s]
                = [task |-> vt, job |-> s, lease |-> rl]
          OBVIOUS
        <5> QED
          BY <5>1, <5>2, <5>3
      <4> QED
        BY <3>1, <4>1, <4>2
    <3>4. c = [[task |-> vt, job |-> cj, lease |-> rl] EXCEPT !.job[j].chosen = n]
      BY <1>2, <2>2, <3>3
    <3> HIDE DEF vt, vj, rl, c, n
    <3>5. [cj EXCEPT ![j].chosen = n] = pj
      BY <2>5, <2>6
    <3> HIDE DEF cj, pj
    <3>6. [[task |-> vt, job |-> cj, lease |-> rl] EXCEPT !.job[j].chosen = n]
            = [task |-> vt, job |-> [cj EXCEPT ![j].chosen = n], lease |-> rl]
      OBVIOUS
    <3> QED
      BY <3>4, <3>5, <3>6
  <2>10. m = [task |-> Changed(vt, tt), job |-> Changed(pj, jj), lease |-> Row(1, Lease(w))]
    <3>1. Written(c) = [task |-> Changed(vt, tt), job |-> Changed(pj, jj),
                        lease |-> Changed(rl, db.lease)]
      BY <2>9 DEF Written
    <3> QED
      BY <3>1 DEF RenewalLock
  <2>11. /\ m.task = Changed(vt, tt) /\ m.job = Changed(pj, jj)
         /\ m.lease = Row(1, Lease(w))
    BY <2>10
  <2>12. DOMAIN m.lease = {1} /\ m.lease[1] \in SupLeases
    <3>1. DOMAIN Row(1, Lease(w)) = {1} /\ Row(1, Lease(w))[1] = Lease(w)
      BY DEF Row
    <3>2. Lease(w) \in SupLeases
      BY DEF Lease, SupLeases
    <3> QED
      BY <2>11, <3>1, <3>2
  <2>13. IsTick(q) /\ q.at = "driving" /\ q.mine = m /\ q.task = t /\ q.bound = r.bound
    <3>1. r = [at |-> r.at, env |-> r.env, instr |-> r.instr, bound |-> r.bound,
               task |-> r.task, deferred |-> r.deferred, ran |-> r.ran, mine |-> r.mine]
      BY <2>4 DEF IsTick
    <3>2. q = [r EXCEPT !.at = "driving", !.mine = m]
      OBVIOUS
    <3> HIDE DEF r, q, m
    <3>3. q = [at |-> "driving", env |-> r.env, instr |-> r.instr, bound |-> r.bound,
               task |-> r.task, deferred |-> r.deferred, ran |-> r.ran, mine |-> m]
      BY <3>1, <3>2
    <3> QED
      BY <3>3 DEF IsTick, t
  <2> HIDE DEF row, vt, vj, m, q, c
  <2>14. /\ pj \in Seq(SupJobs) /\ DOMAIN pj = DOMAIN vj /\ pj[j] = row
         /\ \A i \in DOMAIN vj : i # j => pj[i] = vj[i]
    BY <2>5, <2>6, <2>8
  <2> HIDE DEF pj
  <2>15. JobFree(tick, w, j)
    BY <1>1, <2>2 DEF LockedFor, JobFree
  <2>16. WriteRight(tt, jj, tick, w, vt, pj, {}) /\ HandRight(tt, jj, w, vt, pj, q)
    <3>1. Holds(w, pj[j]) /\ pj[j].task = vj[j].task /\ pj[j].blind = vj[j].blind
      BY <2>8, <2>14
    <3>2. ClaimWrite(tick, w, vj, j, pj)
      BY <2>3, <2>14, <2>15, <3>1 DEF ClaimWrite
    <3>3. r.task = t /\ q.task = t
      BY <2>13
    <3> QED
      BY <2>4, <3>2, <3>3, HandClaims
  <2>17. OwnLease(q) /\ BoundIn(q, tt)
    BY <2>4, <2>12, <2>13 DEF OwnLease, BoundIn
  <2>18. \A x \in Ticks \ {w} : DOMAIN q.mine.lease \cap DOMAIN tick[x].mine.lease = {}
    BY <1>1, <2>12, <2>13 DEF LockedFor
  <2>19. /\ WriteRight(db.task, db.job, tick, w, vt, pj, HandOf(q))
         /\ q.mine.task = Changed(vt, db.task) /\ q.mine.job = Changed(pj, db.job)
         /\ q.at \in {"loop", "dispatched", "driving"} /\ 1 \in DOMAIN q.mine.lease
    BY <2>11, <2>12, <2>13, <2>16 DEF HandOf
  <2>20. TickStepRight(db.task, db.job, tick, tick, w, vt, pj, q)
    BY <2>4, <2>13, <2>16, <2>17, <2>18, <2>19 DEF TickStepRight
  <2> QED
    BY <1>1, <2>1, <2>20, TickSteps
<1> QED
  BY <1>3, <1>4

-----------------------------------------------------------------------------
(* The end of a drive (mark_completed, mark_cancelled)                     *)

\* mark_completed and mark_cancelled commit what the tick has written.
LEMMA DriveCommits ==
  ASSUME NEW tt, NEW jj, NEW k, NEW w \in Ticks, NoWorker \notin Ticks, Right(tt, jj, k),
         k[w].at = "driving", NEW vt, NEW vj, WriteRight(tt, jj, k, w, vt, vj, {}),
         HandRight(tt, jj, w, vt, vj, k[w]), NEW k2,
         \A x \in Ticks \ {w} : k2[x] = k[x], k2[w].at = "driving",
         k2[w].task = k[w].task, DOMAIN k2[w].mine.task = {},
         DOMAIN k2[w].mine.job = {}, DOMAIN k2[w].mine.lease = DOMAIN k[w].mine.lease
  PROVE  Right(vt, vj, k2)
<1> DEFINE t == k[w].task
<1>1. CommitRight(tt, jj, k, w, vt, vj) /\ ViewRight(tt, jj, w, vt, vj, {}) /\ DbRight(tt, jj)
  BY WriteCommits DEF WriteRight, Right
<1>2. TablesMove(tt, jj, vt, vj)
  BY <1>1, CommitMoves
<1>3. t \in DOMAIN tt /\ vt[t].job # 0 /\ (vt[t] # tt[t] => vt[t].status = "running")
  BY DEF HandRight
<1>4. HandRight(vt, vj, w, vt, vj, k2[w])
  <2>1. t \in DOMAIN vt
    BY <1>1, <1>3 DEF ViewRight
  <2>2. Holds(w, vj[vt[t].job]) /\ NoBlind(vt, vj, t) => vt[t].status = "running"
    BY <1>2, <1>3, NoBlindBack DEF HandRight
  <2>3. Holds(w, vj[vt[t].job]) /\ Blindless(vj, t) => ~Settled(vt[t])
    BY <1>2, <1>3, BlindlessBack DEF HandRight, Settled, SupTerminal
  <2> QED
    BY <1>3, <2>1, <2>2, <2>3 DEF HandRight
<1>5. 1 \in DOMAIN k2[w].mine.lease
  BY DEF Right, TickRight
<1>6. k2[w].at \in SupMoments \ {"completed"}
      /\ k2[w].at \notin {"idle", "eligible", "cancelled", "blind"}
      /\ DOMAIN k2[w].mine.lease \subseteq DOMAIN k[w].mine.lease
  BY DEF SupMoments
<1> QED
  BY <1>1, <1>4, <1>5, <1>6, Committed

\* The job, the task and the goal end together (record_final_report).
LEMMA FinishKeeps ==
  ASSUME SupRight, NEW w \in Ticks, tick[w].at = "driving",
         NEW st \in SupTerminal, NEW js \in SupTerminal,
         NEW at \in {"completed", "cancelled"},
         Unlocked(w, View(w)), Holds(w, View(w).job[Job(w, View(w))]),
         db' = [View(w) EXCEPT !.task[tick[w].task].status = st,
                               !.job[Job(w, View(w))].status = js],
         tick' = [tick EXCEPT ![w] = [[tick[w] EXCEPT !.at = at] EXCEPT !.mine = NoRows]],
         supGoal' \in SupGoals
  PROVE  SupRight'
<1> DEFINE q == tick[w]
           tt == db.task
           jj == db.job
           vt == TasksOf(q, tt)
           vj == JobsOf(q, jj)
           vl == View(w).lease
           t == q.task
           j == vt[t].job
           v == [task |-> vt, job |-> vj, lease |-> vl]
           ct == [vt EXCEPT ![t].status = st]
           cj == [vj EXCEPT ![j].status = js]
           m == [NoRows EXCEPT !.lease = q.mine.lease]
           k1 == [tick EXCEPT ![w] = [q EXCEPT !.mine = m]]
           k2 == [[q EXCEPT !.at = at] EXCEPT !.mine = NoRows]
<1>1. View(w) = v /\ View(w).task = vt /\ View(w).job = vj
      /\ DOMAIN vl = {1} /\ vl[1] \in SupLeases
  BY ViewIs
<1>2. Job(w, View(w)) = j
  BY <1>1 DEF Job
<1>3. Right(tt, jj, tick) /\ WriteRight(tt, jj, tick, w, vt, vj, {})
      /\ HandRight(tt, jj, w, vt, vj, q)
  BY DrivingHas
<1>4. NoWorker \notin Ticks /\ DOMAIN tick = Ticks /\ IsTick(q) /\ BoundIn(q, tt)
  BY SupervisorBounds DEF SupRight
<1>5. db' = [task |-> ct, job |-> cj, lease |-> vl]
  <2>1. db' = [v EXCEPT !.task = ct, !.job = cj]
    BY <1>1, <1>2
  <2> HIDE DEF ct, cj, vl, vt, vj
  <2> QED
    BY <2>1
<1>6. q = [at |-> q.at, env |-> q.env, instr |-> q.instr, bound |-> q.bound,
           task |-> q.task, deferred |-> q.deferred, ran |-> q.ran, mine |-> q.mine]
  BY <1>4 DEF IsTick
<1>7. DOMAIN m.task = {} /\ DOMAIN m.job = {} /\ m.lease = q.mine.lease
  BY IdleIs DEF NoRows
<1>8. Holds(w, vj[j]) /\ RowFree(tick, w, t) /\ JobFree(tick, w, j)
  BY <1>1, <1>2, UnlockedIs
<1> HIDE DEF q, m, vt, vj, vl, v
<1>9. /\ k1[w].mine = m /\ k1[w].at = "driving" /\ k1[w].task = t
      /\ \A x \in Ticks \ {w} : k1[x] = tick[x]
  <2> DEFINE r == [q EXCEPT !.mine = m]
  <2>1. r = [q EXCEPT !.mine = m]
    OBVIOUS
  <2> HIDE DEF r
  <2>2. r = [at |-> q.at, env |-> q.env, instr |-> q.instr, bound |-> q.bound,
             task |-> q.task, deferred |-> q.deferred, ran |-> q.ran, mine |-> m]
    BY <1>6, <2>1
  <2>3. r.mine = m /\ r.at = "driving" /\ r.task = t
    BY <2>2 DEF q
  <2> QED
    BY <1>4, <2>3 DEF r
<1>10. k2.mine = NoRows /\ k2.at = at /\ k2.task = t /\ k2.bound = q.bound /\ IsTick(k2)
  <2>1. k2 = [[q EXCEPT !.at = at] EXCEPT !.mine = NoRows]
    OBVIOUS
  <2> HIDE DEF k2
  <2>2. k2 = [at |-> at, env |-> q.env, instr |-> q.instr, bound |-> q.bound,
              task |-> q.task, deferred |-> q.deferred, ran |-> q.ran, mine |-> NoRows]
    BY <1>6, <2>1
  <2> QED
    BY <2>2 DEF IsTick
<1>11. tick' = [tick EXCEPT ![w] = k2]
  BY DEF q
<1> HIDE DEF k1, k2
<1>12. Right(vt, vj, k1)
  <2>1. /\ tick[w].at = "driving" /\ k1[w].task = tick[w].task
        /\ DOMAIN k1[w].mine.task = {} /\ DOMAIN k1[w].mine.job = {}
        /\ DOMAIN k1[w].mine.lease = DOMAIN tick[w].mine.lease
        /\ HandRight(tt, jj, w, vt, vj, tick[w])
    BY <1>3, <1>7, <1>9 DEF q
  <2> HIDE DEF tt, jj
  <2> QED
    BY <1>3, <1>4, <1>9, <2>1, DriveCommits
<1>13. Right(ct, cj, tick')
  <2> SUFFICES ASSUME NEW k3, k3[w] = k2, \A x \in Ticks \ {w} : k3[x] = k1[x]
               PROVE  Right(ct, cj, k3)
    <3>1. tick'[w] = k2 /\ \A x \in Ticks \ {w} : tick'[x] = k1[x]
      BY <1>4, <1>9, <1>11
    <3> QED
      BY <3>1
  <2>1. /\ DOMAIN k3[w].mine.task = {} /\ DOMAIN k3[w].mine.job = {}
        /\ DOMAIN k3[w].mine.lease = {} /\ k3[w].at \in {"completed", "cancelled"}
        /\ k3[w].task = k1[w].task
    BY <1>9, <1>10, IdleIs
  <2>2. /\ k1[w].at = "driving" /\ k1[w].task = t
        /\ DOMAIN k1[w].mine.task = {} /\ DOMAIN k1[w].mine.job = {}
        /\ RowFree(k1, w, t) /\ JobFree(k1, w, j) /\ Holds(w, vj[j])
    BY <1>7, <1>8, <1>9 DEF RowFree, JobFree
  <2>3. Right([vt EXCEPT ![k1[w].task].status = st],
              [vj EXCEPT ![vt[k1[w].task].job].status = js], k3)
    <3>1. RowFree(k1, w, k1[w].task) /\ JobFree(k1, w, vt[k1[w].task].job)
          /\ Holds(w, vj[vt[k1[w].task].job])
      BY <2>2
    <3> QED
      BY <1>4, <1>12, <2>1, <2>2, <3>1, Ended
  <2> QED
    BY <2>2, <2>3
<1>14. OwnLease(k2)
  BY <1>10, IdleIs DEF OwnLease
<1>15. \A x \in Ticks : IsTick(tick'[x]) /\ OwnLease(tick'[x]) /\ BoundIn(tick'[x], ct)
  <2>1. DOMAIN tt \subseteq DOMAIN ct
    <3>1. DOMAIN tt \subseteq DOMAIN vt
      BY <1>3 DEF WriteRight, ViewRight
    <3> QED
      BY <3>1
  <2> HIDE DEF ct
  <2> QED
    BY <1>4, <1>10, <1>11, <1>14, <2>1 DEF SupRight, BoundIn
<1> HIDE DEF ct, cj
<1>16. db'.task = ct /\ db'.job = cj /\ db'.lease = vl
  <2>1. \A d : d = [task |-> ct, job |-> cj, lease |-> vl] =>
          d.task = ct /\ d.job = cj /\ d.lease = vl
    OBVIOUS
  <2> HIDE DEF tt, jj
  <2> QED
    BY <1>5, <2>1
<1>17. DOMAIN tick' = Ticks
  BY <1>4, <1>11
<1> QED
  BY <1>1, <1>5, <1>13, <1>15, <1>16, <1>17 DEF SupRight

\* The rolled-up goal has a status of its kind.
LEMMA RolledUpGoal ==
  ASSUME supGoal \in SupGoals, NEW v
  PROVE  RolledUp(v) \in SupGoals
<1> DEFINE o == OutcomeOf({v.task[i].status : i \in DOMAIN v.task})
<1>1. o \in {"completed", "failed"}
  BY DEF OutcomeOf
<1>2. RolledUp(v) = supGoal \/ RolledUp(v) = [supGoal EXCEPT !.status = o]
  BY DEF RolledUp
<1> HIDE DEF o
<1> QED
  BY <1>1, <1>2 DEF SupGoals

\* mark_completed passes its fence or raises.
LEMMA CompletesKeeps ==
  ASSUME SupRight, NEW w \in Ticks, DriverCompletes(w)
  PROVE  SupRight'
<1> DEFINE v == View(w)
           t == tick[w].task
           j == Job(w, v)
           st == IF v.task[t].status = "cancelled" THEN v.task[t].status
                 ELSE IF v.job[j].cancel THEN "cancelled" ELSE "completed"
           done == [v EXCEPT !.task[t].status =
                      IF @ = "cancelled" THEN @
                      ELSE IF v.job[j].cancel THEN "cancelled" ELSE "completed",
                      !.job[j].status = "completed"]
<1>1. tick[w].at = "driving" /\ Unlocked(w, v)
  BY DEF DriverCompletes
<1>2. CASE Raises(w) /\ supGoal' = supGoal
  BY <1>2, RaisesKeeps DEF SupRight
<1>3. CASE FencePasses(w, v.job[j]) /\ Commits(w, [tick[w] EXCEPT !.at = "completed"], done)
           /\ supGoal' = RolledUp(done)
  <2>1. supGoal' \in SupGoals
    BY <1>3, RolledUpGoal DEF SupRight
  <2>2. Holds(w, v.job[j])
    BY <1>3 DEF FencePasses
  <2>3. done = [v EXCEPT !.task[t].status = st, !.job[j].status = "completed"]
    BY ViewIs
  <2>4. st \in SupTerminal /\ "completed" \in SupTerminal
    BY DEF SupTerminal
  <2>5. /\ db' = [View(w) EXCEPT !.task[tick[w].task].status = st,
                                 !.job[Job(w, View(w))].status = "completed"]
        /\ tick' = [tick EXCEPT ![w] = [[tick[w] EXCEPT !.at = "completed"] EXCEPT !.mine = NoRows]]
    BY <1>3, <2>3 DEF Commits
  <2> HIDE DEF st
  <2> QED
    BY <1>1, <2>1, <2>2, <2>4, <2>5, FinishKeeps
<1> QED
  BY <1>2, <1>3 DEF DriverCompletes

\* mark_cancelled ends the job a founder has cancelled.
LEMMA CancelsKeeps ==
  ASSUME SupRight, NEW w \in Ticks, DriverCancels(w)
  PROVE  SupRight'
<1> DEFINE v == View(w)
           t == tick[w].task
           j == Job(w, v)
           done == [v EXCEPT !.task[t].status = "cancelled", !.job[j].status = "cancelled"]
<1>1. /\ tick[w].at = "driving" /\ Unlocked(w, v) /\ Holds(w, v.job[j])
      /\ Commits(w, [tick[w] EXCEPT !.at = "cancelled"], done)
      /\ supGoal' = RolledUp(done)
  BY DEF DriverCancels
<1>2. supGoal' \in SupGoals
  BY <1>1, RolledUpGoal DEF SupRight
<1>3. /\ db' = [View(w) EXCEPT !.task[tick[w].task].status = "cancelled",
                               !.job[Job(w, View(w))].status = "cancelled"]
      /\ tick' = [tick EXCEPT ![w] = [[tick[w] EXCEPT !.at = "cancelled"] EXCEPT !.mine = NoRows]]
  BY <1>1 DEF Commits
<1>4. "cancelled" \in SupTerminal
  BY DEF SupTerminal
<1> QED
  BY <1>1, <1>2, <1>3, <1>4, FinishKeeps

-----------------------------------------------------------------------------
(* The repaired source (resume_source_after_repair)                        *)

\* Nothing written, nothing read over.
LEMMA OverNone ==
  ASSUME NEW S, NEW all \in Seq(S), NEW own, DOMAIN own = {}
  PROVE  Over(own, all) = all
<1>1. Over(own, all) = [i \in DOMAIN all |-> all[i]]
  BY DEF Over
<1> QED
  BY <1>1

\* A parked source whose only repair has just been completed is made ready.
LEMMA SourceResumed ==
  ASSUME NEW tt, NEW jj, NEW k, NEW w \in Ticks, Right(tt, jj, k), NEW s \in DOMAIN tt,
         ~Settled(tt[s]), RowFree(k, w, s), NEW row,
         row = [tt[s] EXCEPT !.status = "ready", !.why = "none"],
         NoBlind(tt, jj, s) => NoRepair(tt, k, s) /\ Parked(tt[s])
  PROVE  WriteRight(tt, jj, k, w, [tt EXCEPT ![s] = row], jj, {})
<1> DEFINE pt == [tt EXCEPT ![s] = row]
<1>1. DbRight(tt, jj) /\ tt \in Seq(SupTasks) /\ jj \in Seq(SupJobs)
  BY DEF Right, DbRight
<1>2. tt[s] \in SupTasks
  BY <1>1
<1>3. /\ row \in SupTasks /\ row.status = "ready" /\ SameLineage(tt[s], row)
      /\ row.job = tt[s].job
  BY <1>2 DEF SupTasks, SupTaskStatuses, SameLineage
<1>4. /\ pt \in Seq(SupTasks) /\ DOMAIN pt = DOMAIN tt /\ pt[s] = row
      /\ \A i \in DOMAIN tt : i # s => pt[i] = tt[i]
  BY <1>1, <1>3
<1> HIDE DEF pt
<1>5. OwnTask(tt, jj, w, pt, jj, {}, s)
  <2>1. tt[s].job # 0 => tt[s].job \in DOMAIN jj /\ jj[tt[s].job].status # "queued"
    BY <1>1 DEF DbRight
  <2>2. NoBlind(tt, jj, s) => tt[s].status = "blocked"
    BY DEF Parked
  <2> QED
    BY <1>3, <1>4, <2>1, <2>2 DEF OwnTask, LetGo, Settled, SupTerminal
<1>6. ViewRight(tt, jj, w, pt, jj, {})
  BY <1>1, <1>4, <1>5 DEF ViewRight
<1>7. WriteRight(tt, jj, k, w, pt, jj, {})
  BY <1>4, <1>6 DEF WriteRight, InsertsAlone
<1> QED
  BY <1>7 DEF pt

\* The reassessment of the source after its repair.
LEMMA ReassessKeeps ==
  ASSUME SupRight, NEW w \in Ticks, Reassess(w)
  PROVE  SupRight'
<1> DEFINE q == tick[w]
           tt == db.task
           jj == db.job
           v == View(w)
           vl == v.lease
           t == q.task
           s == v.task[t].parent
           resumes == Resumed(v, t) # v
           n == q.ran + 1
           b == IF resumes THEN q.bound \cup {s} ELSE q.bound
           d == IF resumes THEN q.deferred \ {s} ELSE q.deferred
           k1 == [tick EXCEPT ![w] = [q EXCEPT !.at = "loop"]]
           p == [q EXCEPT !.at = "loop", !.ran = n, !.bound = b, !.deferred = d]
<1>1. q.at = "completed" /\ supGoal' \in SupGoals /\ (s # 0 => ~LockedFor(w, "task", s))
  BY DEF Reassess, SupRight
<1>2. Right(tt, jj, tick) /\ NoWorker \notin Ticks /\ DOMAIN tick = Ticks /\ IsTick(q)
      /\ BoundIn(q, tt) /\ OwnLease(q)
  BY SupervisorBounds DEF SupRight
<1>3. DbRight(tt, jj) /\ tt \in Seq(SupTasks) /\ jj \in Seq(SupJobs) /\ TickRight(tt, jj, w, q)
  BY <1>2 DEF Right, DbRight
<1>4. /\ DOMAIN q.mine.task = {} /\ DOMAIN q.mine.job = {} /\ DOMAIN q.mine.lease = {}
      /\ t \in DOMAIN tt
  BY <1>1, <1>2, <1>3 DEF TickRight, OwnLease
<1>5. /\ v = [task |-> tt, job |-> jj, lease |-> vl] /\ v.task = tt
      /\ DOMAIN vl = {1} /\ vl[1] \in SupLeases
  <2>1. TasksOf(q, tt) = tt /\ JobsOf(q, jj) = jj
    BY <1>3, <1>4, OverNone DEF TasksOf, JobsOf
  <2> QED
    BY <2>1, ViewIs
<1>6. \A x \in Ticks \ {w} : DOMAIN Changed(vl, db.lease) \cap DOMAIN tick[x].mine.lease = {}
  BY <1>4, ViewIs
<1>7. CASE Raises(w)
  BY <1>1, <1>7, RaisesKeeps
<1>8. CASE Goes(w, p, Resumed(v, t))
  <2>1. q = [at |-> q.at, env |-> q.env, instr |-> q.instr, bound |-> q.bound,
             task |-> q.task, deferred |-> q.deferred, ran |-> q.ran, mine |-> q.mine]
    BY <1>2 DEF IsTick
  <2> HIDE DEF q, n, b, d, vl, v
  <2>2. /\ k1[w].mine = q.mine /\ k1[w].at = "loop"
        /\ \A x \in Ticks \ {w} : k1[x] = tick[x]
    <3> DEFINE r == [q EXCEPT !.at = "loop"]
    <3>1. r = [q EXCEPT !.at = "loop"]
      OBVIOUS
    <3> HIDE DEF r
    <3>2. r = [at |-> "loop", env |-> q.env, instr |-> q.instr, bound |-> q.bound,
               task |-> q.task, deferred |-> q.deferred, ran |-> q.ran, mine |-> q.mine]
      BY <2>1, <3>1
    <3>3. r.mine = q.mine /\ r.at = "loop"
      BY <3>2
    <3> QED
      BY <1>2, <3>3 DEF r
  <2>3. IsTick(p) /\ p.mine = q.mine /\ p.at = "loop" /\ p.bound = b
    <3>1. p = [q EXCEPT !.at = "loop", !.ran = n, !.bound = b, !.deferred = d]
      OBVIOUS
    <3> HIDE DEF p
    <3>2. p = [at |-> "loop", env |-> q.env, instr |-> q.instr, bound |-> b,
               task |-> q.task, deferred |-> d, ran |-> n, mine |-> q.mine]
      BY <2>1, <3>1
    <3> QED
      BY <3>2 DEF IsTick
  <2> HIDE DEF p, k1
  <2>4. Right(tt, jj, k1)
    <3>1. /\ DOMAIN k1[w].mine.task = {} /\ DOMAIN k1[w].mine.job = {}
          /\ DOMAIN k1[w].mine.lease = {} /\ k1[w].at \in {"idle", "eligible", "loop"}
      BY <1>4, <2>2
    <3> HIDE DEF tt, jj
    <3> QED
      BY <1>2, <2>2, <3>1, Dropped
  <2>5. HandOf(p) = {} /\ ~AtHand(p)
    BY <2>3 DEF HandOf, AtHand
  <2>6. CASE ~resumes
    <3>1. Goes(w, p, [task |-> tt, job |-> jj, lease |-> vl])
      BY <1>5, <1>8, <2>6
    <3>2. WriteRight(tt, jj, k1, w, tt, jj, {})
      <4>1. TasksOf(k1[w], tt) = tt /\ JobsOf(k1[w], jj) = jj /\ HandOf(k1[w]) = {}
        BY <1>3, <1>4, <2>2, OverNone DEF TasksOf, JobsOf, HandOf
      <4>2. WriteRight(tt, jj, k1, w, TasksOf(k1[w], tt), JobsOf(k1[w], jj), HandOf(k1[w]))
        BY <2>4, ViewNow
      <4> QED
        BY <4>1, <4>2
    <3>3. b = q.bound
      BY <2>6 DEF b
    <3>4. /\ BoundIn(p, db.task) /\ WriteRight(db.task, db.job, k1, w, tt, jj, HandOf(p))
          /\ p.at \in {"loop", "dispatched"} /\ p.mine = tick[w].mine
      BY <1>2, <2>3, <2>5, <3>2, <3>3 DEF BoundIn, q
    <3>5. GoRight(db.task, db.job, db.lease, k1, tick, w, p, tt, jj, vl)
      BY <1>5, <1>6, <2>2, <2>3, <2>4, <2>5, <3>4 DEF GoRight
    <3> QED
      BY <1>1, <3>1, <3>5, GoesKeeps
  <2>7. CASE resumes
    <3> DEFINE row == [tt[s] EXCEPT !.status = "ready", !.why = "none"]
               pt == [tt EXCEPT ![s] = row]
    <3>1. /\ s # 0 /\ tt[s].status \in {"blocked", "retryable", "running"}
          /\ Resumed(v, t) = [v EXCEPT !.task[s].status = "ready", !.task[s].why = "none"]
      BY <1>5, <2>7 DEF Resumed
    <3>2. s = tt[t].parent /\ s \in DOMAIN tt
      <4>1. s = tt[t].parent
        BY <1>5
      <4>2. DOMAIN tt = 1..Len(tt) /\ Len(tt) \in Nat
        BY <1>3
      <4>3. s \in 1..(t - 1)
        BY <1>3, <1>4, <3>1, <4>1 DEF DbRight
      <4> QED
        BY <1>4, <4>1, <4>2, <4>3
    <3>3. Resumed(v, t) = [task |-> pt, job |-> jj, lease |-> vl]
      <4> HIDE DEF tt, jj, s
      <4>1. Resumed(v, t) = [[task |-> tt, job |-> jj, lease |-> vl] EXCEPT
                                !.task[s].status = "ready", !.task[s].why = "none"]
        BY <1>5, <3>1
      <4> DEFINE u == [[tt EXCEPT ![s].status = "ready"] EXCEPT ![s].why = "none"]
      <4>2. [[task |-> tt, job |-> jj, lease |-> vl] EXCEPT
               !.task[s].status = "ready", !.task[s].why = "none"]
              = [[task |-> tt, job |-> jj, lease |-> vl] EXCEPT !.task = u]
        OBVIOUS
      <4>3. u = pt
        BY <3>2
      <4> HIDE DEF u, pt
      <4>4. [[task |-> tt, job |-> jj, lease |-> vl] EXCEPT !.task = u]
              = [task |-> u, job |-> jj, lease |-> vl]
        OBVIOUS
      <4> QED
        BY <4>1, <4>2, <4>3, <4>4
    <3>4. NoBlind(tt, jj, s) => NoRepair(tt, k1, s) /\ Parked(tt[s])
      <4>1. Reassesses(tt, tick[w], s)
        BY <1>1, <3>2 DEF Reassesses, q
      <4> HIDE DEF tt, jj, s
      <4> QED
        BY <1>2, <2>2, <3>2, <4>1, TokenDropped
    <3>5. ~Settled(tt[s]) /\ RowFree(k1, w, s)
      BY <1>1, <2>2, <3>1 DEF Settled, SupTerminal, RowFree, LockedFor
    <3> HIDE DEF row
    <3>6. WriteRight(tt, jj, k1, w, pt, jj, {})
      <4>1. row = [tt[s] EXCEPT !.status = "ready", !.why = "none"]
        BY DEF row
      <4> HIDE DEF tt, jj, s
      <4> QED
        BY <2>4, <3>2, <3>4, <3>5, <4>1, SourceResumed
    <3> HIDE DEF pt
    <3>7. b = q.bound \cup {s}
      BY <2>7 DEF b
    <3>8. /\ BoundIn(p, db.task) /\ WriteRight(db.task, db.job, k1, w, pt, jj, HandOf(p))
          /\ p.at \in {"loop", "dispatched"} /\ p.mine = tick[w].mine
      BY <1>2, <2>3, <2>5, <3>2, <3>6, <3>7 DEF BoundIn, q
    <3>9. Goes(w, p, [task |-> pt, job |-> jj, lease |-> vl])
      BY <1>8, <3>3
    <3>10. GoRight(db.task, db.job, db.lease, k1, tick, w, p, pt, jj, vl)
      BY <1>5, <1>6, <2>2, <2>3, <2>4, <2>5, <3>8 DEF GoRight
    <3> QED
      BY <1>1, <3>9, <3>10, GoesKeeps
  <2> QED
    BY <2>6, <2>7
<1> QED
  BY <1>7, <1>8 DEF Reassess

-----------------------------------------------------------------------------
(* Steps outside the ticks: recovery, blind runs, founder, time            *)

\* A step outside the ticks that moves rows nobody has locked.
LEMMA OutsideKeeps ==
  ASSUME SupRight, NEW vt, NEW vj, NEW vl, OutRight(db.task, db.job, tick, vt, vj),
         db' = [task |-> vt, job |-> vj, lease |-> vl], DOMAIN vl = {1},
         vl[1] \in SupLeases, DOMAIN tick' = Ticks,
         \A x \in Ticks : tick'[x] = tick[x] \/ Vacant(tick'[x], db.task),
         supGoal' \in SupGoals
  PROVE  SupRight'
<1>1. Right(db.task, db.job, tick) /\ NoWorker \notin Ticks
  BY SupervisorBounds DEF SupRight
<1>2. ASSUME NEW k2, \A x \in Ticks : k2[x] = tick[x] \/ Vacant(k2[x], db.task)
      PROVE  Right(vt, vj, k2)
  BY <1>1, <1>2, Outside DEF OutRight, Vacant
<1>3. Right(vt, vj, tick')
  BY <1>2
<1>4. \A x \in Ticks : IsTick(tick'[x]) /\ OwnLease(tick'[x]) /\ BoundIn(tick'[x], vt)
  <2> TAKE x \in Ticks
  <2>1. DOMAIN vt = DOMAIN db.task
    BY DEF OutRight
  <2>2. CASE tick'[x] = tick[x]
    BY <2>1, <2>2 DEF SupRight, BoundIn
  <2>3. CASE Vacant(tick'[x], db.task)
    BY <2>1, <2>3 DEF Vacant, BoundIn, OwnLease
  <2> QED
    BY <2>2, <2>3
<1>5. db'.task = vt /\ db'.job = vj /\ db'.lease = vl
  OBVIOUS
<1> QED
  BY <1>3, <1>4, <1>5 DEF SupRight

\* Rows change in place.
LEMMA DbMoves ==
  ASSUME NEW tt, NEW jj, NEW vt, NEW vj, DbRight(tt, jj), vt \in Seq(SupTasks),
         vj \in Seq(SupJobs), DOMAIN vt = DOMAIN tt, DOMAIN vj = DOMAIN jj,
         \A t \in DOMAIN tt :
           /\ SameLineage(tt[t], vt[t]) /\ vt[t].job = tt[t].job
           /\ vt[t] # tt[t] => vt[t].status # "blocked",
         \A j \in DOMAIN jj :
           /\ JobMoves(jj[j], vj[j])
           /\ vj[j].status = "queued" => jj[j].status = "queued" /\ vj[j].by = jj[j].by
  PROVE  TablesMove(tt, jj, vt, vj)
<1>1. \A j \in DOMAIN vj : /\ vj[j].task \in DOMAIN vt
                           /\ vj[j].status = "queued" => vj[j].by = NoWorker
  BY DEF DbRight, JobMoves
<1>2. \A t \in DOMAIN vt :
        /\ vt[t].job # 0 => vt[t].job \in DOMAIN vj /\ vj[vt[t].job].status # "queued"
        /\ LetGo(vt[t], vj)
  <2> TAKE t \in DOMAIN vt
  <2>1. /\ tt[t].job # 0 => tt[t].job \in DOMAIN jj /\ jj[tt[t].job].status # "queued"
        /\ LetGo(tt[t], jj) /\ vt[t].job = tt[t].job
    BY DEF DbRight
  <2>2. vt[t].job # 0 => vt[t].job \in DOMAIN vj /\ vj[vt[t].job].status # "queued"
    BY <2>1
  <2>3. LetGo(vt[t], vj)
    <3>1. CASE vt[t] = tt[t]
      BY <2>1, <3>1 DEF LetGo, JobMoves
    <3>2. CASE vt[t] # tt[t]
      BY <3>2 DEF LetGo
    <3> QED
      BY <3>1, <3>2
  <2> QED
    BY <2>2, <2>3
<1>3. \A t \in DOMAIN vt : vt[t].parent # 0 =>
        /\ vt[t].parent \in 1..(t - 1)
        /\ vt[t].depth < MaxDepth /\ vt[t].depth = GapOf(vt, vt[t].parent)
  <2> SUFFICES ASSUME NEW t \in DOMAIN vt, vt[t].parent # 0
               PROVE  /\ vt[t].parent \in 1..(t - 1)
                      /\ vt[t].depth < MaxDepth /\ vt[t].depth = GapOf(vt, vt[t].parent)
    OBVIOUS
  <2>1. /\ tt[t].parent \in 1..(t - 1) /\ vt[t].parent = tt[t].parent
        /\ tt[t].depth < MaxDepth /\ tt[t].depth = GapOf(tt, tt[t].parent)
        /\ vt[t].depth = tt[t].depth
    BY DEF DbRight, SameLineage
  <2>2. tt[t].parent \in DOMAIN tt
    <3>1. DOMAIN tt = 1..Len(tt) /\ Len(tt) \in Nat
      BY DEF DbRight
    <3> QED
      BY <2>1, <3>1
  <2>3. GapOf(vt, tt[t].parent) = GapOf(tt, tt[t].parent)
    BY <2>2 DEF GapOf, SameLineage
  <2> QED
    BY <2>1, <2>3
<1>4. DbRight(vt, vj)
  BY <1>1, <1>2, <1>3 DEF DbRight
<1> QED
  BY <1>4 DEF TablesMove, TaskMoves

\* Only rows of jobs change.
LEMMA JobsOnly ==
  ASSUME NEW tt, NEW jj, NEW k, Right(tt, jj, k), NEW j \in DOMAIN jj, NEW row \in SupJobs,
         JobMoves(jj[j], row), row.status # "queued" \/ (row.by = jj[j].by /\ jj[j].status = "queued"),
         \A x \in Ticks : j \notin DOMAIN k[x].mine.job
  PROVE  OutRight(tt, jj, k, tt, [jj EXCEPT ![j] = row])
<1> DEFINE vj == [jj EXCEPT ![j] = row]
<1>1. DbRight(tt, jj) /\ tt \in Seq(SupTasks) /\ jj \in Seq(SupJobs)
  BY DEF Right, DbRight
<1>2. /\ vj \in Seq(SupJobs) /\ DOMAIN vj = DOMAIN jj /\ vj[j] = row
      /\ \A i \in DOMAIN jj : i # j => vj[i] = jj[i]
  BY <1>1
<1> HIDE DEF vj
<1>3. \A i \in DOMAIN jj : JobMoves(jj[i], vj[i])
  BY <1>2 DEF JobMoves
<1>4. TablesMove(tt, jj, tt, vj)
  BY <1>1, <1>2, <1>3, DbMoves DEF SameLineage
<1>5. \A x \in Ticks : LeftAlone(tt, jj, tt, vj, k[x])
  <2> SUFFICES ASSUME NEW x \in Ticks
               PROVE  LeftAlone(tt, jj, tt, vj, k[x])
    OBVIOUS
  <2>1. \A i \in DOMAIN k[x].mine.job : i \in DOMAIN jj
    <3>1. TickRight(tt, jj, x, k[x])
      BY DEF Right
    <3>2. DOMAIN JobsOf(k[x], jj) = DOMAIN jj
      BY <3>1 DEF TickRight, ViewRight
    <3> QED
      BY <3>2 DEF JobsOf, Over
  <2> QED
    BY <1>2, <2>1 DEF LeftAlone
<1>6. \A x \in Ticks : HandLeft(tt, jj, tt, vj, x, k[x])
  BY DEF HandLeft
<1>7. OutRight(tt, jj, k, tt, vj)
  BY <1>4, <1>5, <1>6 DEF OutRight
<1> QED
  BY <1>7 DEF vj

\* One row of a task changes, with rows of its jobs.
LEMMA TaskOnly ==
  ASSUME NEW tt, NEW jj, NEW k, Right(tt, jj, k), NEW t \in DOMAIN tt, NEW row \in SupTasks,
         SameLineage(tt[t], row), row.job = tt[t].job, row = tt[t] \/ row.status # "blocked",
         NEW vj \in Seq(SupJobs), DOMAIN vj = DOMAIN jj,
         \A j \in DOMAIN jj :
           vj[j] # jj[j] => /\ JobMoves(jj[j], vj[j]) /\ vj[j].status # "queued"
                            /\ \A x \in Ticks : j \notin DOMAIN k[x].mine.job,
         row # tt[t] => \A x \in Ticks : t \notin DOMAIN k[x].mine.task,
         \/ row = tt[t] \/ ~Blindless(vj, t)
         \/ /\ row.status = "ready" /\ tt[t].status \in {"blocked", "retryable"}
            /\ ~Parked(tt[t])
         \/ /\ row.status = "ready" /\ tt[t].status = "running"
            /\ row.job # 0 /\ Settled(vj[row.job])
  PROVE  OutRight(tt, jj, k, [tt EXCEPT ![t] = row], vj)
<1> DEFINE pt == [tt EXCEPT ![t] = row]
<1>1. DbRight(tt, jj) /\ tt \in Seq(SupTasks) /\ jj \in Seq(SupJobs)
  BY DEF Right, DbRight
<1>2. /\ pt \in Seq(SupTasks) /\ DOMAIN pt = DOMAIN tt /\ pt[t] = row
      /\ \A i \in DOMAIN tt : i # t => pt[i] = tt[i]
  BY <1>1
<1> HIDE DEF pt
<1>3. \A i \in DOMAIN tt : /\ SameLineage(tt[i], pt[i]) /\ pt[i].job = tt[i].job
                           /\ pt[i] # tt[i] => pt[i].status # "blocked"
  BY <1>2 DEF SameLineage
<1>4. \A j \in DOMAIN jj :
        /\ JobMoves(jj[j], vj[j])
        /\ vj[j].status = "queued" => jj[j].status = "queued" /\ vj[j].by = jj[j].by
  <2> TAKE j \in DOMAIN jj
  <2>1. CASE vj[j] = jj[j]
    BY <2>1 DEF JobMoves
  <2>2. CASE vj[j] # jj[j]
    BY <2>2
  <2> QED
    BY <2>1, <2>2
<1>5. TablesMove(tt, jj, pt, vj)
  BY <1>1, <1>2, <1>3, <1>4, DbMoves
<1>6. \A x \in Ticks : LeftAlone(tt, jj, pt, vj, k[x])
  <2> SUFFICES ASSUME NEW x \in Ticks
               PROVE  LeftAlone(tt, jj, pt, vj, k[x])
    OBVIOUS
  <2>1. \A i \in DOMAIN k[x].mine.job : i \in DOMAIN jj
    <3>1. TickRight(tt, jj, x, k[x])
      BY DEF Right
    <3>2. DOMAIN JobsOf(k[x], jj) = DOMAIN jj
      BY <3>1 DEF TickRight, ViewRight
    <3> QED
      BY <3>2 DEF JobsOf, Over
  <2> QED
    BY <1>2, <2>1 DEF LeftAlone
<1>7. \A x \in Ticks : HandLeft(tt, jj, pt, vj, x, k[x])
  <2> SUFFICES ASSUME NEW x \in Ticks
               PROVE  HandLeft(tt, jj, pt, vj, x, k[x])
    OBVIOUS
  <2>1. CASE k[x].task # t \/ row = tt[t] \/ ~AtHand(k[x])
    <3>1. AtHand(k[x]) => k[x].task \in DOMAIN tt
      BY DEF Right, TickRight, HandRight
    <3> QED
      BY <1>2, <2>1, <3>1 DEF HandLeft
  <2>2. CASE k[x].task = t /\ row # tt[t]
    <3>1. CASE ~Blindless(vj, t)
      <4>1. ~NoBlind(pt, vj, t)
        BY <3>1 DEF Blindless, NoBlind
      <4> QED
        BY <2>2, <3>1, <4>1 DEF HandLeft
    <3>2. CASE row.status = "ready" /\ tt[t].status \in {"blocked", "retryable"}
      BY <1>2, <2>2, <3>2 DEF HandLeft, Settled, SupTerminal
    <3>3. CASE row.status = "ready" /\ row.job # 0 /\ Settled(vj[row.job])
      BY <1>2, <2>2, <3>3 DEF HandLeft
    <3> QED
      BY <2>2, <3>1, <3>2, <3>3
  <2> QED
    BY <2>1, <2>2
<1>8. \A s \in DOMAIN tt : NoBlind(pt, vj, s) =>
        /\ OpenRepairs(pt, s) \subseteq OpenRepairs(tt, s)
        /\ pt[s] = tt[s] \/ ~Parked(tt[s])
  <2> SUFFICES ASSUME NEW s \in DOMAIN tt, NoBlind(pt, vj, s)
               PROVE  /\ OpenRepairs(pt, s) \subseteq OpenRepairs(tt, s)
                      /\ pt[s] = tt[s] \/ ~Parked(tt[s])
    OBVIOUS
  <2>1. s = t \/ pt[t].parent = s => Blindless(vj, t)
    BY DEF NoBlind, Blindless
  <2>2. pt[s] = tt[s] \/ ~Parked(tt[s])
    BY <1>2, <2>1 DEF Parked
  <2>3. pt[t].parent = s /\ ~Settled(pt[t]) => ~Settled(tt[t])
    BY <1>2, <2>1 DEF Settled, SupTerminal
  <2>4. OpenRepairs(pt, s) \subseteq OpenRepairs(tt, s)
    <3> SUFFICES ASSUME NEW u \in DOMAIN tt, pt[u].parent = s, ~Settled(pt[u])
                 PROVE  tt[u].parent = s /\ ~Settled(tt[u])
      BY <1>2 DEF OpenRepairs
    <3> QED
      BY <1>2, <1>3, <2>3 DEF SameLineage
  <2> QED
    BY <2>2, <2>4
<1>9. OutRight(tt, jj, k, pt, vj)
  BY <1>2, <1>5, <1>6, <1>7, <1>8 DEF OutRight
<1> QED
  BY <1>9 DEF pt

\* The types the committed rows have.
LEMMA DbShape ==
  ASSUME SupRight
  PROVE  /\ Right(db.task, db.job, tick) /\ DbRight(db.task, db.job)
         /\ db.task \in Seq(SupTasks) /\ db.job \in Seq(SupJobs)
         /\ db = [task |-> db.task, job |-> db.job, lease |-> db.lease]
         /\ DOMAIN db.lease = {1} /\ db.lease[1] \in SupLeases
         /\ DOMAIN tick = Ticks /\ supGoal \in SupGoals
         /\ \A j \in DOMAIN db.job : db.job[j] \in SupJobs /\ db.job[j].task \in DOMAIN db.task
         /\ \A t \in DOMAIN db.task : db.task[t] \in SupTasks
<1>1. Right(db.task, db.job, tick)
  BY DEF SupRight
<1>2. DbRight(db.task, db.job)
  BY <1>1 DEF Right
<1>3. db.task \in Seq(SupTasks) /\ db.job \in Seq(SupJobs)
  BY <1>2 DEF DbRight
<1>4. \A j \in DOMAIN db.job : db.job[j] \in SupJobs /\ db.job[j].task \in DOMAIN db.task
  BY <1>2, <1>3 DEF DbRight
<1> QED
  BY <1>1, <1>2, <1>3, <1>4 DEF SupRight

\* Tasks parked for the provider wake (_advance_mainai_execution_retries).
LEMMA WakeKeeps ==
  ASSUME SupRight, WakeDue
  PROVE  SupRight'
<1> DEFINE tt == db.task
           jj == db.job
           vl == db.lease
<1>1. PICK t \in DOMAIN tt :
        /\ tt[t].status = "retryable" \/ tt[t].why = "provider"
        /\ tt[t].status \in {"retryable", "blocked"} /\ ~Locked("task", t)
        /\ db' = [db EXCEPT !.task[t].status = "ready", !.task[t].why = "none"]
  BY DEF WakeDue
<1>2. tick' = tick /\ supGoal' = supGoal
  BY DEF WakeDue
<1> DEFINE row == [tt[t] EXCEPT !.status = "ready", !.why = "none"]
           pt == [tt EXCEPT ![t] = row]
<1>3. tt[t] \in SupTasks /\ db = [task |-> tt, job |-> jj, lease |-> vl]
  BY DbShape
<1>4. /\ row \in SupTasks /\ row.status = "ready" /\ row.job = tt[t].job
      /\ SameLineage(tt[t], row)
  BY <1>3 DEF SupTasks, SupTaskStatuses, SameLineage
<1>5. db' = [task |-> pt, job |-> jj, lease |-> vl]
  <2> DEFINE u == [[tt EXCEPT ![t].status = "ready"] EXCEPT ![t].why = "none"]
  <2>1. db' = [db EXCEPT !.task = u]
    BY <1>1
  <2>2. u = pt
    OBVIOUS
  <2> HIDE DEF u, pt, tt, jj, vl
  <2>3. [db EXCEPT !.task = u] = [task |-> u, job |-> jj, lease |-> vl]
    BY <1>3
  <2> QED
    BY <2>1, <2>2, <2>3
<1>6. OutRight(tt, jj, tick, pt, jj)
  <2>1. \A x \in Ticks : t \notin DOMAIN tick[x].mine.task
    BY <1>1 DEF Locked
  <2>2. ~Parked(tt[t])
    BY <1>1 DEF Parked
  <2>3. Right(tt, jj, tick) /\ jj \in Seq(SupJobs)
    BY DbShape
  <2> HIDE DEF row, tt, jj
  <2> QED
    BY <1>1, <1>4, <2>1, <2>2, <2>3, TaskOnly
<1> HIDE DEF pt
<1> QED
  BY <1>2, <1>5, <1>6, DbShape, OutsideKeeps

\* Recovery lets a governed job go (_decline_takeover_for_governed_goal).
LEMMA TakeoverKeeps ==
  ASSUME SupRight, DeclineTakeover
  PROVE  SupRight'
<1> DEFINE tt == db.task
           jj == db.job
           vl == db.lease
<1>1. PICK t \in DOMAIN tt :
        /\ tt[t].job # 0 /\ tt[t].status = "running"
        /\ ~Locked("task", t) /\ ~Locked("job", tt[t].job)
        /\ jj[tt[t].job].status \in SupTerminal \cup {"running"}
        /\ db' = [db EXCEPT !.job[tt[t].job].status = "failed", !.task[t].status = "ready"]
  BY DEF DeclineTakeover
<1> DEFINE j == tt[t].job
           row == [tt[t] EXCEPT !.status = "ready"]
           gone == [jj[j] EXCEPT !.status = "failed"]
           pt == [tt EXCEPT ![t] = row]
           pj == [jj EXCEPT ![j] = gone]
<1>2. tick' = tick /\ supGoal' = supGoal
  BY DEF DeclineTakeover
<1>3. /\ Right(tt, jj, tick) /\ DbRight(tt, jj) /\ tt[t] \in SupTasks
      /\ db = [task |-> tt, job |-> jj, lease |-> vl] /\ jj \in Seq(SupJobs)
  BY DbShape
<1>4. j \in DOMAIN jj /\ jj[j] \in SupJobs
  BY <1>1, <1>3 DEF DbRight
<1>5. /\ row \in SupTasks /\ row.status = "ready" /\ row.job = j
      /\ SameLineage(tt[t], row)
  BY <1>3 DEF SupTasks, SupTaskStatuses, SameLineage
<1>6. /\ gone \in SupJobs /\ gone.status = "failed" /\ gone.by = jj[j].by
      /\ gone.task = jj[j].task /\ gone.blind = jj[j].blind
  BY <1>4 DEF SupJobs, SupJobStatuses, SupTerminal
<1>7. db' = [task |-> pt, job |-> pj, lease |-> vl]
  <2>1. db' = [db EXCEPT !.job = pj, !.task = pt]
    BY <1>1
  <2> HIDE DEF pt, pj, tt, jj, vl
  <2> QED
    BY <1>3, <2>1
<1> HIDE DEF row, gone
<1>8. /\ pj \in Seq(SupJobs) /\ DOMAIN pj = DOMAIN jj /\ pj[j] = gone
      /\ \A i \in DOMAIN jj : i # j => pj[i] = jj[i]
  BY <1>3, <1>4, <1>6
<1> HIDE DEF pj
<1>9. OutRight(tt, jj, tick, pt, pj)
  <2>1. \A x \in Ticks : t \notin DOMAIN tick[x].mine.task /\ j \notin DOMAIN tick[x].mine.job
    BY <1>1 DEF Locked
  <2>2. Settled(gone) /\ gone.status # "queued" /\ JobMoves(jj[j], gone)
    BY <1>6 DEF Settled, SupTerminal, JobMoves
  <2>3. \A i \in DOMAIN jj :
          pj[i] # jj[i] => /\ JobMoves(jj[i], pj[i]) /\ pj[i].status # "queued"
                           /\ \A x \in Ticks : i \notin DOMAIN tick[x].mine.job
    BY <1>8, <2>1, <2>2
  <2>4. row.job # 0 /\ Settled(pj[row.job])
    BY <1>1, <1>5, <1>8, <2>2
  <2> HIDE DEF tt, jj
  <2> QED
    BY <1>1, <1>3, <1>5, <1>8, <2>1, <2>3, <2>4, TaskOnly
<1> HIDE DEF pt
<1> QED
  BY <1>2, <1>7, <1>9, DbShape, OutsideKeeps

\* A blind run ends (_finalize_task_outcome).
LEMMA BlindEndsKeeps ==
  ASSUME SupRight, NEW w \in Ticks, BlindEnds(w)
  PROVE  SupRight'
<1> DEFINE tt == db.task
           jj == db.job
           vl == db.lease
           t == tick[w].task
           mine == {j \in DOMAIN jj : /\ jj[j].task = t /\ jj[j].blind /\ Holds(w, jj[j])}
<1>1. PICK passed \in BOOLEAN :
        db' = [db EXCEPT
                 !.job = [j \in DOMAIN @ |-> IF j \notin mine THEN @[j]
                            ELSE [@[j] EXCEPT !.status =
                                    IF passed THEN "completed" ELSE "failed"]],
                 !.task[t].status = IF @ = "cancelled" \/ mine = {} THEN @
                                    ELSE IF passed THEN "completed" ELSE "retryable"]
  BY DEF BlindEnds
<1> DEFINE js == IF passed THEN "completed" ELSE "failed"
           st == IF tt[t].status = "cancelled" \/ mine = {} THEN tt[t].status
                 ELSE IF passed THEN "completed" ELSE "retryable"
           row == [tt[t] EXCEPT !.status = st]
           pt == [tt EXCEPT ![t] = row]
           pj == [j \in DOMAIN jj |-> IF j \notin mine THEN jj[j]
                                      ELSE [jj[j] EXCEPT !.status = js]]
<1>2. /\ tick' = [tick EXCEPT ![w] = IdleTick] /\ tick[w].at = "blind"
      /\ ~Locked("task", t) /\ \A j \in mine : ~Locked("job", j)
  BY DEF BlindEnds
<1>3. supGoal' \in SupGoals
  BY RolledUpGoal DEF BlindEnds, SupRight
<1>4. /\ Right(tt, jj, tick) /\ DbRight(tt, jj) /\ jj \in Seq(SupJobs) /\ tt \in Seq(SupTasks)
      /\ db = [task |-> tt, job |-> jj, lease |-> vl]
      /\ \A j \in DOMAIN jj : jj[j] \in SupJobs /\ jj[j].task \in DOMAIN tt
  BY DbShape
<1>5. db' = [task |-> pt, job |-> pj, lease |-> vl]
  <2>1. db' = [db EXCEPT !.job = pj, !.task = pt]
    BY <1>1
  <2> HIDE DEF pt, pj, tt, jj, vl
  <2> QED
    BY <1>4, <2>1
<1>6. js \in {"completed", "failed"} /\ js # "queued"
  OBVIOUS
<1> HIDE DEF js
<1>7. \A j \in DOMAIN jj :
        /\ pj[j] \in SupJobs
        /\ j \notin mine => pj[j] = jj[j]
        /\ j \in mine => /\ JobMoves(jj[j], pj[j]) /\ pj[j].status # "queued"
                         /\ pj[j].blind /\ pj[j].task = t
  <2> SUFFICES ASSUME NEW j \in DOMAIN jj
               PROVE  /\ pj[j] \in SupJobs
                      /\ j \notin mine => pj[j] = jj[j]
                      /\ j \in mine => /\ JobMoves(jj[j], pj[j]) /\ pj[j].status # "queued"
                                       /\ pj[j].blind /\ pj[j].task = t
    OBVIOUS
  <2>1. jj[j] \in SupJobs
    BY <1>4
  <2>2. CASE j \notin mine
    BY <2>1, <2>2
  <2>3. CASE j \in mine
    <3> DEFINE new == [jj[j] EXCEPT !.status = js]
    <3>1. pj[j] = new
      BY <2>3
    <3>2. /\ new \in SupJobs /\ new.status = js /\ new.by = jj[j].by
          /\ new.task = jj[j].task /\ new.blind = jj[j].blind
      BY <1>6, <2>1 DEF SupJobs, SupJobStatuses, SupTerminal
    <3> HIDE DEF new
    <3>3. jj[j].blind /\ jj[j].task = t
      BY <2>3
    <3>4. JobMoves(jj[j], new)
      BY <1>6, <3>2 DEF JobMoves, Settled, SupTerminal
    <3> HIDE DEF pj
    <3> QED
      BY <1>6, <2>3, <3>1, <3>2, <3>3, <3>4
  <2> QED
    BY <2>2, <2>3
<1>8. pj \in Seq(SupJobs) /\ DOMAIN pj = DOMAIN jj
  <2>1. DOMAIN jj = 1..Len(jj) /\ Len(jj) \in Nat
    BY <1>4
  <2>2. pj \in [1..Len(jj) -> SupJobs]
    BY <1>7, <2>1
  <2> HIDE DEF pj
  <2> QED
    BY <2>1, <2>2
<1>9. CASE mine = {}
  <2>1. pj = jj
    <3>1. pj = [j \in DOMAIN jj |-> jj[j]]
      BY <1>9
    <3> HIDE DEF pj
    <3> QED
      BY <1>4, <3>1
  <2>2. pt = tt
    <3>1. st = tt[t].status
      BY <1>9
    <3> HIDE DEF st
    <3>2. ASSUME t \in DOMAIN tt
          PROVE  row = tt[t]
      <4>1. tt[t] \in SupTasks
        BY <1>4, <3>2
      <4> HIDE DEF tt, t
      <4> QED
        BY <3>1, <4>1 DEF SupTasks
    <3> HIDE DEF row
    <3> QED
      BY <1>4, <3>2
  <2>3. db' = db
    BY <1>4, <1>5, <2>1, <2>2
  <2> QED
    BY <1>2, <1>3, <2>3, IdleIs, TickDrops
<1>10. CASE mine # {}
  <2>1. PICK j \in mine : TRUE
    BY <1>10
  <2>2. t \in DOMAIN tt /\ j \in DOMAIN jj
    BY <1>4, <2>1
  <2>3. tt[t] \in SupTasks
    BY <1>4, <2>2
  <2>4. st = tt[t].status \/ st \in {"completed", "retryable"}
    OBVIOUS
  <2> HIDE DEF st
  <2>5. /\ row \in SupTasks /\ row.job = tt[t].job /\ SameLineage(tt[t], row)
        /\ row = tt[t] \/ row.status # "blocked"
    <3>1. CASE st = tt[t].status
      <4>1. row = tt[t]
        BY <2>3, <3>1 DEF SupTasks
      <4> HIDE DEF row
      <4> QED
        BY <2>3, <4>1 DEF SameLineage
    <3>2. CASE st \in {"completed", "retryable"}
      BY <2>3, <3>2 DEF SupTasks, SupTaskStatuses, SupTerminal, SameLineage
    <3> QED
      BY <2>4, <3>1, <3>2
  <2> HIDE DEF row
  <2>6. ~Blindless(pj, t)
    BY <1>7, <1>8, <2>1, <2>2 DEF Blindless
  <2>7. \A i \in DOMAIN jj :
          pj[i] # jj[i] => /\ JobMoves(jj[i], pj[i]) /\ pj[i].status # "queued"
                           /\ \A x \in Ticks : i \notin DOMAIN tick[x].mine.job
    BY <1>2, <1>7 DEF Locked
  <2>8. \A x \in Ticks : t \notin DOMAIN tick[x].mine.task
    BY <1>2 DEF Locked
  <2> HIDE DEF pj
  <2>9. OutRight(tt, jj, tick, pt, pj)
    <3> HIDE DEF tt, jj
    <3> QED
      BY <1>4, <1>8, <2>2, <2>5, <2>6, <2>7, <2>8, TaskOnly
  <2> HIDE DEF pt
  <2>10. DOMAIN tick' = Ticks /\ \A x \in Ticks : tick'[x] = tick[x] \/ Vacant(tick'[x], db.task)
    <3>1. DOMAIN tick' = Ticks /\ \A x \in Ticks : tick'[x] = tick[x] \/ tick'[x] = IdleTick
      BY <1>2, DbShape
    <3>2. Vacant(IdleTick, db.task)
      BY IdleIs DEF Vacant
    <3> QED
      BY <3>1, <3>2
  <2> QED
    BY <1>3, <1>5, <2>9, <2>10, DbShape, OutsideKeeps
<1> QED
  BY <1>9, <1>10

\* A job row that changes from outside the ticks.
LEMMA JobWritten ==
  ASSUME SupRight, NEW j \in DOMAIN db.job, NEW row \in SupJobs,
         JobMoves(db.job[j], row),
         row.status # "queued" \/ (row.by = db.job[j].by /\ db.job[j].status = "queued"),
         ~Locked("job", j),
         db' = [task |-> db.task, job |-> [db.job EXCEPT ![j] = row], lease |-> db.lease],
         DOMAIN tick' = Ticks,
         \A x \in Ticks : tick'[x] = tick[x] \/ Vacant(tick'[x], db.task),
         supGoal' \in SupGoals
  PROVE  SupRight'
<1>1. \A x \in Ticks : j \notin DOMAIN tick[x].mine.job
  BY DEF Locked
<1>2. OutRight(db.task, db.job, tick, db.task, [db.job EXCEPT ![j] = row])
  BY <1>1, DbShape, JobsOnly
<1> QED
  BY <1>2, DbShape, OutsideKeeps

\* A worker claims a job past the Supervisor (claim_next_mainai_job).
LEMMA ClaimNextKeeps ==
  ASSUME SupRight, NEW w \in Ticks, ClaimNext(w)
  PROVE  SupRight'
<1> DEFINE jj == db.job
           r == tick[w]
<1>1. PICK j \in DOMAIN jj :
        /\ jj[j].status = "queued" /\ ~Locked("job", j)
        /\ db' = [db EXCEPT !.job[j].status = "running", !.job[j].by = w,
                            !.job[j].blind = TRUE]
        /\ tick' = [tick EXCEPT ![w].at = "blind", ![w].task = jj[j].task]
  BY DEF ClaimNext
<1> DEFINE row == [jj[j] EXCEPT !.status = "running", !.by = w, !.blind = TRUE]
           t == jj[j].task
           q == [r EXCEPT !.at = "blind", !.task = t]
<1>2. jj[j] \in SupJobs
  BY DbShape
<1>3. /\ row \in SupJobs /\ row.status = "running" /\ row.blind
      /\ row.task = jj[j].task
  BY <1>2 DEF SupJobs, SupJobStatuses
<1>4. JobMoves(jj[j], row)
  BY <1>1, <1>3 DEF JobMoves, Settled, SupTerminal
<1>5. db' = [task |-> db.task, job |-> [db.job EXCEPT ![j] = row], lease |-> db.lease]
  <2> DEFINE u == [[[jj EXCEPT ![j].status = "running"] EXCEPT ![j].by = w] EXCEPT ![j].blind = TRUE]
             pj == [jj EXCEPT ![j] = row]
             tt == db.task
             vl == db.lease
  <2>1. db' = [db EXCEPT !.job = u]
    BY <1>1
  <2>2. u = pj
    OBVIOUS
  <2>3. db = [task |-> tt, job |-> jj, lease |-> vl]
    BY DbShape
  <2> HIDE DEF u, pj, tt, jj, vl
  <2>4. db' = [task |-> tt, job |-> pj, lease |-> vl]
    BY <2>1, <2>2, <2>3
  <2> QED
    BY <2>4 DEF pj, tt, vl, jj
<1>6. tick' = [tick EXCEPT ![w] = q] /\ supGoal' = supGoal
  BY <1>1, DbShape DEF ClaimNext
<1>7. Vacant(q, db.task)
  <2>1. r = [at |-> r.at, env |-> r.env, instr |-> r.instr, bound |-> r.bound,
             task |-> r.task, deferred |-> r.deferred, ran |-> r.ran, mine |-> r.mine]
    BY DEF SupRight, IsTick
  <2>2. DOMAIN r.mine.task = {} /\ DOMAIN r.mine.job = {} /\ DOMAIN r.mine.lease = {}
    <3>1. TickRight(db.task, db.job, w, r) /\ OwnLease(r) /\ r.at = "idle"
      BY DEF SupRight, Right, ClaimNext
    <3> QED
      BY <3>1 DEF TickRight, OwnLease
  <2>3. BoundIn(r, db.task)
    BY DEF SupRight
  <2>4. q = [r EXCEPT !.at = "blind", !.task = t]
    OBVIOUS
  <2> HIDE DEF r, t, q
  <2>5. q = [at |-> "blind", env |-> r.env, instr |-> r.instr, bound |-> r.bound,
             task |-> t, deferred |-> r.deferred, ran |-> r.ran, mine |-> r.mine]
    BY <2>1, <2>4
  <2>6. IsTick(q) /\ q.mine = r.mine /\ q.at = "blind" /\ q.bound = r.bound
    BY <2>5 DEF IsTick
  <2> QED
    BY <2>2, <2>3, <2>6 DEF Vacant, BoundIn
<1> HIDE DEF q, row
<1>8. DOMAIN tick' = Ticks /\ \A x \in Ticks : tick'[x] = tick[x] \/ Vacant(tick'[x], db.task)
  BY <1>6, <1>7, DbShape
<1>9. supGoal' \in SupGoals
  BY <1>6, DbShape
<1> QED
  BY <1>1, <1>3, <1>4, <1>5, <1>8, <1>9, JobWritten

\* A founder asks for a cancellation (request_cancel).
LEMMA RequestCancelKeeps ==
  ASSUME SupRight, RequestCancel
  PROVE  SupRight'
<1> DEFINE jj == db.job
<1>1. PICK j \in DOMAIN jj :
        /\ jj[j].status \in {"queued", "running"} /\ ~Locked("job", j)
        /\ db' = [db EXCEPT !.job[j].cancel = TRUE]
  BY DEF RequestCancel
<1> DEFINE row == [jj[j] EXCEPT !.cancel = TRUE]
<1>2. jj[j] \in SupJobs
  BY DbShape
<1>3. /\ row \in SupJobs /\ row.status = jj[j].status /\ row.by = jj[j].by
      /\ row.task = jj[j].task /\ row.blind = jj[j].blind
  BY <1>2 DEF SupJobs
<1>4. JobMoves(jj[j], row)
  <2> HIDE DEF row, jj
  <2>1. jj[j].blind => row.blind
    BY <1>3, Zenon
  <2> QED
    BY <1>3, <2>1 DEF JobMoves, Settled, SupTerminal
<1>5. db' = [task |-> db.task, job |-> [db.job EXCEPT ![j] = row], lease |-> db.lease]
  <2> DEFINE pj == [jj EXCEPT ![j] = row]
             tt == db.task
             vl == db.lease
  <2>1. db' = [db EXCEPT !.job = pj]
    BY <1>1
  <2>2. db = [task |-> tt, job |-> jj, lease |-> vl]
    BY DbShape
  <2> HIDE DEF pj, tt, jj, vl
  <2>3. db' = [task |-> tt, job |-> pj, lease |-> vl]
    BY <2>1, <2>2
  <2> QED
    BY <2>3 DEF pj, tt, vl, jj
<1>6. tick' = tick /\ supGoal' = supGoal
  BY DEF RequestCancel
<1> HIDE DEF row
<1>7. DOMAIN tick' = Ticks /\ supGoal' \in SupGoals
  BY <1>6, DbShape
<1>8. row.status # "queued" \/ (row.by = jj[j].by /\ jj[j].status = "queued")
  BY <1>3
<1> QED
  BY <1>1, <1>3, <1>4, <1>5, <1>6, <1>7, <1>8, JobWritten

\* Only the goal lease changes: it lapses where it stands.
LEMMA LapseKeeps ==
  ASSUME SupRight, db' = [db EXCEPT !.lease[1].lapsed = TRUE],
         tick' = tick, supGoal' = supGoal
  PROVE  SupRight'
<1> DEFINE row == [db.lease[1] EXCEPT !.lapsed = TRUE]
           vl == [db.lease EXCEPT ![1] = row]
           ll == db.lease
           tt == db.task
           jj == db.job
<1>1. DOMAIN vl = {1} /\ vl[1] \in SupLeases
  BY DbShape DEF SupLeases
<1>2. db' = [db EXCEPT !.lease = vl]
  OBVIOUS
<1>3. db = [task |-> tt, job |-> jj, lease |-> ll]
  BY DbShape
<1>4. db' = [task |-> tt, job |-> jj, lease |-> vl]
  <2> HIDE DEF vl, ll, tt, jj
  <2> QED
    BY <1>2, <1>3
<1>5. /\ db'.task = tt /\ db'.job = jj /\ db'.lease = vl
      /\ db' = [task |-> db'.task, job |-> db'.job, lease |-> db'.lease]
  BY <1>4
<1> HIDE DEF vl
<1> QED
  BY <1>1, <1>5 DEF SupRight

\* A worker stalls: its lease and its job lapse.
LEMMA StallKeeps ==
  ASSUME SupRight, Stall
  PROVE  SupRight'
<1> DEFINE jj == db.job
<1>1. tick' = tick /\ supGoal' = supGoal
  BY DEF Stall
<1>2. CASE db' = [db EXCEPT !.lease[1].lapsed = TRUE]
  BY <1>1, <1>2, LapseKeeps
<1>3. ASSUME NEW j \in DOMAIN jj, jj[j].status = "running", ~Locked("job", j),
             db' = [db EXCEPT !.job[j].lapsed = TRUE]
      PROVE  SupRight'
  <2> DEFINE row == [jj[j] EXCEPT !.lapsed = TRUE]
  <2>1. jj[j] \in SupJobs
    BY DbShape
  <2>2. /\ row \in SupJobs /\ row.status = jj[j].status /\ row.by = jj[j].by
        /\ row.task = jj[j].task /\ row.blind = jj[j].blind
    BY <2>1 DEF SupJobs
  <2>3. JobMoves(jj[j], row)
    <3> HIDE DEF row, jj
    <3>1. jj[j].blind => row.blind
      BY <2>2, Zenon
    <3> QED
      BY <2>2, <3>1 DEF JobMoves, Settled, SupTerminal
  <2>4. db' = [task |-> db.task, job |-> [db.job EXCEPT ![j] = row], lease |-> db.lease]
    <3> DEFINE pj == [jj EXCEPT ![j] = row]
               tt == db.task
               vl == db.lease
    <3>1. db' = [db EXCEPT !.job = pj]
      BY <1>3
    <3>2. db = [task |-> tt, job |-> jj, lease |-> vl]
      BY DbShape
    <3> HIDE DEF pj, tt, jj, vl
    <3>3. db' = [task |-> tt, job |-> pj, lease |-> vl]
      BY <3>1, <3>2
    <3> QED
      BY <3>3 DEF pj, tt, vl, jj
  <2> HIDE DEF row
  <2>5. DOMAIN tick' = Ticks /\ supGoal' \in SupGoals
    BY <1>1, DbShape
  <2>6. row.status # "queued" \/ (row.by = jj[j].by /\ jj[j].status = "queued")
    BY <1>3, <2>2
  <2> QED
    BY <1>1, <1>3, <2>2, <2>3, <2>4, <2>5, <2>6, JobWritten
<1> QED
  BY <1>2, <1>3 DEF Stall

\* The founder changes what the goal row says and nothing else.
LEMMA GoalOnly ==
  ASSUME SupRight, db' = db, tick' = tick, supGoal' \in SupGoals
  PROVE  SupRight'
BY DEF SupRight

\* The founder changes the envelope or corrects the goal.
LEMMA FounderKeeps ==
  ASSUME SupRight, ChangeEnvelope \/ Correct
  PROVE  SupRight'
<1> DEFINE g == supGoal
<1>1. g \in SupGoals
  BY DbShape
<1>2. CASE ChangeEnvelope
  <2>1. supGoal' = [g EXCEPT !.env = @ + 1] /\ db' = db /\ tick' = tick
    BY <1>2 DEF ChangeEnvelope
  <2>2. [g EXCEPT !.env = @ + 1] \in SupGoals
    <3> DEFINE n == g.env + 1
    <3>1. n \in Nat
      BY <1>1 DEF SupGoals
    <3> HIDE DEF n, g
    <3>2. [g EXCEPT !.env = n] \in SupGoals
      BY <1>1, <3>1 DEF SupGoals
    <3> QED
      BY <3>2 DEF n
  <2> QED
    BY <2>1, <2>2, GoalOnly
<1>3. CASE Correct
  <2>1. supGoal' = [g EXCEPT !.instr = @ + 1, !.status = "running"] /\ db' = db /\ tick' = tick
    BY <1>3 DEF Correct
  <2>2. [g EXCEPT !.instr = @ + 1, !.status = "running"] \in SupGoals
    <3> DEFINE n == g.instr + 1
    <3>1. n \in Nat
      BY <1>1 DEF SupGoals
    <3> HIDE DEF n, g
    <3>2. [g EXCEPT !.instr = n, !.status = "running"] \in SupGoals
      BY <1>1, <3>1 DEF SupGoals
    <3> QED
      BY <3>2 DEF n
  <2> QED
    BY <2>1, <2>2, GoalOnly
<1> QED
  BY <1>2, <1>3

\* Every step of a tick keeps the invariant.
LEMMA TickStepKeeps ==
  ASSUME SupRight, NEW w \in Ticks, TickStep(w)
  PROVE  SupRight'
<1>1. CASE DriveRaises(w)
  <2>1. supGoal' \in SupGoals /\ Raises(w)
    BY <1>1, DbShape DEF DriveRaises
  <2> QED
    BY <2>1, RaisesKeeps
<1>2. CASE StopTick(w) \/ StopsRunning(w) \/ CancelReturns(w)
  <2>1. tick[w].at # "dispatched" /\ Ends(w, View(w)) /\ supGoal' = supGoal
    BY <1>2 DEF StopTick, StopsRunning, CancelReturns
  <2> QED
    BY <2>1, StopKeeps
<1>3. CASE ReadEligible(w)
  BY <1>3, ReadEligibleKeeps
<1>4. CASE ClaimGoal(w)
  BY <1>4, ClaimGoalKeeps
<1>5. CASE DispatchChosen(w)
  BY <1>5, DispatchChosenKeeps
<1>6. CASE ResumeChosen(w)
  BY <1>6, ResumeKeeps
<1>7. CASE Prepare(w)
  BY <1>7, PrepareKeeps
<1>8. CASE WaitsForProvider(w)
  BY <1>8, WaitsKeeps
<1>9. CASE CapabilityIsMissing(w)
  BY <1>9, CapabilityKeeps
<1>10. CASE DriverFails(w)
  BY <1>10, FailsKeeps
<1>11. CASE DriverCompletes(w)
  BY <1>11, CompletesKeeps
<1>12. CASE DriverCancels(w)
  BY <1>12, CancelsKeeps
<1>13. CASE Reassess(w)
  BY <1>13, ReassessKeeps
<1>14. CASE BlindEnds(w)
  BY <1>14, BlindEndsKeeps
<1> QED
  BY <1>1, <1>2, <1>3, <1>4, <1>5, <1>6, <1>7, <1>8, <1>9, <1>10, <1>11, <1>12, <1>13, <1>14
     DEF TickStep

\* Every step of the system keeps it.
LEMMA SupStep ==
  SupRight /\ [SupervisorNext]_supVars => SupRight'
<1> SUFFICES ASSUME SupRight, [SupervisorNext]_supVars
             PROVE  SupRight'
  OBVIOUS
<1>1. ASSUME NEW w \in Ticks, TickStep(w)
      PROVE  SupRight'
  BY <1>1, TickStepKeeps
<1>2. ASSUME NEW w \in Ticks, ClaimNext(w)
      PROVE  SupRight'
  BY <1>2, ClaimNextKeeps
<1>3. CASE WakeDue
  BY <1>3, WakeKeeps
<1>4. CASE DeclineTakeover
  BY <1>4, TakeoverKeeps
<1>5. CASE LeaseExpires
  <2>1. /\ db' = [db EXCEPT !.lease[1].lapsed = TRUE]
        /\ tick' = tick /\ supGoal' = supGoal
    BY <1>5 DEF LeaseExpires
  <2> QED
    BY <2>1, LapseKeeps
<1>6. CASE ChangeEnvelope \/ Correct
  BY <1>6, FounderKeeps
<1>7. CASE RequestCancel
  BY <1>7, RequestCancelKeeps
<1>8. CASE KillTick
  <2>1. PICK w \in Ticks : Raises(w)
    BY <1>8 DEF KillTick
  <2>2. supGoal' \in SupGoals
    BY <1>8, DbShape DEF KillTick
  <2> QED
    BY <2>1, <2>2, RaisesKeeps
<1>9. CASE Stall
  BY <1>9, StallKeeps
<1>10. CASE UNCHANGED supVars
  <2>1. supGoal' = supGoal /\ db' = db /\ tick' = tick
    BY <1>10 DEF supVars
  <2>2. supGoal' \in SupGoals
    BY <2>1, DbShape
  <2> QED
    BY <2>1, <2>2, GoalOnly
<1> QED
  BY <1>1, <1>2, <1>3, <1>4, <1>5, <1>6, <1>7, <1>8, <1>9, <1>10 DEF SupervisorNext

-----------------------------------------------------------------------------
(* The invariant holds, and what it says                                   *)

\* It holds at the start.
LEMMA SupBegins ==
  SupervisorInit => SupRight
<1> SUFFICES ASSUME SupervisorInit
             PROVE  SupRight
  OBVIOUS
<1>1. PICK rows \in WorkLists :
        db = [task |-> [i \in DOMAIN rows |-> WorkTask(rows[i])],
              job |-> Empty, lease |-> Row(1, Lease(NoWorker))]
  BY DEF SupervisorInit
<1> DEFINE tt == [i \in DOMAIN rows |-> WorkTask(rows[i])]
           ll == Row(1, Lease(NoWorker))
           W == [prio : Nat, fit : BOOLEAN, independent : BOOLEAN, reverify : BOOLEAN]
<1>2. rows \in Seq(W)
  BY WorksAssumption
<1>3. \A i \in DOMAIN rows :
        /\ tt[i] \in SupTasks /\ tt[i].job = 0 /\ tt[i].parent = 0
        /\ tt[i].status = "ready"
  <2> TAKE i \in DOMAIN rows
  <2>1. rows[i] \in W
    <3> HIDE DEF W, tt
    <3> QED
      BY <1>2
  <2>2. tt[i] = WorkTask(rows[i])
    OBVIOUS
  <2> DEFINE x == rows[i]
  <2> HIDE DEF x, tt
  <2>3. WorkTask(x) \in SupTasks
    BY <2>1 DEF x, WorkTask, SupTasks, SupTaskStatuses, SupTerminal
  <2>4. WorkTask(x).job = 0 /\ WorkTask(x).parent = 0 /\ WorkTask(x).status = "ready"
    BY DEF WorkTask
  <2> QED
    BY <2>2, <2>3, <2>4 DEF x
<1>4. tt \in Seq(SupTasks) /\ DOMAIN tt = DOMAIN rows
  <2>1. DOMAIN rows = 1..Len(rows) /\ Len(rows) \in Nat
    BY <1>2
  <2>2. tt \in [1..Len(rows) -> SupTasks]
    BY <1>3, <2>1
  <2> HIDE DEF tt
  <2> QED
    BY <2>1, <2>2
<1>5. db.task = tt /\ db.job = Empty /\ db.lease = ll
      /\ db = [task |-> tt, job |-> Empty, lease |-> ll]
  BY <1>1
<1>6. DOMAIN ll = {1} /\ ll[1] \in SupLeases
  <2>1. Lease(NoWorker) \in SupLeases
    BY DEF Lease, SupLeases
  <2> QED
    BY <2>1 DEF Row
<1>7. DOMAIN tick = Ticks /\ \A w \in Ticks : tick[w] = IdleTick
  BY DEF SupervisorInit
<1>8. supGoal \in SupGoals
  BY DEF SupervisorInit, SupGoals
<1> HIDE DEF tt, ll
<1>9. Empty \in Seq(SupJobs) /\ DOMAIN Empty = {}
  BY DEF Empty
<1>10. DbRight(tt, Empty)
  BY <1>3, <1>4, <1>9 DEF DbRight, LetGo
<1>11. /\ OwnLease(IdleTick) /\ BoundIn(IdleTick, tt) /\ IsTick(IdleTick)
       /\ IdleTick.at = "idle" /\ DOMAIN IdleTick.mine.task = {}
       /\ DOMAIN IdleTick.mine.job = {} /\ DOMAIN IdleTick.mine.lease = {}
  BY IdleIs DEF OwnLease
<1>12. TasksOf(IdleTick, tt) = tt /\ JobsOf(IdleTick, Empty) = Empty
  <2>1. ASSUME NEW own, NEW S, NEW all \in Seq(S), DOMAIN own = {}
        PROVE  Over(own, all) = all
    <3>1. Over(own, all) = [i \in DOMAIN all |-> all[i]]
      BY <2>1 DEF Over
    <3> QED
      BY <3>1
  <2> QED
    BY <1>4, <1>9, <1>11, <2>1 DEF TasksOf, JobsOf
<1>13. \A w \in Ticks : TickRight(tt, Empty, w, IdleTick)
  BY <1>4, <1>9, <1>11, <1>12 DEF TickRight, ViewRight, AtHand, SupMoments
<1>14. Apart(tt, tick)
  BY <1>7, <1>11 DEF Apart
<1>15. \A s \in DOMAIN tt : RepairsRight(tt, tick, s)
  <2> TAKE s \in DOMAIN tt
  <2>1. s # 0
    BY <1>4
  <2>2. OpenRepairs(tt, s) = {}
    BY <1>3, <1>4, <2>1 DEF OpenRepairs
  <2>3. \A w \in Ticks : ~Reassesses(tt, tick[w], s) /\ TasksOf(tick[w], tt)[s] = tt[s]
    BY <1>7, <1>11, <1>12 DEF Reassesses
  <2> QED
    BY <2>2, <2>3 DEF RepairsRight, NoRepair
<1>16. Right(tt, Empty, tick)
  BY <1>7, <1>10, <1>13, <1>14, <1>15 DEF Right
<1> QED
  BY <1>5, <1>6, <1>7, <1>8, <1>11, <1>16 DEF SupRight

\* SupRight is an invariant of the Supervisor.
LEMMA SupRightHolds == SupervisorSpec => []SupRight
<1> QED
  BY SupBegins, SupStep, PTL DEF SupervisorSpec

\* Its rows have the types the source gives them.
LEMMA SupTypes == SupRight => SupTypeOK
<1> SUFFICES ASSUME SupRight
             PROVE  SupTypeOK
  OBVIOUS
<1>1. supGoal.status \in {"running", "completed", "failed"}
  BY DbShape DEF SupGoals
<1>2. /\ \A t \in DOMAIN db.task : db.task[t].status \in SupTaskStatuses
      /\ \A j \in DOMAIN db.job : db.job[j].status \in SupJobStatuses
      /\ db.lease[1].by \in Ticks \cup {NoWorker}
  BY DbShape DEF SupTasks, SupJobs, SupLeases
<1>3. \A w \in Ticks : /\ tick[w].at \in SupMoments
                       /\ tick[w].at = "driving" => Job(w, View(w)) # 0
  <2> TAKE w \in Ticks
  <2>1. TickRight(db.task, db.job, w, tick[w])
    BY DbShape DEF Right
  <2>2. View(w).task = TasksOf(tick[w], db.task)
    BY ViewIs
  <2> QED
    BY <2>1, <2>2 DEF TickRight, AtHand, HandRight, Job
<1> QED
  BY <1>1, <1>2, <1>3 DEF SupTypeOK, SupMoments

\* Two driving ticks would both have the lease row locked.
LEMMA SupOneDriver == SupRight => OneDriver
<1> SUFFICES ASSUME SupRight, NEW w \in Ticks, NEW x \in Ticks,
                    tick[w].at = "driving", tick[x].at = "driving", w # x
             PROVE  FALSE
  BY DEF OneDriver
<1>1. 1 \in DOMAIN tick[w].mine.lease /\ 1 \in DOMAIN tick[x].mine.lease
  BY DbShape DEF Right, TickRight
<1>2. DOMAIN tick[w].mine.lease \cap DOMAIN tick[x].mine.lease = {}
  BY DbShape DEF Right, Apart
<1> QED
  BY <1>1, <1>2

\* NoBlindRun, in terms of the tables.
LEMMA BlindRuns == \A t : NoBlindRun(t) <=> NoBlind(db.task, db.job, t)
BY DEF NoBlindRun, NoBlind

\* One repair open per source.
LEMMA SupOneRepair == SupRight => OneOpenRepair
<1> SUFFICES ASSUME SupRight, NEW t \in DOMAIN db.task, NEW u \in DOMAIN db.task,
                    db.task[t].parent # 0, db.task[t].parent = db.task[u].parent,
                    {db.task[t].status, db.task[u].status} \cap SupTerminal = {},
                    NoBlindRun(db.task[t].parent)
             PROVE  t = u
  BY DEF OneOpenRepair
<1> DEFINE tt == db.task
           s == tt[t].parent
<1>1. s \in DOMAIN tt
  <2>1. s \in 1..(t - 1) /\ DOMAIN tt = 1..Len(tt) /\ Len(tt) \in Nat
    BY DbShape DEF DbRight
  <2> QED
    BY <2>1
<1>2. RepairsRight(tt, tick, s)
  <2>1. NoBlind(tt, db.job, s)
    BY BlindRuns
  <2> QED
    BY <1>1, <2>1, DbShape DEF Right
<1>3. t \in OpenRepairs(tt, s) /\ u \in OpenRepairs(tt, s)
  BY DEF OpenRepairs, Settled
<1> QED
  BY <1>2, <1>3 DEF RepairsRight

\* What waits for the provider has let its job go.
LEMMA SupParked == SupRight => ParkedIsReleased
<1> SUFFICES ASSUME SupRight, NEW t \in DOMAIN db.task,
                    db.task[t].why = "provider", db.task[t].status = "blocked",
                    db.task[t].job # 0
             PROVE  db.job[db.task[t].job].status \notin {"queued", "running"}
  BY DEF ParkedIsReleased
<1>1. Settled(db.job[db.task[t].job])
  BY DbShape DEF DbRight, LetGo
<1> QED
  BY <1>1 DEF Settled, SupTerminal

\* Along a lineage the depth rises by one from a repair to its repair.
LEMMA SupLineages == SupRight => LineageBounded
<1> SUFFICES ASSUME SupRight, NEW line \in [0..(MaxDepth + 1) -> DOMAIN db.task],
                    \A i \in 1..(MaxDepth + 1) : db.task[line[i]].parent = line[i - 1]
             PROVE  FALSE
  BY DEF LineageBounded
<1> DEFINE tt == db.task
           Deep(i) == i \in 1..(MaxDepth + 1) => tt[line[i]].depth >= i - 1
<1>1. MaxDepth \in Nat
  BY SupervisorBounds
<1>2. \A t \in DOMAIN tt : /\ t # 0 /\ tt[t].depth \in Nat
                           /\ tt[t].parent # 0 => /\ tt[t].depth < MaxDepth
                                                  /\ tt[t].depth = GapOf(tt, tt[t].parent)
  <2> TAKE t \in DOMAIN tt
  <2>1. t # 0 /\ tt[t] \in SupTasks
    BY DbShape
  <2>2. tt[t].depth \in Nat
    BY <2>1 DEF SupTasks
  <2> QED
    BY <2>1, <2>2, DbShape DEF DbRight
<1>3. \A i \in 1..(MaxDepth + 1) :
        /\ line[i] \in DOMAIN tt /\ tt[line[i]].parent # 0
        /\ tt[line[i]].depth < MaxDepth
        /\ tt[line[i]].depth = GapOf(tt, line[i - 1])
  <2> TAKE i \in 1..(MaxDepth + 1)
  <2>1. i \in 0..(MaxDepth + 1) /\ i - 1 \in 0..(MaxDepth + 1)
    BY <1>1
  <2>2. line[i] \in DOMAIN tt /\ line[i - 1] \in DOMAIN tt
    BY <2>1
  <2> QED
    BY <1>2, <2>2
<1>4. \A n \in Nat : Deep(n)
  <2> DEFINE Shallow == {n \in Nat : ~Deep(n)}
             less == {s \in Nat \X Nat : s[1] < s[2]}
  <2> SUFFICES ASSUME Shallow # {}
               PROVE  FALSE
    OBVIOUS
  <2>1. IsWellFoundedOn(less, Nat)
    BY NatLessThanWellFounded DEF OpToRel
  <2>2. PICK n \in Shallow : \A m \in Shallow : <<m, n>> \notin less
    <3>1. Shallow \subseteq Nat
      OBVIOUS
    <3> HIDE DEF Shallow, less
    <3> QED
      BY <2>1, <3>1, WFMin
  <2>3. n \in 1..(MaxDepth + 1) /\ ~(tt[line[n]].depth >= n - 1)
    OBVIOUS
  <2>4. tt[line[n]].depth \in Nat
    BY <1>2, <1>3, <2>3
  <2>5. n \in Nat /\ n > 1
    BY <1>1, <2>3, <2>4
  <2>6. Deep(n - 1)
    <3>1. n - 1 \in Nat /\ <<n - 1, n>> \in less
      BY <2>5
    <3> QED
      BY <2>2, <3>1
  <2>7. n - 1 \in 1..(MaxDepth + 1)
    BY <1>1, <2>3, <2>5
  <2>8. tt[line[n - 1]].depth >= n - 2
    <3>1. (n - 1) - 1 = n - 2
      BY <2>5
    <3> QED
      BY <2>6, <2>7, <3>1
  <2>9. tt[line[n]].depth = tt[line[n - 1]].depth + 1
    BY <1>3, <2>3, <2>7 DEF GapOf
  <2>10. tt[line[n - 1]].depth \in Nat
    BY <1>2, <1>3, <2>7
  <2> QED
    BY <2>3, <2>5, <2>8, <2>9, <2>10
<1>5. MaxDepth + 1 \in 1..(MaxDepth + 1) /\ MaxDepth + 1 \in Nat
  BY <1>1
<1>6. tt[line[MaxDepth + 1]].depth >= MaxDepth
  BY <1>1, <1>4, <1>5
<1>7. tt[line[MaxDepth + 1]].depth < MaxDepth /\ tt[line[MaxDepth + 1]].depth \in Nat
  BY <1>2, <1>3, <1>5
<1> QED
  BY <1>1, <1>6, <1>7

-----------------------------------------------------------------------------
(* What CompletedByItsJob asks of every step                               *)

\* What CompletedByItsJob says of one step.
ByItsJob ==
  \A t \in DOMAIN db.task :
    LET old == db.task[t]
        new == db'.task[t]
    IN  NoBlindRun(t) =>
        /\ old.status = "completed" => new = old
        /\ \A w \in Ticks :
             (old.status # new.status /\ new.status = "completed"
                /\ tick[w].at = "driving" /\ tick'[w].at = "completed")
             => old.status = "running"
Spares(vt) ==
  \A t \in DOMAIN db.task :
    NoBlindRun(t) /\ db.task[t].status = "completed" => vt[t] = db.task[t]
Unanswered ==
  \A w \in Ticks : tick[w].at = "driving" => tick'[w].at # "completed"

\* A step of one tick leaves the others where they are.
LEMMA OneTickOnly ==
  ASSUME SupRight, NEW w \in Ticks, NEW q, tick' = [tick EXCEPT ![w] = q],
         q.at # "completed" \/ tick[w].at # "driving"
  PROVE  Unanswered
<1>1. tick'[w] = q /\ \A x \in Ticks \ {w} : tick'[x] = tick[x]
  BY DbShape
<1>2. \A x \in Ticks \ {w} : tick[x].at = "driving" => tick'[x].at # "completed"
  BY <1>1
<1> QED
  BY <1>1, <1>2 DEF Unanswered

\* What a tick has read of a task that is over is the committed row.
LEMMA ViewSpares ==
  ASSUME SupRight, NEW w \in Ticks
  PROVE  /\ Spares(View(w).task)
         /\ \A t \in DOMAIN db.task :
              Settled(View(w).task[t]) => View(w).task[t] = db.task[t]
         /\ DOMAIN db.task \subseteq DOMAIN View(w).task
         /\ View(w).task \in Seq(SupTasks)
<1> DEFINE vt == TasksOf(tick[w], db.task)
           vj == JobsOf(tick[w], db.job)
<1>1. View(w).task = vt
  BY ViewIs
<1>2. ViewRight(db.task, db.job, w, vt, vj, HandOf(tick[w]))
  BY ViewWrites DEF WriteRight
<1> HIDE DEF vt, vj
<1>3. \A t \in DOMAIN db.task : vt[t] # db.task[t] => ~Settled(vt[t]) /\ ~Settled(db.task[t])
  BY <1>2 DEF ViewRight, OwnTask
<1>4. DOMAIN db.task \subseteq DOMAIN vt /\ vt \in Seq(SupTasks)
  BY <1>2 DEF ViewRight
<1> QED
  BY <1>1, <1>3, <1>4 DEF Spares, Settled, SupTerminal

\* A tick that ends spares the completed tasks.
LEMMA EndsSpares ==
  ASSUME SupRight, NEW w \in Ticks, NEW vt, NEW vj, NEW vl,
         Ends(w, [task |-> vt, job |-> vj, lease |-> vl])
  PROVE  db'.task = vt /\ Unanswered
<1> DEFINE v == [task |-> vt, job |-> vj, lease |-> vl]
<1>1. LeaseReleased(w, v).task = vt
  BY DEF LeaseReleased
<1>2. [IdleTick EXCEPT !.mine = NoRows].at = "idle"
  BY DEF IdleTick
<1>3. /\ db' = LeaseReleased(w, v)
      /\ tick' = [tick EXCEPT ![w] = [IdleTick EXCEPT !.mine = NoRows]]
  BY DEF Ends, Commits
<1>4. Unanswered
  <2> DEFINE q == [IdleTick EXCEPT !.mine = NoRows]
  <2>1. q.at # "completed"
    BY <1>2
  <2> HIDE DEF q
  <2>2. tick' = [tick EXCEPT ![w] = q]
    BY <1>3 DEF q
  <2> QED
    BY <2>1, <2>2, OneTickOnly
<1>5. db'.task = LeaseReleased(w, v).task
  BY <1>3
<1> QED
  BY <1>1, <1>4, <1>5

\* A tick that goes on spares them.
LEMMA GoesSpares ==
  ASSUME SupRight, NEW w \in Ticks, NEW t, NEW v, IsTick(t), Goes(w, t, v),
         t.at # "completed" \/ tick[w].at # "driving"
  PROVE  db' = db /\ Unanswered
<1> DEFINE m == [Written(v) EXCEPT !.lease = Over(@, t.mine.lease)]
           q == [t EXCEPT !.mine = m]
<1>1. tick' = [tick EXCEPT ![w] = q] /\ db' = db
  BY DEF Goes
<1>2. q.at = t.at
  <2>1. q = [t EXCEPT !.mine = m]
    OBVIOUS
  <2>2. t = [at |-> t.at, env |-> t.env, instr |-> t.instr, bound |-> t.bound,
             task |-> t.task, deferred |-> t.deferred, ran |-> t.ran, mine |-> t.mine]
    BY DEF IsTick
  <2> HIDE DEF q, m
  <2>3. q = [at |-> t.at, env |-> t.env, instr |-> t.instr, bound |-> t.bound,
             task |-> t.task, deferred |-> t.deferred, ran |-> t.ran, mine |-> m]
    BY <2>1, <2>2
  <2> QED
    BY <2>3
<1> HIDE DEF q
<1> QED
  BY <1>1, <1>2, OneTickOnly

\* A tick that raises spares them.
LEMMA RaisesSpares ==
  ASSUME SupRight, NEW w \in Ticks, Raises(w)
  PROVE  db' = db /\ Unanswered
<1>1. tick' = [tick EXCEPT ![w] = IdleTick] /\ db' = db
  BY DEF Raises
<1>2. IdleTick.at # "completed"
  BY DEF IdleTick
<1> QED
  BY <1>1, <1>2, OneTickOnly

\* A deferral spares them.
LEMMA AsideSpares ==
  ASSUME SupRight, NEW w \in Ticks, NEW vt, NEW vj, NEW vl,
         PutAside(w, [task |-> vt, job |-> vj, lease |-> vl])
  PROVE  (db'.task = vt \/ db' = db) /\ Unanswered
<1> DEFINE v == [task |-> vt, job |-> vj, lease |-> vl]
           r == tick[w]
           i == r.task
           d == r.deferred \cup {i}
           t == Deferred(r, i)
<1>1. CASE Ends(w, v)
  BY <1>1, EndsSpares
<1>2. CASE Goes(w, t, v)
  <2>1. IsTick(t) /\ t.at = "loop"
    <3>1. t = [r EXCEPT !.deferred = d, !.at = "loop"]
      BY DEF Deferred
    <3>2. r = [at |-> r.at, env |-> r.env, instr |-> r.instr, bound |-> r.bound,
               task |-> r.task, deferred |-> r.deferred, ran |-> r.ran, mine |-> r.mine]
      BY DEF SupRight, IsTick
    <3> HIDE DEF r, d, t
    <3>3. t = [at |-> "loop", env |-> r.env, instr |-> r.instr, bound |-> r.bound,
               task |-> r.task, deferred |-> d, ran |-> r.ran, mine |-> r.mine]
      BY <3>1, <3>2
    <3> QED
      BY <3>3 DEF IsTick
  <2> HIDE DEF t
  <2> QED
    BY <1>2, <2>1, GoesSpares
<1> QED
  BY <1>1, <1>2 DEF PutAside

\* A step that spares them does what CompletedByItsJob asks.
LEMMA StepSpared ==
  ASSUME Spares(db'.task) \/ db' = db, Unanswered
  PROVE  ByItsJob
<1> DEFINE tt == db.task
           vt == db'.task
<1>1. \A t \in DOMAIN tt : NoBlindRun(t) /\ tt[t].status = "completed" => vt[t] = tt[t]
  BY DEF Spares
<1>2. \A w \in Ticks : ~(tick[w].at = "driving" /\ tick'[w].at = "completed")
  BY DEF Unanswered
<1> HIDE DEF tt, vt
<1> QED
  BY <1>1, <1>2 DEF ByItsJob, tt, vt

\* One row of what a tick has written changes, of a task that is not over.
LEMMA RowSpares ==
  ASSUME SupRight, NEW w \in Ticks, NEW t \in DOMAIN db.task, NEW row,
         db.task[t].status = "completed" /\ NoBlindRun(t) => row = View(w).task[t]
  PROVE  Spares([View(w).task EXCEPT ![t] = row])
<1> DEFINE vt == View(w).task
           pt == [vt EXCEPT ![t] = row]
<1>1. /\ \A i \in DOMAIN db.task : db.task[i].status = "completed" /\ NoBlindRun(i) => vt[i] = db.task[i]
      /\ DOMAIN db.task \subseteq DOMAIN vt
  BY ViewSpares DEF Spares
<1>2. pt[t] = row /\ \A i \in DOMAIN db.task : i # t => pt[i] = vt[i]
  BY <1>1
<1> HIDE DEF pt, vt
<1>3. Spares(pt)
  BY <1>1, <1>2 DEF Spares, vt
<1> QED
  BY <1>3 DEF pt, vt

\* Waiting for the provider spares them.
LEMMA WaitsSpares ==
  ASSUME SupRight, NEW w \in Ticks, WaitsForProvider(w)
  PROVE  (Spares(db'.task) \/ db' = db) /\ Unanswered
<1> DEFINE vt == TasksOf(tick[w], db.task)
           vj == JobsOf(tick[w], db.job)
           vl == View(w).lease
           v == [task |-> vt, job |-> vj, lease |-> vl]
           t == tick[w].task
           j == vt[t].job
           new == IF vt[t].status = "running"
                  THEN [vt[t] EXCEPT !.status = "blocked", !.why = "provider"] ELSE vt[t]
           gone == ReleasedJob(w, vj[j])
           pt == [vt EXCEPT ![t] = new]
           pj == [vj EXCEPT ![j] = gone]
<1>1. View(w) = v /\ v.task = vt /\ v.job = vj /\ v.lease = vl /\ View(w).task = vt
  BY ViewIs
<1>2. PutAside(w, ParkedFor(w, v, "provider")) /\ tick[w].at = "driving"
  BY <1>1 DEF WaitsForProvider
<1>3. Job(w, v) = j
  BY <1>1 DEF Job
<1>4. t \in DOMAIN db.task
  BY <1>2, DrivingHas DEF HandRight
<1>5. CASE ParkedFor(w, v, "provider") = v
  <2> HIDE DEF vt, vj, vl
  <2>1. (db'.task = vt \/ db' = db) /\ Unanswered
    BY <1>2, <1>5, AsideSpares
  <2> QED
    BY <1>1, <2>1, ViewSpares
<1>6. CASE ParkedFor(w, v, "provider") # v
  <2>1. ParkedFor(w, v, "provider") = [task |-> pt, job |-> pj, lease |-> vl]
    <3>1. ParkedFor(w, v, "provider") =
            [v EXCEPT !.job[j] = ReleasedJob(w, @),
                      !.task[t] = IF @.status = "running"
                                  THEN [@ EXCEPT !.status = "blocked", !.why = "provider"]
                                  ELSE @]
      BY <1>3, <1>6 DEF ParkedFor
    <3>2. [v EXCEPT !.job[j] = ReleasedJob(w, @),
                      !.task[t] = IF @.status = "running"
                                  THEN [@ EXCEPT !.status = "blocked", !.why = "provider"]
                                  ELSE @]
          = [v EXCEPT !.job[j] = gone, !.task[t] = new]
      OBVIOUS
    <3> HIDE DEF new, gone
    <3>3. [v EXCEPT !.job[j] = gone, !.task[t] = new] = [task |-> pt, job |-> pj, lease |-> vl]
      <4> HIDE DEF vt, vj, vl, t, j
      <4> DEFINE u == [v EXCEPT !.job[j] = gone]
      <4>1. u = [task |-> vt, job |-> pj, lease |-> vl]
        OBVIOUS
      <4> HIDE DEF u, pj
      <4>2. [u EXCEPT !.task[t] = new] = [task |-> pt, job |-> pj, lease |-> vl]
        BY <4>1
      <4> QED
        BY <4>2, Zenon DEF u
    <3> HIDE DEF v, t, j, pt, pj
    <3> QED
      BY <3>1, <3>2, <3>3
  <2>2. db.task[t].status = "completed" => new = vt[t]
    <3>1. db.task[t].status = "completed" => vt[t] = db.task[t]
      <4>1. ViewRight(db.task, db.job, w, vt, vj, HandOf(tick[w]))
        BY ViewWrites DEF WriteRight
      <4> HIDE DEF vt, vj
      <4> QED
        BY <1>4, <4>1 DEF ViewRight, OwnTask, Settled, SupTerminal
    <3> HIDE DEF vt, t
    <3> QED
      BY <3>1
  <2> HIDE DEF new, gone
  <2>3. Spares(pt)
    BY <1>1, <1>4, <2>2, RowSpares
  <2> HIDE DEF pt, pj, vt, vj, vl
  <2>4. (db'.task = pt \/ db' = db) /\ Unanswered
    BY <1>2, <2>1, AsideSpares
  <2> QED
    BY <2>3, <2>4
<1> QED
  BY <1>5, <1>6

\* A failed drive spares them.
LEMMA FailsSpares ==
  ASSUME SupRight, NEW w \in Ticks, DriverFails(w)
  PROVE  (Spares(db'.task) \/ db' = db) /\ Unanswered
<1> DEFINE vt == TasksOf(tick[w], db.task)
           vj == JobsOf(tick[w], db.job)
           vl == View(w).lease
           v == [task |-> vt, job |-> vj, lease |-> vl]
           t == tick[w].task
           j == Job(w, v)
           child == [ChildTask(t, j, GapDepth(v, t)) EXCEPT !.reverify = vt[t].reverify]
           mt == IF SameGap(v, t, j) # {} THEN vt ELSE Append(vt, child)
           m == [task |-> mt, job |-> vj, lease |-> vl]
           u == [[mt EXCEPT ![t].status = "blocked"] EXCEPT ![t].why = "repair"]
<1>1. View(w) = v /\ v.task = vt /\ v.job = vj /\ v.lease = vl /\ View(w).task = vt
  BY ViewIs
<1>2. /\ tick[w].at = "driving"
      /\ PutAside(w, ParkedSource(WithChild(w, v), t)) \/ PutAside(w, v)
  BY <1>1 DEF DriverFails
<1>3. t \in DOMAIN db.task
  BY <1>2, DrivingHas DEF HandRight
<1>4. Spares(vt) /\ DOMAIN db.task \subseteq DOMAIN vt /\ vt \in Seq(SupTasks)
  BY <1>1, ViewSpares
<1>5. CASE PutAside(w, v)
  <2> HIDE DEF vt, vj, vl
  <2>1. (db'.task = vt \/ db' = db) /\ Unanswered
    BY <1>5, AsideSpares
  <2> QED
    BY <1>4, <2>1
<1>6. CASE PutAside(w, ParkedSource(WithChild(w, v), t))
  <2>1. WithChild(w, v) = m
    <3>1. WithChild(w, v) = IF SameGap(v, t, j) # {} THEN v
                            ELSE [v EXCEPT !.task = Append(vt, child)]
      BY <1>1 DEF WithChild
    <3> HIDE DEF child, vt, vj, vl, j
    <3>2. [v EXCEPT !.task = Append(vt, child)] = [task |-> Append(vt, child), job |-> vj, lease |-> vl]
      OBVIOUS
    <3> QED
      BY <3>1, <3>2
  <2>2. DOMAIN vt \subseteq DOMAIN mt /\ \A i \in DOMAIN vt : mt[i] = vt[i]
    <3> HIDE DEF child, vt, vj, vl, j
    <3>1. CASE SameGap(v, t, j) # {}
      BY <3>1
    <3>2. CASE SameGap(v, t, j) = {}
      <4>1. mt = Append(vt, child)
        BY <3>2
      <4>2. DOMAIN vt = 1..Len(vt) /\ Len(vt) \in Nat
        BY <1>4
      <4> HIDE DEF mt
      <4>3. Len(mt) = Len(vt) + 1 /\ DOMAIN mt = 1..Len(mt)
        BY <1>4, <4>1
      <4>4. \A i \in DOMAIN vt : mt[i] = vt[i]
        BY <1>4, <4>1
      <4> QED
        BY <4>2, <4>3, <4>4
    <3> QED
      BY <3>1, <3>2
  <2> HIDE DEF child, mt
  <2>3. Spares(mt)
    <3> HIDE DEF vt
    <3> QED
      BY <1>4, <2>2 DEF Spares
  <2>4. m.task = mt /\ m.job = vj /\ m.lease = vl
    OBVIOUS
  <2>5. CASE mt[t].status \in SupTerminal
    <3>1. ParkedSource(m, t) = m
      BY <2>4, <2>5 DEF ParkedSource
    <3> HIDE DEF vj, vl
    <3>2. (db'.task = mt \/ db' = db) /\ Unanswered
      BY <1>6, <2>1, <3>1, AsideSpares
    <3> QED
      BY <2>3, <3>2
  <2>6. CASE mt[t].status \notin SupTerminal
    <3>1. ParkedSource(m, t) =
            [m EXCEPT !.task[t].status = "blocked", !.task[t].why = "repair"]
      BY <2>4, <2>6 DEF ParkedSource
    <3>2. [m EXCEPT !.task[t].status = "blocked", !.task[t].why = "repair"] = [m EXCEPT !.task = u]
      OBVIOUS
    <3>3. \A i \in DOMAIN db.task : i # t => u[i] = mt[i]
      <4> HIDE DEF vt
      <4>1. DOMAIN db.task \subseteq DOMAIN mt
        BY <1>4, <2>2
      <4> QED
        BY <4>1
    <3> HIDE DEF u, vj, vl
    <3>4. ParkedSource(WithChild(w, v), t) = [task |-> u, job |-> vj, lease |-> vl]
      <4>1. [m EXCEPT !.task = u] = [task |-> u, job |-> vj, lease |-> vl]
        OBVIOUS
      <4> QED
        BY <2>1, <3>1, <3>2, <4>1
    <3>5. (db'.task = u \/ db' = db) /\ Unanswered
      BY <1>6, <3>4, AsideSpares
    <3>6. Spares(u)
      <4>1. mt[t].status # "completed"
        BY <2>6 DEF SupTerminal
      <4> QED
        BY <1>3, <2>3, <3>3, <4>1 DEF Spares
    <3> QED
      BY <3>5, <3>6
  <2> QED
    BY <2>5, <2>6
<1> QED
  BY <1>2, <1>5, <1>6

\* A dispatch spares them.
LEMMA DispatchSpares ==
  ASSUME SupRight, NEW w \in Ticks, DispatchChosen(w)
  PROVE  Spares(db'.task) /\ Unanswered
<1> DEFINE vt == View(w).task
           nj == View(w).job
           vl == View(w).lease
<1>1. View(w) = [task |-> vt, job |-> nj, lease |-> vl]
  BY ViewIs
<1>2. PICK t \in Selected(w, View(w)) :
        /\ vt[t].status = "ready"
        /\ db' = [View(w) EXCEPT !.task[t].status = "running",
                                 !.job = Append(@, QueuedJob(t))]
        /\ \E q : tick' = [tick EXCEPT ![w] = q]
  BY DEF DispatchChosen
<1>3. tick[w].at # "driving"
  BY DEF DispatchChosen
<1>4. Unanswered
  BY <1>2, <1>3, OneTickOnly
<1> DEFINE row == [vt[t] EXCEPT !.status = "running"]
           pt == [vt EXCEPT ![t] = row]
           pj == Append(nj, QueuedJob(t))
<1>5. db'.task = pt
  <2>1. db' = [View(w) EXCEPT !.task = pt, !.job = pj]
    BY <1>2
  <2> DEFINE v == [task |-> vt, job |-> nj, lease |-> vl]
  <2>2. db' = [v EXCEPT !.task = pt, !.job = pj]
    BY <1>1, <2>1
  <2> HIDE DEF pt, pj, vt, nj, vl
  <2>3. db' = [task |-> pt, job |-> pj, lease |-> vl]
    BY <2>2
  <2> QED
    BY <2>3
<1> HIDE DEF row
<1>6. Spares(pt)
  <2>1. t \notin DOMAIN db.task \/ db.task[t].status # "completed"
    <3>1. Spares(vt) /\ \A i \in DOMAIN db.task : db.task[i].status = "completed" => vt[i] = db.task[i]
      <4>1. ViewRight(db.task, db.job, w, TasksOf(tick[w], db.task),
                      JobsOf(tick[w], db.job), HandOf(tick[w]))
        BY ViewWrites DEF WriteRight
      <4>2. vt = TasksOf(tick[w], db.task)
        BY ViewIs
      <4> QED
        BY <4>1, <4>2, ViewSpares DEF ViewRight, OwnTask, Settled, SupTerminal
    <3> QED
      BY <1>2, <3>1
  <2>2. \A i \in DOMAIN db.task : i # t => pt[i] = vt[i]
    <3>1. DOMAIN db.task \subseteq DOMAIN vt
      BY ViewSpares
    <3> HIDE DEF vt
    <3> QED
      BY <3>1
  <2>3. Spares(vt)
    BY ViewSpares
  <2> HIDE DEF pt, vt
  <2> QED
    BY <2>1, <2>2, <2>3 DEF Spares
<1> QED
  BY <1>4, <1>5, <1>6

\* The rows mark_completed and mark_cancelled commit.
LEMMA FinishIs ==
  ASSUME SupRight, NEW w \in Ticks, NEW st, NEW js, tick[w].at = "driving",
         Holds(w, View(w).job[Job(w, View(w))]),
         db' = [View(w) EXCEPT !.task[tick[w].task].status = st,
                               !.job[Job(w, View(w))].status = js]
  PROVE  /\ tick[w].task \in DOMAIN db.task
         /\ db'.task = [View(w).task EXCEPT ![tick[w].task] =
                          [View(w).task[tick[w].task] EXCEPT !.status = st]]
         /\ NoBlindRun(tick[w].task) => db.task[tick[w].task].status = "running"
<1> DEFINE vt == View(w).task
           nj == View(w).job
           vl == View(w).lease
           v == [task |-> vt, job |-> nj, lease |-> vl]
           t == tick[w].task
           j == Job(w, View(w))
           pt == [vt EXCEPT ![t] = [vt[t] EXCEPT !.status = st]]
           pj == [nj EXCEPT ![j].status = js]
<1>1. View(w) = v /\ vt = TasksOf(tick[w], db.task) /\ nj = JobsOf(tick[w], db.job)
  BY ViewIs
<1>2. HandRight(db.task, db.job, w, vt, nj, tick[w]) /\ j = vt[t].job
  BY <1>1, DrivingHas DEF Job
<1>3. db'.task = pt
  <2>1. db' = [v EXCEPT !.task = pt, !.job = pj]
    BY <1>1
  <2> HIDE DEF pt, pj, vt, nj, vl
  <2>2. db' = [task |-> pt, job |-> pj, lease |-> vl]
    BY <2>1
  <2>3. \A d : d = [task |-> pt, job |-> pj, lease |-> vl] => d.task = pt
    OBVIOUS
  <2> QED
    BY <2>2, <2>3
<1>4. NoBlindRun(t) => NoBlind(db.task, db.job, t)
  BY BlindRuns
<1> QED
  BY <1>2, <1>3, <1>4 DEF HandRight

\* The end of a drive spares the tasks it does not end.
LEMMA FinishSpares ==
  ASSUME SupRight, NEW w \in Ticks, NEW st, NEW js, tick[w].at = "driving",
         Holds(w, View(w).job[Job(w, View(w))]),
         db' = [View(w) EXCEPT !.task[tick[w].task].status = st,
                               !.job[Job(w, View(w))].status = js]
  PROVE  /\ Spares(db'.task)
         /\ \A t \in DOMAIN db.task :
              NoBlindRun(t) /\ db'.task[t] # db.task[t] /\ db'.task[t].status = "completed"
                => db.task[t].status = "running"
<1> DEFINE t == tick[w].task
           vt == View(w).task
           row == [vt[t] EXCEPT !.status = st]
           pt == [vt EXCEPT ![t] = row]
<1>1. /\ t \in DOMAIN db.task /\ db'.task = pt
      /\ NoBlindRun(t) => db.task[t].status = "running"
  BY FinishIs
<1> HIDE DEF row
<1>2. Spares(pt)
  <2>1. db.task[t].status = "completed" /\ NoBlindRun(t) => row = vt[t]
    BY <1>1
  <2> QED
    BY <1>1, <2>1, RowSpares
<1>3. \A i \in DOMAIN db.task :
        i # t => pt[i] = vt[i] /\ (Settled(vt[i]) => vt[i] = db.task[i])
  BY ViewSpares
<1> HIDE DEF pt, vt
<1>4. \A i \in DOMAIN db.task :
        NoBlindRun(i) /\ pt[i] # db.task[i] /\ pt[i].status = "completed"
          => db.task[i].status = "running"
  BY <1>1, <1>3 DEF Settled, SupTerminal
<1> QED
  BY <1>1, <1>2, <1>4

\* mark_completed completes a task that was running in its job.
LEMMA CompletesSpares ==
  ASSUME SupRight, NEW w \in Ticks, DriverCompletes(w)
  PROVE  ByItsJob
<1> DEFINE v == View(w)
           t == tick[w].task
           j == Job(w, v)
           st == IF v.task[t].status = "cancelled" THEN v.task[t].status
                 ELSE IF v.job[j].cancel THEN "cancelled" ELSE "completed"
           done == [v EXCEPT !.task[t].status =
                      IF @ = "cancelled" THEN @
                      ELSE IF v.job[j].cancel THEN "cancelled" ELSE "completed",
                      !.job[j].status = "completed"]
<1>1. tick[w].at = "driving"
  BY DEF DriverCompletes
<1>2. CASE Raises(w)
  BY <1>2, RaisesSpares, StepSpared
<1>3. CASE FencePasses(w, v.job[j]) /\ Commits(w, [tick[w] EXCEPT !.at = "completed"], done)
  <2>1. Holds(w, v.job[j])
    BY <1>3 DEF FencePasses
  <2>2. done = [v EXCEPT !.task[t].status = st, !.job[j].status = "completed"]
    BY ViewIs
  <2>3. db' = [View(w) EXCEPT !.task[tick[w].task].status = st,
                              !.job[Job(w, View(w))].status = "completed"]
    BY <1>3, <2>2 DEF Commits
  <2> HIDE DEF st
  <2>4. /\ Spares(db'.task)
        /\ \A i \in DOMAIN db.task :
             NoBlindRun(i) /\ db'.task[i] # db.task[i] /\ db'.task[i].status = "completed"
               => db.task[i].status = "running"
    BY <1>1, <2>1, <2>3, FinishSpares
  <2> DEFINE vt == db'.task
  <2>5. \A i \in DOMAIN db.task :
          /\ NoBlindRun(i) /\ db.task[i].status = "completed" => vt[i] = db.task[i]
          /\ NoBlindRun(i) /\ vt[i] # db.task[i] /\ vt[i].status = "completed"
               => db.task[i].status = "running"
    BY <2>4 DEF Spares
  <2> HIDE DEF vt
  <2>6. ByItsJob
    BY <2>5 DEF ByItsJob, vt
  <2> QED
    BY <2>6
<1> QED
  BY <1>2, <1>3 DEF DriverCompletes

\* mark_cancelled completes none.
LEMMA CancelsSpares ==
  ASSUME SupRight, NEW w \in Ticks, DriverCancels(w)
  PROVE  Spares(db'.task) /\ Unanswered
<1> DEFINE r == tick[w]
           q == [[r EXCEPT !.at = "cancelled"] EXCEPT !.mine = NoRows]
<1>1. /\ tick[w].at = "driving" /\ Holds(w, View(w).job[Job(w, View(w))])
      /\ db' = [View(w) EXCEPT !.task[tick[w].task].status = "cancelled",
                               !.job[Job(w, View(w))].status = "cancelled"]
      /\ tick' = [tick EXCEPT ![w] = q]
  BY DEF DriverCancels, Commits
<1>2. q.at = "cancelled"
  <2>1. r = [at |-> r.at, env |-> r.env, instr |-> r.instr, bound |-> r.bound,
             task |-> r.task, deferred |-> r.deferred, ran |-> r.ran, mine |-> r.mine]
    BY DEF SupRight, IsTick
  <2>2. q = [[r EXCEPT !.at = "cancelled"] EXCEPT !.mine = NoRows]
    OBVIOUS
  <2> HIDE DEF r, q
  <2>3. q = [at |-> "cancelled", env |-> r.env, instr |-> r.instr, bound |-> r.bound,
             task |-> r.task, deferred |-> r.deferred, ran |-> r.ran, mine |-> NoRows]
    BY <2>1, <2>2
  <2> QED
    BY <2>3
<1>3. Spares(db'.task)
  BY <1>1, FinishSpares
<1> HIDE DEF q
<1>4. Unanswered
  BY <1>1, <1>2, OneTickOnly
<1> QED
  BY <1>3, <1>4

\* A task whose job no blind run holds is not touched by the end of one.
LEMMA BlindSpares ==
  ASSUME SupRight, NEW w \in Ticks, BlindEnds(w)
  PROVE  Spares(db'.task) /\ Unanswered
<1> DEFINE tt == db.task
           jj == db.job
           vl == db.lease
           t == tick[w].task
           mine == {j \in DOMAIN jj : /\ jj[j].task = t /\ jj[j].blind /\ Holds(w, jj[j])}
<1>1. PICK passed \in BOOLEAN :
        db' = [db EXCEPT
                 !.job = [j \in DOMAIN @ |-> IF j \notin mine THEN @[j]
                            ELSE [@[j] EXCEPT !.status =
                                    IF passed THEN "completed" ELSE "failed"]],
                 !.task[t].status = IF @ = "cancelled" \/ mine = {} THEN @
                                    ELSE IF passed THEN "completed" ELSE "retryable"]
  BY DEF BlindEnds
<1> DEFINE st == IF tt[t].status = "cancelled" \/ mine = {} THEN tt[t].status
                 ELSE IF passed THEN "completed" ELSE "retryable"
           row == [tt[t] EXCEPT !.status = st]
           pt == [tt EXCEPT ![t] = row]
           pj == [j \in DOMAIN jj |-> IF j \notin mine THEN jj[j]
                                      ELSE [jj[j] EXCEPT !.status =
                                    IF passed THEN "completed" ELSE "failed"]]
<1>2. /\ db = [task |-> tt, job |-> jj, lease |-> vl]
      /\ \A i \in DOMAIN tt : tt[i] \in SupTasks
  BY DbShape
<1>3. db'.task = pt
  <2>1. db' = [db EXCEPT !.job = pj, !.task = pt]
    BY <1>1
  <2> HIDE DEF pt, pj, tt, jj, vl
  <2>2. db' = [task |-> pt, job |-> pj, lease |-> vl]
    BY <1>2, <2>1
  <2> QED
    BY <2>2
<1>4. ASSUME t \in DOMAIN tt, NoBlindRun(t)
      PROVE  row = tt[t]
  <2>1. mine = {}
    BY <1>4 DEF NoBlindRun
  <2>2. st = tt[t].status
    BY <2>1
  <2>3. tt[t] \in SupTasks
    BY <1>2, <1>4
  <2> HIDE DEF st, tt, t
  <2> QED
    BY <2>2, <2>3 DEF SupTasks
<1>5. Unanswered
  <2>1. IdleTick.at # "completed" /\ tick' = [tick EXCEPT ![w] = IdleTick]
    BY DEF IdleTick, BlindEnds
  <2> QED
    BY <2>1, OneTickOnly
<1> HIDE DEF row
<1>6. Spares(pt)
  <2>1. \A i \in DOMAIN tt : pt[i] = IF i = t THEN row ELSE tt[i]
    <3> HIDE DEF tt
    <3> QED
      OBVIOUS
  <2> HIDE DEF pt
  <2> QED
    BY <1>4, <2>1 DEF Spares
<1> QED
  BY <1>3, <1>5, <1>6

\* Every step of a tick does what CompletedByItsJob asks.
LEMMA TickStepSpares ==
  ASSUME SupRight, NEW w \in Ticks, TickStep(w)
  PROVE  ByItsJob
<1>1. CASE \E q : tick' = [tick EXCEPT ![w] = q] /\ db' = db /\ tick[w].at # "driving"
  BY <1>1, OneTickOnly, StepSpared
<1>2. CASE ReadEligible(w)
  <2>1. /\ tick' = [tick EXCEPT ![w] = [[tick[w] EXCEPT !.at = "eligible"] EXCEPT !.env = supGoal.env]]
        /\ db' = db /\ tick[w].at # "driving"
    BY <1>2, DbShape DEF ReadEligible
  <2> QED
    BY <1>1, <2>1
<1>3. CASE ClaimGoal(w)
  <2>1. /\ \E q : tick' = [tick EXCEPT ![w] = q]
        /\ db' = db /\ tick[w].at # "driving"
    BY <1>3 DEF ClaimGoal, Goes, Raises
  <2> QED
    BY <1>1, <2>1
<1>4. CASE ResumeChosen(w)
  <2>1. /\ \E q : tick' = [tick EXCEPT ![w] = q]
        /\ db' = db /\ tick[w].at # "driving"
    BY <1>4 DEF ResumeChosen, Goes, Raises
  <2> QED
    BY <1>1, <2>1
<1>5. CASE Prepare(w)
  <2>1. /\ \E q : tick' = [tick EXCEPT ![w] = q]
        /\ db' = db /\ tick[w].at # "driving"
    BY <1>5 DEF Prepare, Raises
  <2> QED
    BY <1>1, <2>1
<1>6. CASE Reassess(w)
  <2>1. /\ \E q : tick' = [tick EXCEPT ![w] = q]
        /\ db' = db /\ tick[w].at # "driving"
    BY <1>6 DEF Reassess, Goes, Raises
  <2> QED
    BY <1>1, <2>1
<1>7. CASE StopTick(w) \/ StopsRunning(w) \/ CancelReturns(w)
  <2> DEFINE vt == View(w).task
             nj == View(w).job
             vl == View(w).lease
  <2>1. Ends(w, View(w)) /\ View(w) = [task |-> vt, job |-> nj, lease |-> vl]
    BY <1>7, ViewIs DEF StopTick, StopsRunning, CancelReturns
  <2>2. Spares(vt)
    BY ViewSpares
  <2> HIDE DEF vt, nj, vl
  <2>3. db'.task = vt /\ Unanswered
    BY <2>1, EndsSpares
  <2> QED
    BY <2>2, <2>3, StepSpared
<1>8. CASE CapabilityIsMissing(w)
  <2> DEFINE vt == View(w).task
             nj == View(w).job
             vl == View(w).lease
  <2>1. PutAside(w, View(w)) /\ View(w) = [task |-> vt, job |-> nj, lease |-> vl]
    BY <1>8, ViewIs DEF CapabilityIsMissing
  <2>2. Spares(vt)
    BY ViewSpares
  <2> HIDE DEF vt, nj, vl
  <2>3. (db'.task = vt \/ db' = db) /\ Unanswered
    BY <2>1, AsideSpares
  <2> QED
    BY <2>2, <2>3, StepSpared
<1>9. CASE DispatchChosen(w)
  BY <1>9, DispatchSpares, StepSpared
<1>10. CASE DriveRaises(w)
  BY <1>10, RaisesSpares, StepSpared DEF DriveRaises
<1>11. CASE WaitsForProvider(w)
  BY <1>11, WaitsSpares, StepSpared
<1>12. CASE DriverFails(w)
  BY <1>12, FailsSpares, StepSpared
<1>13. CASE DriverCompletes(w)
  BY <1>13, CompletesSpares
<1>14. CASE DriverCancels(w)
  BY <1>14, CancelsSpares, StepSpared
<1>15. CASE BlindEnds(w)
  BY <1>15, BlindSpares, StepSpared
<1> QED
  BY <1>2, <1>3, <1>4, <1>5, <1>6, <1>7, <1>8, <1>9, <1>10, <1>11, <1>12, <1>13, <1>14, <1>15
     DEF TickStep

\* The steps outside the ticks: no completed row is among those they write.
LEMMA RestSpares ==
  ASSUME SupRight,
         WakeDue \/ DeclineTakeover \/ LeaseExpires \/ ChangeEnvelope \/ Correct
           \/ RequestCancel \/ Stall
  PROVE  ByItsJob
<1> DEFINE tt == db.task
           jj == db.job
           vl == db.lease
<1>1. db = [task |-> tt, job |-> jj, lease |-> vl]
  BY DbShape
<1>2. tick' = tick
  BY DEF WakeDue, DeclineTakeover, LeaseExpires, ChangeEnvelope, Correct, RequestCancel, Stall
<1>3. Unanswered
  BY <1>2 DEF Unanswered
<1>4. ASSUME NEW u, NEW l, db' = [db EXCEPT !.job = u] \/ db' = [db EXCEPT !.lease = l]
      PROVE  ByItsJob
  <2>1. db'.task = tt
    <3> HIDE DEF tt, jj, vl
    <3> QED
      BY <1>1, <1>4
  <2> QED
    BY <1>3, <2>1, StepSpared DEF Spares
<1>5. ASSUME NEW t \in DOMAIN tt, tt[t].status # "completed", NEW u, NEW pt, NEW l,
             db' = [task |-> pt, job |-> u, lease |-> l],
             \A i \in DOMAIN tt : i # t => pt[i] = tt[i]
      PROVE  ByItsJob
  <2>1. db'.task = pt
    BY <1>5
  <2>2. Spares(pt)
    BY <1>5 DEF Spares
  <2> QED
    BY <1>3, <2>1, <2>2, StepSpared
<1>6. CASE WakeDue
  <2>1. PICK t \in DOMAIN tt :
          /\ tt[t].status \in {"retryable", "blocked"}
          /\ db' = [db EXCEPT !.task[t].status = "ready", !.task[t].why = "none"]
    BY <1>6 DEF WakeDue
  <2> DEFINE pt == [[tt EXCEPT ![t].status = "ready"] EXCEPT ![t].why = "none"]
  <2>2. db' = [db EXCEPT !.task = pt]
    BY <2>1
  <2>3. \A i \in DOMAIN tt : i # t => pt[i] = tt[i]
    OBVIOUS
  <2>4. db' = [task |-> pt, job |-> jj, lease |-> vl]
    <3> HIDE DEF pt, tt, jj, vl
    <3> QED
      BY <1>1, <2>2
  <2>5. tt[t].status # "completed"
    BY <2>1
  <2> HIDE DEF pt
  <2> QED
    BY <1>5, <2>3, <2>4, <2>5
<1>7. CASE DeclineTakeover
  <2>1. PICK t \in DOMAIN tt :
          /\ tt[t].status = "running"
          /\ db' = [db EXCEPT !.job[tt[t].job].status = "failed", !.task[t].status = "ready"]
    BY <1>7 DEF DeclineTakeover
  <2> DEFINE pt == [tt EXCEPT ![t].status = "ready"]
             u == [jj EXCEPT ![tt[t].job].status = "failed"]
  <2>2. db' = [db EXCEPT !.job = u, !.task = pt]
    BY <2>1
  <2>3. \A i \in DOMAIN tt : i # t => pt[i] = tt[i]
    OBVIOUS
  <2>4. db' = [task |-> pt, job |-> u, lease |-> vl]
    <3> HIDE DEF u, pt, tt, jj, vl
    <3> QED
      BY <1>1, <2>2
  <2>5. tt[t].status # "completed"
    BY <2>1
  <2> HIDE DEF pt, u
  <2> QED
    BY <1>5, <2>3, <2>4, <2>5
<1>8. CASE LeaseExpires
  <2>1. db' = [db EXCEPT !.lease = [vl EXCEPT ![1].lapsed = TRUE]]
    BY <1>8 DEF LeaseExpires
  <2> QED
    BY <1>4, <2>1
<1>9. CASE ChangeEnvelope \/ Correct
  <2>1. db' = db
    BY <1>9 DEF ChangeEnvelope, Correct
  <2> QED
    BY <1>3, <2>1, StepSpared
<1>10. CASE RequestCancel
  <2>1. PICK j \in DOMAIN jj : db' = [db EXCEPT !.job = [jj EXCEPT ![j].cancel = TRUE]]
    BY <1>10 DEF RequestCancel
  <2> QED
    BY <1>4, <2>1
<1>11. CASE Stall
  <2>1. \/ db' = [db EXCEPT !.lease = [vl EXCEPT ![1].lapsed = TRUE]]
        \/ \E j \in DOMAIN jj : db' = [db EXCEPT !.job = [jj EXCEPT ![j].lapsed = TRUE]]
    BY <1>11 DEF Stall
  <2> QED
    BY <1>4, <2>1
<1> QED
  BY <1>6, <1>7, <1>8, <1>9, <1>10, <1>11

\* Every step of the system does.
LEMMA ByItsJobStep ==
  SupRight /\ [SupervisorNext]_supVars => [ByItsJob]_supVars
<1> SUFFICES ASSUME SupRight, SupervisorNext
             PROVE  ByItsJob
  OBVIOUS
<1>1. ASSUME NEW w \in Ticks, TickStep(w)
      PROVE  ByItsJob
  BY <1>1, TickStepSpares
<1>2. ASSUME NEW w \in Ticks, ClaimNext(w)
      PROVE  ByItsJob
  <2> DEFINE tt == db.task
             jj == db.job
             vl == db.lease
  <2>1. PICK j \in DOMAIN jj :
          /\ db' = [db EXCEPT !.job[j].status = "running", !.job[j].by = w,
                              !.job[j].blind = TRUE]
          /\ tick' = [tick EXCEPT ![w].at = "blind", ![w].task = jj[j].task]
    BY <1>2 DEF ClaimNext
  <2>2. tick[w].at # "driving"
    BY <1>2 DEF ClaimNext
  <2>3. \E q : tick' = [tick EXCEPT ![w] = q]
    <3>1. tick' = [tick EXCEPT ![w] = [[tick[w] EXCEPT !.at = "blind"] EXCEPT !.task = jj[j].task]]
      BY <2>1, DbShape
    <3> QED
      BY <3>1
  <2>4. Unanswered
    BY <2>2, <2>3, OneTickOnly
  <2> DEFINE u == [[[jj EXCEPT ![j].status = "running"] EXCEPT ![j].by = w] EXCEPT ![j].blind = TRUE]
  <2>5. db' = [db EXCEPT !.job = u] /\ db = [task |-> tt, job |-> jj, lease |-> vl]
    BY <2>1, DbShape
  <2>6. db'.task = tt
    <3> HIDE DEF u, tt, jj, vl
    <3> QED
      BY <2>5
  <2> QED
    BY <2>4, <2>6, StepSpared DEF Spares
<1>3. CASE WakeDue \/ DeclineTakeover \/ LeaseExpires \/ ChangeEnvelope \/ Correct
             \/ RequestCancel \/ Stall
  BY <1>3, RestSpares
<1>4. CASE KillTick
  <2>1. PICK w \in Ticks : Raises(w)
    BY <1>4 DEF KillTick
  <2> QED
    BY <2>1, RaisesSpares, StepSpared
<1> QED
  BY <1>1, <1>2, <1>3, <1>4 DEF SupervisorNext

\* In every state of the Supervisor the rows are typed, one worker drives the
\* goal (claim_supervisor_goal_lease and its renewal), a source without blind
\* runs has one repair open (park_source_task_for_repair,
\* resume_source_after_repair), a lineage of repairs is bounded
\* (_live_generation_depth) and a task parked for its provider has let go of its
\* job (_release_midflight_job_and_set_task_status).
THEOREM SupervisorHolds == SupervisorSpec => []SupervisorInv
<1>1. SupRight => SupervisorInv
  BY SupTypes, SupOneDriver, SupOneRepair, SupLineages, SupParked DEF SupervisorInv
<1> QED
  BY <1>1, SupRightHolds, PTL

\* A tick completes only a task that is still running in its own job, behind the
\* fence of mark_completed, and a completed task is never written again: not by
\* a late answer, a takeover (_decline_takeover_for_governed_goal), a retry or a
\* resumption, blind runs of the task and of its repairs excepted.
THEOREM CompletedOnce == SupervisorSpec => CompletedByItsJob
<1>1. SupRight /\ [SupervisorNext]_supVars => [ByItsJob]_supVars
  BY ByItsJobStep
<1> QED
  BY <1>1, SupRightHolds, PTL DEF SupervisorSpec, CompletedByItsJob, ByItsJob

=============================================================================
