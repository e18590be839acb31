---------------------------- MODULE FounderMemory ----------------------------
(***************************************************************************)
(* founder_memory, inspectable_memory, memory_work_linkage,                *)
(* founder_memory_signals, diagnosis, capability_reality and               *)
(* intelligence_governance: the founder's notes, the claims made about     *)
(* records, and the thread that links a note to the work it concerns.      *)
(* A note's ref is its content; its list, its type.                        *)
(***************************************************************************)
EXTENDS ProjectConcepts, MemoryThreads

\* External: a goal, task or lesson (on) with a title (ref) and a status (to)
PutExternal(c, r) ==
  LET was == Find(r, c.on, c.key) IN
  IF was = {} THEN Plan({}, {Row(c.on, c)})
  ELSE Plan(was, {[x EXCEPT !.state = c.to] : x \in was})

-----------------------------------------------------------------------------
(* Notes and claims *)

\* record_founder_memory: old is the note it supersedes
PutNote(r, key, content, type, old) ==
  LET row == [Row("note", Call("", key, Owner, content, "active"))
                EXCEPT !.old = old, !.list = <<type>>]
      replaced == {x \in Find(r, "note", old) : x.state = "active"}
  IN IF ~Known(r, "note", old) THEN Raise
     ELSE IF There(r, "note", key)
     THEN RecordedLoosely(r, row, {"state"})
     ELSE Plan(replaced,
               {[x EXCEPT !.state = "superseded"] : x \in replaced}
               \cup {row})

TruthOrder == <<"said", "stored", "planned", "implemented", "verified">>
Rank(state) == CHOOSE i \in DOMAIN TruthOrder : TruthOrder[i] = state
\* _actual_truth_state; a missing target has none
ActualTruth(r, kind, key) ==
  LET x == Get(r, kind, key) IN
  CASE ~There(r, kind, key) -> None
    [] There(r, kind, key) /\ kind = "signal" -> "said"
    [] There(r, kind, key) /\ kind \in {"note", "entity"} -> "stored"
    [] There(r, kind, key) /\ kind = "work" ->
         IF x.state = "authorized" /\ x.old # None THEN "planned" ELSE "stored"
    [] There(r, kind, key) /\ kind = "lesson" ->
         IF x.state = "verified" THEN "verified" ELSE "stored"
    [] There(r, kind, key) /\ kind = "task" ->
         IF x.state = "completed" THEN "implemented" ELSE "planned"
    [] There(r, kind, key) /\ kind = "goal" -> "planned"
\* verify_truth_claim
Verdict(r, x) ==
  LET actual == ActualTruth(r, x.ref, x.on) IN
  IF x.on = None THEN IF x.state = "said" THEN 1 ELSE -1
  ELSE IF actual = None THEN -1
  ELSE IF Rank(actual) >= Rank(x.state) THEN 1 ELSE -1
\* record_truth_claim: on is the target, ref its kind, to the claimed state;
\* num is the verdict
PutClaim(r, key, target, kind, state) ==
  LET row == Row("truth", Call("", key, target, kind, state))
      was == Find(r, "truth", key)
  IN IF target = None /\ state # "said" THEN Raise
     ELSE IF was # {} THEN RecordedLoosely(r, row, {"num"})
     ELSE Plan({}, {[row EXCEPT !.num = Verdict(r, row)]})
VerifyClaim(c, r) ==
  LET x == Get(r, "truth", c.on) IN
  IF ~There(r, "truth", c.on) THEN Raise
  ELSE Plan({x}, {[x EXCEPT !.num = Verdict(r, x)]})

-----------------------------------------------------------------------------
(* Linkage of a note to work *)

Matches(title, text) == Norm(title) = Norm(text) \/ PartialOverlap(title, text)
NoteThread(note) == "link:" \o note
\* find_affected_work
Affected(r, note, content) ==
  LET fellows == {x.key : x \in UNION {Children(r, "member", m.on) : m \in
                    {y \in r : y.kind = "member" /\ y.key = note}}}
  IN {x \in r : \/ /\ \/ x.kind \in {"goal", "task", "work"}
                      \/ CurrentEntity(x)
                   /\ Matches(x.ref, content)
                \/ /\ x.kind \in {"goal", "task", "work", "entity"}
                   /\ x.key \in fellows}
\* _find_similar_unreviewed_candidate
Similar(r, content) ==
  {x \in r : /\ x.kind = "work" /\ x.state = "unreviewed"
             /\ x.list = <<"memory">> /\ Norm(x.ref) = Norm(content)}
Parkable == {"correction", "decision", "goal", "observation", "preference"}

\* apply_memory_work_linkage, with the candidates it supersedes and an entity
\* it contradicts.  Each member has an idempotency key of its object.
Linkage(r, note, drop, against) ==
  LET n == Get(r, "note", note)
      thread == NoteThread(note)
      opened == CreateThread(Call("", thread, None, "linkage", None), r)
      affected == Affected(r, note, n.ref)
      entities == {x \in affected : x.kind = "entity"}
      exact == {x \in entities : x.ref = Norm(n.ref)}
      best == CHOOSE x \in IF exact = {} THEN entities ELSE exact : TRUE
      dropped == {Reviewed(Call("", None, k, None, None), r, "work",
                           "superseded") : k \in drop}
      work == PutWork(r, "memory:" \o note, best.key, n.ref, "memory")
      parks == /\ n.list[1] \in Parkable /\ entities # {}
               /\ Similar(r, n.ref) = {}
      objects == {note} \cup {x.key : x \in affected}
                 \cup (IF entities # {} /\ n.list[1] \in Parkable
                       THEN {x.key : x \in Similar(r, n.ref)} ELSE {})
                 \cup (IF parks THEN {x.key : x \in work.new} ELSE {})
                 \cup (IF against = None THEN {} ELSE {against})
      with == UNION {r, opened.new, IF parks THEN work.new ELSE {}}
  IN IF ~There(r, "note", note) \/ ~opened.ok THEN Raise
     ELSE All({opened} \cup dropped
              \cup (IF parks THEN {work} ELSE {})
              \cup (IF against = None \/ entities = {} THEN {}
                    ELSE IF best.key = against THEN {}
                    ELSE {Relate(r, best.key, against, "contradicts")})
              \cup {PutMember(with, thread, k, "linkage", "mem:" \o k)
                    : k \in objects})
LinkNote(c, r) == Linkage(r, c.on, ToSet(c.list), c.ref)

\* founder_add_memory_note, founder_correct_memory_note (with old): an error
\* of the linkage is swallowed, and the note and its claim stay
AddNote(c, r) ==
  LET note == PutNote(r, c.key, c.ref, c.to, c.old)
      claimed == PutClaim(Apply(r, note), "claim:" \o c.key, c.key, "note",
                          "stored")
      stored == All({note, claimed})
      linked == Linkage(Apply(r, stored), c.key, {}, None)
  IN IF ~stored.ok \/ ~linked.ok THEN stored ELSE All({stored, linked})

DisputeNote(c, r) ==
  LET x == Get(r, "note", c.on) IN
  IF ~There(r, "note", c.on) THEN Raise
  ELSE Plan({x}, {[x EXCEPT !.state = "disputed"]})

-----------------------------------------------------------------------------
(* Signals, diagnoses, capabilities, executions *)

\* on is the message
RecordSignal(c, r) ==
  RecordedLoosely(r, [Row("signal", c) EXCEPT !.state = "unreviewed"],
                  {"state", "old", "list"})
ResolveSignal(c, r) ==
  LET x == Get(r, "signal", c.on) IN
  IF ~There(r, "signal", c.on) THEN Raise
  ELSE IF x.state # "unreviewed" THEN Raise
  ELSE Plan({x}, {[x EXCEPT !.list = <<c.ref>>]})
\* key is the note's
PromoteSignal(c, r) ==
  LET x == Get(r, "signal", c.on)
      note == PutNote(r, c.key, c.ref, c.to, None)
  IN IF ~There(r, "signal", c.on) THEN Raise
     ELSE IF x.state # "unreviewed" THEN Raise
     ELSE All({note, Plan({x}, {[x EXCEPT !.state = "promoted",
                                          !.old = c.key]})})

\* old is the diagnosis it supersedes, ref the evidence, to the stage
RecordDiagnosis(c, r) ==
  IF ~Known(r, "diagnosis", c.old) THEN Raise
  ELSE Once(r, Row("diagnosis", c), {})
MoveDiagnosis(c, r, stage) ==
  LET x == Get(r, "diagnosis", c.on) IN
  IF ~There(r, "diagnosis", c.on) THEN Raise
  ELSE Plan({x}, {[x EXCEPT !.state = stage,
                            !.ref = IF c.ref = None THEN @ ELSE c.ref]})

CapabilityEvent(c, r, more) ==
  LET same == \E x \in Find(r, "capability", c.key) : x.state = c.to IN
  {Event("capability_event", c.key, c.key,
         IF ~same THEN "status_changed"
         ELSE IF c.ref # None THEN "verification_recorded"
         ELSE "observation_reasserted", None, c.to)}
  \cup {Event("capability_event", c.key, c.key, type, None, None)
        : type \in more}
\* The row is read without a lock; ref is the verifying evidence
Observe0(c, r, more) ==
  LET was == Find(r, "capability", c.key) IN
  Plan(was, (IF was = {} THEN {Row("capability", c)}
             ELSE {[x EXCEPT !.state = c.to,
                             !.ref = IF c.ref = None THEN @ ELSE c.ref]
                   : x \in was})
            \cup CapabilityEvent(c, r, more))

\* record_execution, record_evidence, record_interpretation, record_idea: one
\* row for a key under its parent (on)
GovernedKinds == [record_execution |-> "execution",
                  record_evidence |-> "evidence",
                  record_interpretation |-> "interpretation",
                  record_idea |-> "idea"]
RecordGoverned(c, r) ==
  IF ~Exists(r, c.on) \/ (c.old # None /\ ~Exists(r, c.old)) THEN Raise
  ELSE Once(r, Row(GovernedKinds[c.op], c), {})
\* record_idea_link: key is the relation
LinkIdeas(c, r) ==
  LET was == {x \in Children(r, "idea_link", c.on) :
                x.ref = c.ref /\ x.key = c.key}
  IN IF was # {}
     THEN IF \A x \in was : x.old = c.old THEN Keep ELSE Raise
     ELSE IF ~There(r, "idea", c.on) \/ ~There(r, "idea", c.ref) THEN Raise
     ELSE Plan({}, {Row("idea_link", c)})

-----------------------------------------------------------------------------

(* The rows each row refers to: the columns of its table *)

SignalRow(r, x) ==
  \/ x.state \in {"unreviewed", "dismissed"} /\ x.old = None
  \/ x.state = "promoted" /\ There(r, "note", x.old)
DiagnosisRow(r, x) ==
  /\ x.state \in {"observed", "hypothesis", "proven_cause", "ruled_out"}
  /\ Known(r, "diagnosis", x.old)
\* One row per capability; what it is now was observed
CapabilityRow(r, x) ==
  \E e \in Children(r, "capability_event", x.key) : e.state = x.state
FounderRowsRefer(r) ==
  \A x \in r :
    CASE x.kind = "signal" -> SignalRow(r, x)
      [] x.kind = "diagnosis" -> DiagnosisRow(r, x)
      [] x.kind = "capability" -> CapabilityRow(r, x)
      [] x.kind = "capability_event" -> There(r, "capability", x.on)
      [] OTHER -> TRUE

-----------------------------------------------------------------------------

NoteOps == {"add_note", "correct_note"}
\* A new note key-shares its owner's row, whom create_thread then locks
FounderLocks(c) ==
  CASE c.op = "add_note" -> <<OwnerShare, Owner, NoteThread(c.key)>>
    [] c.op = "correct_note" ->
         <<c.old, OwnerShare, Owner, NoteThread(c.key)>>
    [] c.op = "link_note" -> <<Owner, NoteThread(c.on)>> \o c.list
    [] c.op \in {"dispute_note", "resolve_signal", "promote_signal",
                 "dismiss_signal", "prove", "rule_out"} -> <<c.on>>
    [] c.op = "record_diagnosis" /\ c.old # None -> <<c.old>>
    [] OTHER -> <<>>

FounderPlan(c, r) ==
  CASE c.op = "put_external" -> PutExternal(c, r)
    [] c.op \in NoteOps -> AddNote(c, r)
    [] c.op = "link_note" -> LinkNote(c, r)
    [] c.op = "dispute_note" -> DisputeNote(c, r)
    [] c.op = "claim" -> PutClaim(r, c.key, c.on, c.ref, c.to)
    [] c.op = "verify_claim" -> VerifyClaim(c, r)
    [] c.op = "record_signal" -> RecordSignal(c, r)
    [] c.op = "dismiss_signal" -> Reviewed(c, r, "signal", "dismissed")
    [] c.op = "resolve_signal" -> ResolveSignal(c, r)
    [] c.op = "promote_signal" -> PromoteSignal(c, r)
    [] c.op = "record_diagnosis" -> RecordDiagnosis(c, r)
    [] c.op = "prove" -> MoveDiagnosis(c, r, "proven_cause")
    [] c.op = "rule_out" -> MoveDiagnosis(c, r, "ruled_out")
    [] c.op = "observe_capability" -> Observe0(c, r, {})
    [] c.op = "capability_gap" -> Observe0(c, r, {"gap_recorded"})
    [] c.op \in DOMAIN GovernedKinds -> RecordGoverned(c, r)
    [] c.op = "link_ideas" -> LinkIdeas(c, r)

FounderOps ==
  NoteOps \cup DOMAIN GovernedKinds \cup
  {"put_external", "link_note", "dispute_note", "claim", "verify_claim",
   "record_signal", "dismiss_signal", "resolve_signal", "promote_signal",
   "record_diagnosis", "prove", "rule_out", "observe_capability",
   "capability_gap", "link_ideas"}
=============================================================================
