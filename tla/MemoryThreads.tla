---------------------------- MODULE MemoryThreads ----------------------------
(***************************************************************************)
(* memory_threads/service.py, active_context/service.py and                *)
(* life_intents/service.py: threads that collect objects, contexts that    *)
(* are refreshed from an anchor, and intents that require one another.     *)
(* Objects are rows of other services; an "object" is one that is external *)
(* to the modelled services (a task, a message), its list what it cites.   *)
(***************************************************************************)
EXTENDS RecordRows, SequencesExt

\* _owned_row; members and events have the keys of their objects
Exists(r, key) ==
  \E x \in r : x.kind \notin {"member", "context_member"} /\ x.key = key
\* _edges: what an object cites, in order
Edges(r, key) ==
  LET mine == {x \in r : /\ x.key = key
                         /\ x.kind \in {"object", "note", "diagnosis",
                                        "capability"}}
  IN IF mine = {} THEN <<>>
     ELSE LET x == CHOOSE y \in mine : TRUE IN
          SelectSeq(x.list \o <<x.old, x.ref>>, LAMBDA k : Exists(r, k))

\* External: a row is written or changes what it cites
Relink(c, r) ==
  LET was == Find(r, "object", c.key) IN
  IF was = {} THEN Plan({}, {Row("object", c)})
  ELSE Plan(was, {[x EXCEPT !.list = c.list] : x \in was})

RECURSIVE Reached(_, _, _, _)
\* Breadth first from queue, until max objects are found.  The depth bound
\* and the bound per type are beyond the graphs here.
Reached(r, queue, found, max) ==
  IF queue = <<>> \/ Len(found) >= max THEN found
  ELSE IF Contains(found, Head(queue)) THEN Reached(r, Tail(queue), found, max)
  ELSE Reached(r, Tail(queue) \o Edges(r, Head(queue)),
               Append(found, Head(queue)), max)

-----------------------------------------------------------------------------
(* memory_threads *)

ThreadEvent(thread, subject, type, from, to) ==
  Event("thread_event", subject, thread, type, from, to)

\* ref is the label
CreateThread(c, r) ==
  LET row == [Row("thread", c) EXCEPT !.on = Owner, !.state = "active"]
      was == Find(r, "thread", c.key)
  IN IF was = {}
     THEN Plan({}, {row, ThreadEvent(c.key, c.key, "thread_created", None,
                                     "active")})
     ELSE IF \A x \in was : Alike(x, row, {"state"}) THEN Keep ELSE Raise

Member(thread, object, basis, key) ==
  [Row("member", Call("", object, thread, basis, "active")) EXCEPT
     !.old = key]
\* A member by its idempotency key, else by its object, else a new one
PutMember(r, thread, object, basis, key) ==
  LET mine == Children(r, "member", thread)
      byKey == {x \in mine : key # None /\ x.old = key}
      byObject == {x \in mine : x.key = object}
      added(from) == ThreadEvent(thread, object, "member_added", from,
                                 "active")
  IN IF ~There(r, "thread", thread) \/ ~Exists(r, object) THEN Raise
     ELSE IF byKey # {}
     THEN IF \A x \in byKey : x.key = object /\ x.ref = basis
          THEN Keep ELSE Raise
     ELSE IF byObject = {}
     THEN Plan({}, {Member(thread, object, basis, key), added(None)})
     ELSE IF \A x \in byObject : x.state = "active" THEN Keep
     ELSE Plan(byObject,
               {[x EXCEPT !.state = "active"] : x \in byObject}
               \cup {added("inactive")})
AddMember(c, r) == PutMember(r, c.on, c.ref, "founder_added", c.key)

DeactivateMember(c, r) ==
  LET mine == {x \in Children(r, "member", c.on) : x.key = c.ref} IN
  IF ~There(r, "thread", c.on) \/ mine = {} THEN Raise
  ELSE IF \A x \in mine : x.state = "inactive" THEN Keep
  ELSE Plan(mine, {[x EXCEPT !.state = "inactive"] : x \in mine}
                  \cup {ThreadEvent(c.on, c.ref, "member_deactivated",
                                    "active", "inactive")})

\* One relation for a key, and for two threads and a type (to)
PutRelation(r, from, type, to, key) ==
  LET row == Row("relation", Call("", key, from, to, type))
      byKey == Find(r, "relation", key)
  IN IF \/ from = to \/ ~There(r, "thread", from) \/ ~There(r, "thread", to)
     THEN Raise
     ELSE IF byKey # {} THEN Once(r, row, {})
     ELSE IF \E x \in Children(r, "relation", from) :
                x.ref = to /\ x.state = type
     THEN Keep
     ELSE Plan({}, {row, ThreadEvent(from, key, "relation_added", None,
                                     None)})
AddRelation(c, r) == PutRelation(r, c.on, c.to, c.ref, c.key)

ActiveMembers(r, thread) ==
  {x \in Children(r, "member", thread) : x.state = "active"}
\* ref is the anchor, num the bound
ExpandThread(c, r) ==
  IF ~There(r, "thread", c.on) \/ ~Exists(r, c.ref) THEN Raise
  ELSE All({PutMember(r, c.on, k, "deterministic", None)
            : k \in ToSet(Reached(r, <<c.ref>>, <<>>, c.num))})

\* on is the source, ref the target
MergeThreads(c, r) ==
  LET related == PutRelation(r, c.on, "merged_into", c.ref, c.key)
      source == Get(r, "thread", c.on)
  IN IF ~related.ok THEN Raise
     ELSE All({related}
              \cup {PutMember(r, c.ref, x.key, "continuation", None)
                    : x \in ActiveMembers(r, c.on)}
              \cup {IF source.state = "superseded" THEN Keep
                    ELSE Plan({source},
                      {[source EXCEPT !.state = "superseded"],
                       ThreadEvent(c.on, c.on, "superseded", source.state,
                                   "superseded")})})

\* key is the child's, ref its label, list the chosen members; "branched" is
\* recorded again by a call that arrives again
BranchThread(c, r) ==
  LET child == CreateThread(c, r)
      with == Apply(r, child)
  IN IF ~There(r, "thread", c.on) \/ ~child.ok THEN Raise
     ELSE All({child, PutRelation(with, c.on, "branch", c.key,
                                  c.key \o ":relation"),
               Plan({}, {ThreadEvent(c.key, c.key, "branched", None, None)})}
              \cup {PutMember(with, c.key, x.key, "continuation", None)
                    : x \in {y \in Children(r, "member", c.on) :
                               y.key \in ToSet(c.list)}})

LabelThread(c, r) ==
  LET x == Get(r, "thread", c.on) IN
  IF ~There(r, "thread", c.on) THEN Raise
  ELSE Plan({x}, {[x EXCEPT !.ref = c.ref],
                  ThreadEvent(c.on, c.on, "label_changed", None, None)})
MoveThread(c, r) ==
  LET x == Get(r, "thread", c.on) IN
  IF ~There(r, "thread", c.on) THEN Raise
  ELSE Plan({x}, {[x EXCEPT !.state = c.to],
                  ThreadEvent(c.on, c.on, "state_changed", x.state, c.to)})

-----------------------------------------------------------------------------
(* active_context *)

ContextEvent(context, subject, type, from, to) ==
  Event("context_event", subject, context, type, from, to)

\* on is the anchor, or none for an explicit topic
CreateContext(c, r) ==
  IF ~There(r, "context", c.key) /\ c.on # None /\ ~Exists(r, c.on) THEN Raise
  ELSE Once(r, Row("context", c),
            {ContextEvent(c.key, c.key, "created", None, None)})

ContextMember(context, object, state) ==
  Row("context_member", Call("", object, context, None, state))
\* num is the bound on members
RefreshContext(c, r) ==
  LET context == Get(r, "context", c.on)
      found == Reached(r, <<context.on>>, <<>>, c.num)
      mine == Children(r, "context_member", c.on)
      known == {x.key : x \in mine}
      moved(x) ==
        IF x.state = "active" /\ ~Contains(found, x.key) THEN "stale"
        ELSE IF x.state = "stale" /\ Contains(found, x.key) THEN "active"
        ELSE x.state
      new == {k \in ToSet(found) : k \notin known}
  IN IF ~There(r, "context", c.on) THEN Raise
     ELSE IF context.on # None /\ ~Exists(r, context.on) THEN Raise
     ELSE Plan(mine,
               {[x EXCEPT !.state = moved(x)] : x \in mine}
               \cup {ContextMember(c.on, k, "active") : k \in new}
               \cup {ContextEvent(c.on, k, "member_added", None, None)
                     : k \in new}
               \cup {ContextEvent(c.on, c.on, "refreshed", None, None)})

StateOfAction ==
  [pinned |-> "pinned", suppressed |-> "suppressed", unpinned |-> "active",
   unsuppressed |-> "stale", stale |-> "stale", superseded |-> "superseded"]
\* _manual_state: to is the action on the object ref
SetContextState(c, r) ==
  LET mine == {x \in Children(r, "context_member", c.on) : x.key = c.ref}
      to == StateOfAction[c.to]
  IN IF ~Exists(r, c.ref) \/ ~There(r, "context", c.on) THEN Raise
     ELSE Plan(mine,
               {[x EXCEPT !.state = to]
                : x \in IF mine = {} THEN {ContextMember(c.on, c.ref, to)}
                        ELSE mine}
               \cup {ContextEvent(c.on, c.ref, c.to, None, None)})

-----------------------------------------------------------------------------
(* life_intents *)

IntentEvent(intent, subject, type, from, to) ==
  Event("intent_event", subject, intent, type, from, to)

\* ref is a thread the intent is about, or none
CreateIntent(c, r) ==
  IF ~There(r, "intent", c.key) /\ c.ref # None /\ ~Exists(r, c.ref)
  THEN Raise
  ELSE Once(r, [Row("intent", c) EXCEPT !.on = Owner],
            {IntentEvent(c.key, c.key, "intent_created", None, c.to)})

TransitionIntent(c, r) ==
  LET x == Get(r, "intent", c.on) IN
  IF ~There(r, "intent", c.on) THEN Raise
  ELSE IF x.state = c.to THEN Keep
  ELSE Plan({x}, {[x EXCEPT !.state = c.to],
                  IntentEvent(c.on, c.on, "state_changed", x.state, c.to)})

\* a resolved blocker is still the row of its key
AddBlocker(c, r) ==
  LET row == [Row("blocker", c) EXCEPT !.state = "active"]
      was == Find(r, "blocker", c.key)
  IN IF \/ ~There(r, "intent", c.on)
        \/ (c.ref # None /\ ~Exists(r, c.ref))
     THEN Raise
     ELSE IF was # {}
     THEN IF \A x \in was : Alike(x, row, {"state"}) THEN Keep ELSE Raise
     ELSE Plan({}, {row, IntentEvent(c.on, c.key, "blocker_added", None,
                                     "active")})

ResolveBlocker(c, r) ==
  LET x == Get(r, "blocker", c.on) IN
  IF ~There(r, "blocker", c.on) THEN Raise
  ELSE IF x.state # "active" THEN Keep
  ELSE Plan({x}, {[x EXCEPT !.state = c.to],
                  IntentEvent(x.on, c.on, "blocker_resolved", "active",
                              c.to)})

\* on requires ref (to: the type); the pair and type are unique
AddDependency(c, r) ==
  IF \/ c.on = c.ref
     \/ ~There(r, "intent", c.on) \/ ~There(r, "intent", c.ref)
  THEN Raise
  ELSE Once(r, Row("dependency", c),
            {IntentEvent(c.on, c.key, "dependency_added", None, None)})

NonActionable ==
  {"blocked", "waiting", "future", "completed", "abandoned", "superseded",
   "unknown"}
Requires(r, intent) ==
  {x.ref : x \in {y \in Children(r, "dependency", intent) :
                    y.state = "requires"}}
FreeItself(r, intent) ==
  /\ Get(r, "intent", intent).state \notin NonActionable
  /\ \A b \in Children(r, "blocker", intent) : b.state # "active"
RECURSIVE FreeFrom(_, _, _)
\* evaluate_feasibility walks every path; an intent met again on its own path
\* is a cycle.  The bounds on depth and nodes are beyond the graphs here.
FreeFrom(r, intent, path) ==
  /\ ~Contains(path, intent)
  /\ FreeItself(r, intent)
  /\ \A d \in Requires(r, intent) : FreeFrom(r, d, Append(path, intent))
Actionable(r, intent) == FreeFrom(r, intent, <<>>)

-----------------------------------------------------------------------------

\* The rows an operation locks FOR UPDATE: both ends, none, or its parent
LockPairsNotMerge == {"add_relation", "add_dependency"}
LockPairs == {"add_relation", "merge", "add_dependency"}
LockNothing == {"relink", "create_context"}
MemoryLocks(c) ==
  CASE c.op \in {"create_thread", "create_intent"} -> <<Owner>>
    [] c.op \in LockPairs -> SetToSeq({c.on, c.ref})
    \* create_thread locks the owner, add_relation the two threads
    [] c.op = "branch" -> <<Owner>> \o SetToSeq({c.key, c.on})
    [] c.op \in LockNothing -> <<>>
    [] OTHER -> <<c.on>>

MemoryPlan(c, r) ==
  CASE c.op = "relink" -> Relink(c, r)
    [] c.op = "create_thread" -> CreateThread(c, r)
    [] c.op = "add_member" -> AddMember(c, r)
    [] c.op = "deactivate_member" -> DeactivateMember(c, r)
    [] c.op = "add_relation" -> AddRelation(c, r)
    [] c.op = "expand" -> ExpandThread(c, r)
    [] c.op = "merge" -> MergeThreads(c, r)
    [] c.op = "branch" -> BranchThread(c, r)
    [] c.op = "label_thread" -> LabelThread(c, r)
    [] c.op = "move_thread" -> MoveThread(c, r)
    [] c.op = "create_context" -> CreateContext(c, r)
    [] c.op = "refresh_context" -> RefreshContext(c, r)
    [] c.op = "context_state" -> SetContextState(c, r)
    [] c.op = "create_intent" -> CreateIntent(c, r)
    [] c.op = "transition_intent" -> TransitionIntent(c, r)
    [] c.op = "add_blocker" -> AddBlocker(c, r)
    [] c.op = "resolve_blocker" -> ResolveBlocker(c, r)
    [] c.op = "add_dependency" -> AddDependency(c, r)

MemoryOps ==
  {"relink", "create_thread", "add_member", "deactivate_member",
   "add_relation", "expand", "merge", "branch", "label_thread", "move_thread",
   "create_context", "refresh_context", "context_state", "create_intent",
   "transition_intent", "add_blocker", "resolve_blocker", "add_dependency"}
=============================================================================
