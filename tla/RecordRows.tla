----------------------------- MODULE RecordRows -----------------------------
(***************************************************************************)
(* Rows, calls and plans of the record-keeping services (problem_learning, *)
(* work_intelligence, strategy_evaluation, strategy_synthesis and others). *)
(* Their operations have one shape: lock a row, look for the idempotency   *)
(* key, check, add rows, record an event.  An operation is a function      *)
(* from the call and the rows it reads to a plan: the rows it replaces and *)
(* the rows it writes.  RecordSessions runs plans as transactions.         *)
(*                                                                         *)
(* A row's id is its key.  The rows are those of one owner: row-level      *)
(* security hides the others.                                              *)
(***************************************************************************)
EXTENDS Integers, Sequences, FiniteSets

None == "none"
Owner == "owner"   \* the row of the owner in users
OwnerShare == "owner key share"   \* a key share of it

\* A call: op on a parent row, with a second reference, a row it replaces, a
\* state, a number and a list
Call(op, key, on, ref, to) ==
  [op |-> op, key |-> key, on |-> on, ref |-> ref, old |-> None, to |-> to,
   num |-> 0, list |-> <<>>]

\* next: the counter of a row that numbers its children
Row(kind, c) ==
  [kind |-> kind, key |-> c.key, on |-> c.on, ref |-> c.ref, old |-> c.old,
   state |-> c.to, num |-> c.num, next |-> 0, list |-> c.list, tick |-> 0]

Plan(old, new) == [ok |-> TRUE, old |-> old, new |-> new]
Raise == [ok |-> FALSE, old |-> {}, new |-> {}]
Keep == Plan({}, {})

Find(r, kind, key) == {x \in r : x.kind = kind /\ x.key = key}
There(r, kind, key) == Find(r, kind, key) # {}
Get(r, kind, key) == CHOOSE x \in Find(r, kind, key) : TRUE
Children(r, kind, key) == {x \in r : x.kind = kind /\ x.on = key}
\* an optional reference
Known(r, kind, key) == key = None \/ There(r, kind, key)

\* _same: the row a key already has must have the call's values
Alike(x, row, loose) ==
  \A f \in DOMAIN row \ ({"tick"} \cup loose) : x[f] = row[f]
\* _idempotent: one row for a key, however often the call arrives
Once(r, row, more) ==
  LET was == Find(r, row.kind, row.key) IN
  IF was = {} THEN Plan({}, {row} \cup more)
  ELSE IF \A x \in was : Alike(x, row, {}) THEN Keep ELSE Raise

SameRow(x, y) == x.kind = y.kind /\ x.key = y.key /\ x.on = y.on
\* An UPDATE sets the columns that changed since the row was read
Rewritten(x, o, n) ==
  [f \in DOMAIN x |-> IF n[f] # o[f] THEN n[f] ELSE x[f]]
Apply(r, p) ==
  {IF \E o \in p.old : SameRow(x, o)
   THEN LET o == CHOOSE y \in p.old : SameRow(x, y) IN
        Rewritten(x, o, CHOOSE y \in p.new : SameRow(x, y))
   ELSE x : x \in r}
  \cup {n \in p.new : ~\E o \in p.old : SameRow(n, o)}
\* Operations of one transaction on different rows
All(plans) ==
  IF \E p \in plans : ~p.ok THEN Raise
  ELSE Plan(UNION {p.old : p \in plans}, UNION {p.new : p \in plans})

\* An event of a row: from one state to another
Event(kind, key, on, type, from, to) ==
  [kind |-> kind, key |-> key, on |-> on, ref |-> type, old |-> from,
   state |-> to, num |-> 0, next |-> 0, list |-> <<>>, tick |-> 0]

\* The row that was written last
Latest(set) == CHOOSE x \in set : \A y \in set : y.tick <= x.tick
=============================================================================
