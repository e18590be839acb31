--------------------------- MODULE MemoryRecords ----------------------------
(***************************************************************************)
(* What threads, contexts and intents promise, however the calls of two    *)
(* sessions interleave.                                                    *)
(***************************************************************************)
EXTENDS RecordSessions

\* The call of the session that commits in this step
Committing(op) ==
  \E s \in RecordSessions : sess'[s].at # sess[s].at /\ sess[s].call.op = op

\* A merge leaves no active member of its source out of its target, whoever
\* adds or removes members meanwhile (merge_threads holds both threads).
MergeKeepsMembers ==
  [][\A s \in RecordSessions :
       LET c == sess[s].call IN
       rows' # rows /\ sess'[s].at # sess[s].at /\ c.op = "merge"
       => \A x \in ActiveMembers(rows', c.on) :
            \E y \in ActiveMembers(rows', c.ref) : x.key = y.key]_recordVars

\* What the founder suppressed in a context comes back only by the founder's
\* hand: a refresh that runs at that moment does not undo it
\* (refresh_context, _manual_state).
SuppressionHolds ==
  [][\A x \in OfKind(rows, "context_member") :
       x.state = "suppressed" /\ ~(\E y \in rows' :
                                     SameRow(x, y) /\ y.state = x.state)
       => Committing("context_state")]_recordVars

\* The intents an intent requires, in any number of steps
RECURSIVE Closure(_, _)
Closure(r, set) ==
  LET more == set \cup UNION {Requires(r, i) : i \in set} IN
  IF more = set THEN set ELSE Closure(r, more)
\* An intent is actionable exactly when neither it nor anything it requires is
\* held back and none of these requires itself (evaluate_feasibility).
FeasibilityIsClosure ==
  \A x \in OfKind(rows, "intent") :
    LET all == Closure(rows, {x.key}) IN
    Actionable(rows, x.key)
      <=> /\ \A i \in all : FreeItself(rows, i)
          /\ \A i \in all : i \notin Closure(rows, Requires(rows, i))
=============================================================================
