------------------------- MODULE ProviderSpendProofs -------------------------
(***************************************************************************)
(* Proofs about ProviderSpend, for any sets of proposals, grants and tasks *)
(* and any ceilings.                                                       *)
(*                                                                         *)
(* SpendRight is inductive.  Its heart, MoneyRight, relates three versions *)
(* of a grant: the row as SQL has left it in the tick's transaction, the   *)
(* durable row a rollback returns to, and the session's copy, which        *)
(* settlements pass by.  Row and usage rows agree counter by counter; the  *)
(* copy only covers what is held, and held and paid together, which is     *)
(* what makes the next reservation safe.  The lemmas MoneyX are about one  *)
(* write of the code each and take the tables as parameters, so that the   *)
(* same lemma serves the open and the durable version.                     *)
(***************************************************************************)
EXTENDS ProviderSpend, FiniteSetTheorems, WellFoundedInduction, TLAPS

-----------------------------------------------------------------------------
(* Sums over finite sets                                                   *)

LEMMA LeastNatural ==
  ASSUME NEW N, N \subseteq Nat, N # {}
  PROVE  \E x \in N : \A y \in N : x <= y
<1> DEFINE R == {s \in Nat \X Nat : s[1] < s[2]}
<1>1. IsWellFoundedOn(R, Nat)
  BY NatLessThanWellFounded DEF OpToRel
<1>2. PICK x \in N : \A y \in N : <<y, x>> \notin R
  BY <1>1, WFMin
<1>3. ASSUME NEW y \in N
      PROVE  x <= y
  <2>1. <<y, x>> \notin R /\ x \in Nat /\ y \in Nat
    BY <1>2
  <2>2. ~(y < x)
    BY <2>1
  <2> QED
    BY <2>1, <2>2
<1> QED
  BY <1>3

\* What holds of a set when it holds of the set less any element of it holds
\* of every finite set.
LEMMA SubsetInduction ==
  ASSUME NEW S, IsFiniteSet(S), NEW Q,
         \A T \in SUBSET S : (\A x \in T : T \ {x} \in Q) => T \in Q
  PROVE  SUBSET S \subseteq Q
<1> SUFFICES ASSUME NEW U \in SUBSET S, U \notin Q PROVE FALSE
  OBVIOUS
<1> DEFINE N == {Cardinality(T) : T \in (SUBSET S) \ Q}
<1>1. \A T \in SUBSET S : IsFiniteSet(T) /\ Cardinality(T) \in Nat
  BY FS_Subset, FS_CardinalityType
<1>2. N \subseteq Nat /\ N # {}
  <2>1. U \in (SUBSET S) \ Q
    OBVIOUS
  <2> QED
    BY <1>1, <2>1
<1>3. PICK n \in N : \A m \in N : n <= m
  BY <1>2, LeastNatural
<1>4. PICK T \in (SUBSET S) \ Q : n = Cardinality(T)
  BY <1>3
<1>5. PICK x \in T : T \ {x} \notin Q
  BY <1>4
<1>6. Cardinality(T \ {x}) = Cardinality(T) - 1
  BY <1>1, <1>4, <1>5, FS_RemoveElement
<1>7. T \ {x} \in (SUBSET S) \ Q
  BY <1>5
<1>8. n <= Cardinality(T \ {x})
  BY <1>3, <1>7
<1> QED
  BY <1>1, <1>4, <1>6, <1>8

Pick(s) == CHOOSE x \in s : TRUE

\* g sums F over every subset of T, taking the elements as the fold does.
Iterates(g, F, T) ==
  g = [s \in SUBSET T |-> IF s = {} THEN 0 ELSE F[Pick(s)] + g[s \ {Pick(s)}]]

Total(F, T) == MapThenSumSet(LAMBDA x : F[x], T)

NatOn(F, T) == \A x \in T : F[x] \in Nat

LEMMA PickIn ==
  ASSUME NEW s, s # {}
  PROVE  Pick(s) \in s
BY DEF Pick

LEMMA IteratesAt ==
  ASSUME NEW g, NEW F, NEW T, Iterates(g, F, T), NEW s \in SUBSET T
  PROVE  g[s] = IF s = {} THEN 0 ELSE F[Pick(s)] + g[s \ {Pick(s)}]
BY DEF Iterates

\* The sum depends on the values summed and on nothing else.
LEMMA IteratesAgree ==
  ASSUME NEW g, NEW F, NEW T, Iterates(g, F, T),
         NEW h, NEW G, NEW U, Iterates(h, G, U),
         NEW S, S \subseteq T, S \subseteq U, IsFiniteSet(S),
         \A x \in S : F[x] = G[x]
  PROVE  g[S] = h[S]
<1> DEFINE Q == {s \in SUBSET S : g[s] = h[s]}
<1>1. ASSUME NEW s \in SUBSET S, \A x \in s : s \ {x} \in Q
      PROVE  s \in Q
  <2>1. CASE s = {}
    BY <2>1, IteratesAt
  <2>2. CASE s # {}
    <3>1. Pick(s) \in s
      BY <2>2, PickIn
    <3>2. g[s \ {Pick(s)}] = h[s \ {Pick(s)}]
      BY <1>1, <3>1
    <3>3. F[Pick(s)] = G[Pick(s)]
      BY <3>1
    <3>4. g[s] = F[Pick(s)] + g[s \ {Pick(s)}]
      BY <2>2, IteratesAt
    <3>5. h[s] = G[Pick(s)] + h[s \ {Pick(s)}]
      BY <2>2, IteratesAt
    <3> QED
      BY <3>2, <3>3, <3>4, <3>5
  <2> QED
    BY <2>1, <2>2
<1> HIDE DEF Q
<1>2. SUBSET S \subseteq Q
  BY <1>1, SubsetInduction
<1> QED
  BY <1>2 DEF Q

LEMMA IteratesExists ==
  ASSUME NEW F, NEW S, IsFiniteSet(S)
  PROVE  \E g : Iterates(g, F, S)
<1> DEFINE Q == {s \in SUBSET S : \E g : Iterates(g, F, s)}
           H(s) == CHOOSE g : Iterates(g, F, s)
<1>1. ASSUME NEW T \in SUBSET S, \A x \in T : T \ {x} \in Q
      PROVE  T \in Q
  <2> DEFINE V(s) == H(s)[s]
             g == [s \in SUBSET T |-> IF s = {} THEN 0
                                      ELSE F[Pick(s)] + V(s \ {Pick(s)})]
  <2>1. ASSUME NEW s \in SUBSET T, NEW x \in T, x \notin s
        PROVE  Iterates(H(s), F, s)
    <3>1. PICK h : Iterates(h, F, T \ {x})
      BY <1>1, <2>1
    <3> DEFINE k == [u \in SUBSET s |-> h[u]]
    <3>2. ASSUME NEW u \in SUBSET s
          PROVE  k[u] = IF u = {} THEN 0 ELSE F[Pick(u)] + k[u \ {Pick(u)}]
      <4>1. u \in SUBSET (T \ {x})
        BY <2>1
      <4>2. h[u] = IF u = {} THEN 0 ELSE F[Pick(u)] + h[u \ {Pick(u)}]
        BY <3>1, <4>1, IteratesAt
      <4> QED
        BY <4>2
    <3>3. Iterates(k, F, s)
      BY <3>2 DEF Iterates
    <3> QED
      BY <3>3
  <2>2. ASSUME NEW s \in SUBSET T, s # {}
        PROVE  V(s \ {Pick(s)}) = g[s \ {Pick(s)}]
    <3> DEFINE x == Pick(s)
               u == s \ {x}
    <3>1. x \in s /\ x \in T /\ u \in SUBSET T /\ x \notin u
      BY <2>2, PickIn
    <3> HIDE DEF x
    <3>2. Iterates(H(u), F, u)
      BY <2>1, <3>1
    <3>3. CASE u = {}
      <4>1. V(u) = 0
        BY <3>2, <3>3, IteratesAt
      <4> QED
        BY <3>1, <3>3, <4>1 DEF x
    <3>4. CASE u # {}
      <4> DEFINE y == Pick(u)
                 w == u \ {y}
      <4>1. y \in u /\ y \in T /\ y \notin w /\ w \in SUBSET T /\ w \subseteq u
        BY <3>1, <3>4, PickIn
      <4>2. Iterates(H(w), F, w)
        BY <2>1, <4>1
      <4>3. V(u) = F[y] + H(u)[w]
        BY <3>2, <3>4, IteratesAt
      <4>4. IsFiniteSet(w)
        BY <3>1, <4>1, FS_Subset
      <4>5. H(u)[w] = H(w)[w]
        BY <3>2, <4>1, <4>2, <4>4, IteratesAgree
      <4>6. g[u] = F[y] + V(w)
        BY <3>1, <3>4
      <4> QED
        BY <4>3, <4>5, <4>6 DEF x
    <3> QED
      BY <3>3, <3>4
  <2>3. \A s \in SUBSET T : g[s] = IF s = {} THEN 0
                                   ELSE F[Pick(s)] + g[s \ {Pick(s)}]
    <3> HIDE DEF V
    <3> SUFFICES ASSUME NEW s \in SUBSET T
                 PROVE  g[s] = IF s = {} THEN 0
                               ELSE F[Pick(s)] + g[s \ {Pick(s)}]
      OBVIOUS
    <3>1. g[s] = IF s = {} THEN 0 ELSE F[Pick(s)] + V(s \ {Pick(s)})
      OBVIOUS
    <3> HIDE DEF g
    <3> QED
      BY <2>2, <3>1
  <2> HIDE DEF V
  <2>4. g = [s \in SUBSET T |-> g[s]]
    OBVIOUS
  <2> HIDE DEF g
  <2>5. Iterates(g, F, T)
    BY <2>3, <2>4 DEF Iterates
  <2> QED
    BY <2>5
<1> HIDE DEF Q
<1>2. SUBSET S \subseteq Q
  BY <1>1, SubsetInduction
<1> QED
  BY <1>2 DEF Q

LEMMA TotalIterates ==
  ASSUME NEW T, NEW F, IsFiniteSet(T)
  PROVE  \E g : Iterates(g, F, T) /\ Total(F, T) = g[T]
<1> DEFINE it == CHOOSE g : Iterates(g, F, T)
<1>1. Iterates(it, F, T)
  BY IteratesExists
<1>2. Total(F, T) = it[T]
  BY DEF Total, MapThenSumSet, MapThenFoldSet, Iterates, Pick
<1> QED
  BY <1>1, <1>2

LEMMA IteratesNat ==
  ASSUME NEW g, NEW F, NEW T, Iterates(g, F, T), IsFiniteSet(T),
         NatOn(F, T)
  PROVE  \A s \in SUBSET T : g[s] \in Nat
<1> DEFINE Q == {s \in SUBSET T : g[s] \in Nat}
<1>1. ASSUME NEW s \in SUBSET T, \A x \in s : s \ {x} \in Q
      PROVE  s \in Q
  <2>1. CASE s = {}
    <3>1. g[s] = 0
      BY <2>1, IteratesAt
    <3> QED
      BY <3>1
  <2>2. CASE s # {}
    <3>1. Pick(s) \in s /\ g[s] = F[Pick(s)] + g[s \ {Pick(s)}]
      BY <2>2, PickIn, IteratesAt
    <3>2. g[s \ {Pick(s)}] \in Nat /\ F[Pick(s)] \in Nat
      BY <1>1, <3>1 DEF NatOn
    <3> QED
      BY <3>1, <3>2
  <2> QED
    BY <2>1, <2>2
<1> HIDE DEF Q
<1>2. SUBSET T \subseteq Q
  BY <1>1, SubsetInduction
<1> QED
  BY <1>2 DEF Q

\* Any element may be taken first.
LEMMA IteratesRemove ==
  ASSUME NEW g, NEW F, NEW T, Iterates(g, F, T), IsFiniteSet(T),
         NatOn(F, T)
  PROVE  /\ g[T] \in Nat
         /\ \A x \in T : g[T] = F[x] + g[T \ {x}]
<1> DEFINE Q == {s \in SUBSET T : /\ g[s] \in Nat
                                  /\ \A x \in s : g[s] = F[x] + g[s \ {x}]}
<1>1. ASSUME NEW s \in SUBSET T, \A x \in s : s \ {x} \in Q
      PROVE  s \in Q
  <2>1. CASE s = {}
    <3>1. g[s] = 0
      BY <2>1, IteratesAt
    <3> QED
      BY <2>1, <3>1
  <2>2. CASE s # {}
    <3> DEFINE p == Pick(s)
    <3>1. p \in s /\ g[s] = F[p] + g[s \ {p}]
      BY <2>2, PickIn, IteratesAt
    <3> HIDE DEF p
    <3>2. s \ {p} \in Q
      BY <1>1, <3>1
    <3>3. g[s \ {p}] \in Nat /\ F[p] \in Nat
      BY <3>1, <3>2 DEF NatOn
    <3>4. g[s] \in Nat
      BY <3>1, <3>3
    <3>5. ASSUME NEW x \in s
          PROVE  g[s] = F[x] + g[s \ {x}]
      <4>1. CASE x = p
        BY <3>1, <4>1
      <4>2. CASE x # p
        <5> DEFINE w == s \ {p, x}
        <5>1. (s \ {p}) \ {x} = w /\ (s \ {x}) \ {p} = w
          OBVIOUS
        <5>2. x \in s \ {p} /\ p \in s \ {x}
          BY <3>1, <4>2
        <5>3. g[s \ {p}] = F[x] + g[w]
          BY <3>2, <5>1, <5>2
        <5>4. g[s \ {x}] = F[p] + g[w]
          <6>1. s \ {x} \in Q
            BY <1>1
          <6> QED
            BY <6>1, <5>1, <5>2
        <5>5. g[w] \in Nat
          <6>1. w \in SUBSET T
            OBVIOUS
          <6> QED
            BY <6>1, IteratesNat
        <5>6. F[x] \in Nat
          BY DEF NatOn
        <5> HIDE DEF w, Q
        <5> QED
          BY <3>1, <3>3, <5>3, <5>4, <5>5, <5>6
      <4> QED
        BY <4>1, <4>2
    <3> QED
      BY <3>4, <3>5
  <2> QED
    BY <2>1, <2>2
<1> HIDE DEF Q
<1>2. SUBSET T \subseteq Q
  BY <1>1, SubsetInduction
<1> QED
  BY <1>2 DEF Q

LEMMA IteratesFirst ==
  ASSUME NEW g, NEW F, NEW T, Iterates(g, F, T), IsFiniteSet(T),
         NatOn(F, T), NEW x \in T
  PROVE  /\ g[T] = F[x] + g[T \ {x}]
         /\ g[T] \in Nat /\ g[T \ {x}] \in Nat
<1>1. g[T] \in Nat /\ \A y \in T : g[T] = F[y] + g[T \ {y}]
  BY IteratesRemove
<1>2. \A s \in SUBSET T : g[s] \in Nat
  BY IteratesNat
<1>3. T \ {x} \in SUBSET T
  OBVIOUS
<1> QED
  BY <1>1, <1>2, <1>3

LEMMA TotalOf ==
  ASSUME NEW S, IsFiniteSet(S), NEW F \in [S -> Nat]
  PROVE  /\ Total(F, S) \in Nat
         /\ \A x \in S : F[x] <= Total(F, S)
<1>1. PICK g : Iterates(g, F, S) /\ Total(F, S) = g[S]
  BY TotalIterates
<1>2. NatOn(F, S)
  BY DEF NatOn
<1>3. \A s \in SUBSET S : g[s] \in Nat
  BY <1>1, <1>2, IteratesNat
<1>4. ASSUME NEW x \in S
      PROVE  F[x] <= Total(F, S)
  <2>1. /\ g[S] = F[x] + g[S \ {x}]
        /\ g[S] \in Nat /\ g[S \ {x}] \in Nat
    BY <1>1, <1>2, IteratesFirst
  <2>2. F[x] \in Nat
    OBVIOUS
  <2> QED
    BY <1>1, <2>1, <2>2
<1> QED
  BY <1>1, <1>3, <1>4

LEMMA TotalChange ==
  ASSUME NEW S, IsFiniteSet(S), NEW F \in [S -> Nat], NEW G \in [S -> Nat],
         NEW x \in S, \A y \in S : y # x => G[y] = F[y]
  PROVE  Total(G, S) + F[x] = Total(F, S) + G[x]
<1>1. PICK g : Iterates(g, F, S) /\ Total(F, S) = g[S]
  BY TotalIterates
<1>2. PICK h : Iterates(h, G, S) /\ Total(G, S) = h[S]
  BY TotalIterates
<1>3. NatOn(F, S) /\ NatOn(G, S)
  BY DEF NatOn
<1>4. g[S] = F[x] + g[S \ {x}]
  BY <1>1, <1>3, IteratesFirst
<1>5. h[S] = G[x] + h[S \ {x}]
  BY <1>2, <1>3, IteratesFirst
<1>6. g[S \ {x}] = h[S \ {x}]
  <2>1. IsFiniteSet(S \ {x})
    BY FS_RemoveElement
  <2>2. \A y \in S \ {x} : F[y] = G[y]
    OBVIOUS
  <2> QED
    BY <1>1, <1>2, <2>1, <2>2, IteratesAgree
<1>7. g[S \ {x}] \in Nat /\ F[x] \in Nat /\ G[x] \in Nat
  BY <1>1, <1>3, IteratesNat
<1> QED
  BY <1>1, <1>2, <1>4, <1>5, <1>6, <1>7

LEMMA TotalSame ==
  ASSUME NEW S, IsFiniteSet(S), NEW F, NEW G, \A x \in S : F[x] = G[x]
  PROVE  Total(F, S) = Total(G, S)
<1>1. PICK g : Iterates(g, F, S) /\ Total(F, S) = g[S]
  BY TotalIterates
<1>2. PICK h : Iterates(h, G, S) /\ Total(G, S) = h[S]
  BY TotalIterates
<1> QED
  BY <1>1, <1>2, IteratesAgree

\* Zeros add nothing, and ones count.
LEMMA TotalOfPart ==
  ASSUME NEW S, IsFiniteSet(S), NEW F \in [S -> Nat], NEW T \in SUBSET S,
         \A x \in S \ T : F[x] = 0
  PROVE  Total(F, S) = Total(F, T)
<1>1. PICK g : Iterates(g, F, S) /\ Total(F, S) = g[S]
  BY TotalIterates
<1>2. NatOn(F, S)
  BY DEF NatOn
<1> DEFINE Q == {s \in SUBSET S : g[s] = g[s \cap T]}
<1>3. ASSUME NEW s \in SUBSET S, \A x \in s : s \ {x} \in Q
      PROVE  s \in Q
  <2>1. CASE s \subseteq T
    <3>1. s \cap T = s
      BY <2>1
    <3> QED
      BY <3>1
  <2>2. CASE ~(s \subseteq T)
    <3>1. PICK x \in s : x \notin T
      BY <2>2
    <3>2. s \ {x} \in Q /\ (s \ {x}) \cap T = s \cap T
      BY <1>3, <3>1
    <3>3. g[s] = F[x] + g[s \ {x}]
      <4>1. [u \in SUBSET s |-> g[u]][s] = F[x] + [u \in SUBSET s |-> g[u]][s \ {x}]
        <5>1. Iterates([u \in SUBSET s |-> g[u]], F, s)
          <6>1. \A u \in SUBSET s : u \in SUBSET S /\ u \ {Pick(u)} \in SUBSET s
            OBVIOUS
          <6>2. \A u \in SUBSET s :
                  g[u] = IF u = {} THEN 0 ELSE F[Pick(u)] + g[u \ {Pick(u)}]
            BY <1>1, <6>1, IteratesAt
          <6> QED
            BY <6>1, <6>2 DEF Iterates
        <5>2. IsFiniteSet(s)
          BY FS_Subset
        <5>3. NatOn(F, s)
          BY <1>2 DEF NatOn
        <5> QED
          BY <3>1, <5>1, <5>2, <5>3, IteratesFirst
      <4> QED
        BY <4>1
    <3>4. F[x] = 0 /\ g[s \ {x}] \in Nat
      BY <1>1, <1>2, <3>1, IteratesNat
    <3> QED
      BY <3>2, <3>3, <3>4
  <2> QED
    BY <2>1, <2>2
<1> HIDE DEF Q
<1>4. SUBSET S \subseteq Q
  BY <1>3, SubsetInduction
<1>5. g[S] = g[T]
  <2>1. S \cap T = T
    OBVIOUS
  <2> QED
    BY <1>4, <2>1 DEF Q
<1>6. PICK h : Iterates(h, F, T) /\ Total(F, T) = h[T]
  BY TotalIterates, FS_Subset
<1>7. g[T] = h[T]
  BY <1>1, <1>6, IteratesAgree, FS_Subset
<1> QED
  BY <1>1, <1>5, <1>6, <1>7

LEMMA TotalOfOnes ==
  ASSUME NEW S, IsFiniteSet(S), NEW F, \A x \in S : F[x] = 1
  PROVE  Total(F, S) = Cardinality(S)
<1>1. PICK g : Iterates(g, F, S) /\ Total(F, S) = g[S]
  BY TotalIterates
<1> DEFINE Q == {s \in SUBSET S : g[s] = Cardinality(s)}
<1>2. ASSUME NEW s \in SUBSET S, \A x \in s : s \ {x} \in Q
      PROVE  s \in Q
  <2>1. CASE s = {}
    BY <1>1, <2>1, IteratesAt, FS_EmptySet
  <2>2. CASE s # {}
    <3>1. Pick(s) \in s /\ g[s] = F[Pick(s)] + g[s \ {Pick(s)}]
      BY <1>1, <2>2, PickIn, IteratesAt
    <3>2. g[s \ {Pick(s)}] = Cardinality(s \ {Pick(s)})
      BY <1>2, <3>1
    <3>3. IsFiniteSet(s) /\ Cardinality(s) \in Nat
      BY FS_Subset, FS_CardinalityType
    <3>4. Cardinality(s \ {Pick(s)}) = Cardinality(s) - 1
      BY <3>1, <3>3, FS_RemoveElement
    <3> QED
      BY <3>1, <3>2, <3>3, <3>4
  <2> QED
    BY <2>1, <2>2
<1> HIDE DEF Q
<1>3. SUBSET S \subseteq Q
  BY <1>2, SubsetInduction
<1> QED
  BY <1>1, <1>3 DEF Q

-----------------------------------------------------------------------------
(* What the usage rows of a grant add up to                                *)

Is(ev, g, status, r) == ev[r].status = status /\ ev[r].grant = g

HeldAt(ev, g) == [r \in Refs |-> IF Is(ev, g, "reserved", r) THEN ev[r].hold ELSE 0]
PaidAt(ev, g) == [r \in Refs |-> IF Is(ev, g, "settled", r) THEN ev[r].cost ELSE 0]
HeldIs(ev, g) == [r \in Refs |-> IF Is(ev, g, "reserved", r) THEN 1 ELSE 0]
PaidIs(ev, g) == [r \in Refs |-> IF Is(ev, g, "settled", r) THEN 1 ELSE 0]

HeldCost(ev, g) == Total(HeldAt(ev, g), Refs)
PaidCost(ev, g) == Total(PaidAt(ev, g), Refs)
HeldCalls(ev, g) == Total(HeldIs(ev, g), Refs)
PaidCalls(ev, g) == Total(PaidIs(ev, g), Refs)

EventTables == [Refs -> UsageEventRows]
GrantTables == [Grants -> GrantRows]

LEMMA RefsFinite == IsFiniteSet(Refs)
<1>1. IsFiniteSet(Tasks) /\ IsFiniteSet(0 .. MaxAttempt)
  BY SpendAssumption, FS_Interval
<1> QED
  BY <1>1, FS_Product DEF Refs

LEMMA TallyTyped ==
  ASSUME NEW ev \in EventTables, NEW g
  PROVE  /\ HeldAt(ev, g) \in [Refs -> Nat] /\ PaidAt(ev, g) \in [Refs -> Nat]
         /\ HeldIs(ev, g) \in [Refs -> Nat] /\ PaidIs(ev, g) \in [Refs -> Nat]
<1>1. \A r \in Refs : ev[r].hold \in Nat /\ ev[r].cost \in Nat
  BY DEF EventTables, UsageEventRows
<1> QED
  BY <1>1 DEF HeldAt, PaidAt, HeldIs, PaidIs

LEMMA TallyNat ==
  ASSUME NEW ev \in EventTables, NEW g
  PROVE  /\ HeldCost(ev, g) \in Nat /\ PaidCost(ev, g) \in Nat
         /\ HeldCalls(ev, g) \in Nat /\ PaidCalls(ev, g) \in Nat
<1>1. HeldCost(ev, g) \in Nat
  BY TallyTyped, RefsFinite, TotalOf DEF HeldCost
<1>2. PaidCost(ev, g) \in Nat
  BY TallyTyped, RefsFinite, TotalOf DEF PaidCost
<1>3. HeldCalls(ev, g) \in Nat
  BY TallyTyped, RefsFinite, TotalOf DEF HeldCalls
<1>4. PaidCalls(ev, g) \in Nat
  BY TallyTyped, RefsFinite, TotalOf DEF PaidCalls
<1> QED
  BY <1>1, <1>2, <1>3, <1>4

\* A held call is part of what is held.
LEMMA HeldIncludes ==
  ASSUME NEW ev \in EventTables, NEW g, NEW r \in Refs, Is(ev, g, "reserved", r)
  PROVE  ev[r].hold <= HeldCost(ev, g) /\ 1 <= HeldCalls(ev, g)
<1>1. HeldAt(ev, g)[r] = ev[r].hold /\ HeldIs(ev, g)[r] = 1
  BY DEF HeldAt, HeldIs
<1>2. HeldAt(ev, g)[r] <= HeldCost(ev, g)
  BY TallyTyped, RefsFinite, TotalOf DEF HeldCost
<1>3. HeldIs(ev, g)[r] <= HeldCalls(ev, g)
  BY TallyTyped, RefsFinite, TotalOf DEF HeldCalls
<1> QED
  BY <1>1, <1>2, <1>3

\* A grant no usage row names adds up to nothing.
LEMMA TallyNone ==
  ASSUME NEW ev \in EventTables, NEW g,
         \A r \in Refs : ~Is(ev, g, "reserved", r) /\ ~Is(ev, g, "settled", r)
  PROVE  /\ HeldCost(ev, g) = 0 /\ PaidCost(ev, g) = 0
         /\ HeldCalls(ev, g) = 0 /\ PaidCalls(ev, g) = 0
<1> DEFINE Z == [r \in Refs |-> 0]
<1>1. HeldAt(ev, g) = Z /\ PaidAt(ev, g) = Z /\ HeldIs(ev, g) = Z /\ PaidIs(ev, g) = Z
  BY DEF HeldAt, PaidAt, HeldIs, PaidIs
<1>2. Total(Z, Refs) = 0
  <2>1. Z \in [Refs -> Nat] /\ \A x \in Refs \ {} : Z[x] = 0
    OBVIOUS
  <2> HIDE DEF Z
  <2>2. Total(Z, Refs) = Total(Z, {})
    BY <2>1, RefsFinite, TotalOfPart
  <2>3. PICK h : Iterates(h, Z, {}) /\ Total(Z, {}) = h[{}]
    BY TotalIterates, FS_EmptySet
  <2>4. h[{}] = 0
    BY <2>3, IteratesAt
  <2> QED
    BY <2>2, <2>3, <2>4
<1> HIDE DEF Z
<1> QED
  BY <1>1, <1>2 DEF HeldCost, PaidCost, HeldCalls, PaidCalls

\* One usage row changes.
LEMMA TallyChange ==
  ASSUME NEW ev \in EventTables, NEW e2 \in EventTables, NEW g, NEW r \in Refs,
         \A q \in Refs : q # r => e2[q] = ev[q]
  PROVE  /\ HeldCost(e2, g) + HeldAt(ev, g)[r] = HeldCost(ev, g) + HeldAt(e2, g)[r]
         /\ PaidCost(e2, g) + PaidAt(ev, g)[r] = PaidCost(ev, g) + PaidAt(e2, g)[r]
         /\ HeldCalls(e2, g) + HeldIs(ev, g)[r] = HeldCalls(ev, g) + HeldIs(e2, g)[r]
         /\ PaidCalls(e2, g) + PaidIs(ev, g)[r] = PaidCalls(ev, g) + PaidIs(e2, g)[r]
<1>1. \A q \in Refs : q # r =>
        /\ HeldAt(e2, g)[q] = HeldAt(ev, g)[q] /\ PaidAt(e2, g)[q] = PaidAt(ev, g)[q]
        /\ HeldIs(e2, g)[q] = HeldIs(ev, g)[q] /\ PaidIs(e2, g)[q] = PaidIs(ev, g)[q]
  BY DEF HeldAt, PaidAt, HeldIs, PaidIs, Is
<1>2. HeldCost(e2, g) + HeldAt(ev, g)[r] = HeldCost(ev, g) + HeldAt(e2, g)[r]
  BY <1>1, TallyTyped, RefsFinite, TotalChange DEF HeldCost
<1>3. PaidCost(e2, g) + PaidAt(ev, g)[r] = PaidCost(ev, g) + PaidAt(e2, g)[r]
  BY <1>1, TallyTyped, RefsFinite, TotalChange DEF PaidCost
<1>4. HeldCalls(e2, g) + HeldIs(ev, g)[r] = HeldCalls(ev, g) + HeldIs(e2, g)[r]
  BY <1>1, TallyTyped, RefsFinite, TotalChange DEF HeldCalls
<1>5. PaidCalls(e2, g) + PaidIs(ev, g)[r] = PaidCalls(ev, g) + PaidIs(e2, g)[r]
  BY <1>1, TallyTyped, RefsFinite, TotalChange DEF PaidCalls
<1> QED
  BY <1>2, <1>3, <1>4, <1>5

LEMMA ReserveTally ==
  ASSUME NEW ev \in EventTables, NEW e2 \in EventTables, NEW g, NEW k, NEW r \in Refs,
         \A q \in Refs : q # r => e2[q] = ev[q], ev[r].status = "none",
         Is(e2, g, "reserved", r)
  PROVE  /\ PaidCost(e2, k) = PaidCost(ev, k) /\ PaidCalls(e2, k) = PaidCalls(ev, k)
         /\ k # g => HeldCost(e2, k) = HeldCost(ev, k) /\ HeldCalls(e2, k) = HeldCalls(ev, k)
         /\ HeldCost(e2, g) = HeldCost(ev, g) + e2[r].hold
         /\ HeldCalls(e2, g) = HeldCalls(ev, g) + 1
<1>1. /\ HeldAt(ev, k)[r] = 0 /\ PaidAt(ev, k)[r] = 0 /\ HeldIs(ev, k)[r] = 0
      /\ PaidIs(ev, k)[r] = 0 /\ HeldAt(ev, g)[r] = 0 /\ HeldIs(ev, g)[r] = 0
      /\ PaidAt(e2, k)[r] = 0 /\ PaidIs(e2, k)[r] = 0
      /\ HeldAt(e2, g)[r] = e2[r].hold /\ HeldIs(e2, g)[r] = 1
      /\ k # g => HeldAt(e2, k)[r] = 0 /\ HeldIs(e2, k)[r] = 0
  BY DEF HeldAt, PaidAt, HeldIs, PaidIs, Is
<1>2. e2[r].hold \in Nat
  BY DEF EventTables, UsageEventRows
<1> QED
  BY <1>1, <1>2, TallyNat, TallyChange

\* A held call is settled or released.
LEMMA EndTally ==
  ASSUME NEW ev \in EventTables, NEW e2 \in EventTables, NEW g, NEW k, NEW r \in Refs,
         \A q \in Refs : q # r => e2[q] = ev[q], Is(ev, g, "reserved", r),
         e2[r].grant = g, e2[r].status \in {"settled", "released"}
  PROVE  /\ k # g => /\ HeldCost(e2, k) = HeldCost(ev, k)
                     /\ HeldCalls(e2, k) = HeldCalls(ev, k)
                     /\ PaidCost(e2, k) = PaidCost(ev, k)
                     /\ PaidCalls(e2, k) = PaidCalls(ev, k)
         /\ HeldCost(e2, g) + ev[r].hold = HeldCost(ev, g)
         /\ HeldCalls(e2, g) + 1 = HeldCalls(ev, g)
         /\ e2[r].status = "settled" => /\ PaidCost(e2, g) = PaidCost(ev, g) + e2[r].cost
                                        /\ PaidCalls(e2, g) = PaidCalls(ev, g) + 1
         /\ e2[r].status = "released" => /\ PaidCost(e2, g) = PaidCost(ev, g)
                                         /\ PaidCalls(e2, g) = PaidCalls(ev, g)
<1>1. /\ k # g => /\ HeldAt(ev, k)[r] = 0 /\ HeldIs(ev, k)[r] = 0
                  /\ PaidAt(ev, k)[r] = 0 /\ PaidIs(ev, k)[r] = 0
                  /\ HeldAt(e2, k)[r] = 0 /\ HeldIs(e2, k)[r] = 0
                  /\ PaidAt(e2, k)[r] = 0 /\ PaidIs(e2, k)[r] = 0
      /\ HeldAt(ev, g)[r] = ev[r].hold /\ HeldIs(ev, g)[r] = 1
      /\ PaidAt(ev, g)[r] = 0 /\ PaidIs(ev, g)[r] = 0
      /\ HeldAt(e2, g)[r] = 0 /\ HeldIs(e2, g)[r] = 0
      /\ e2[r].status = "settled" => PaidAt(e2, g)[r] = e2[r].cost /\ PaidIs(e2, g)[r] = 1
      /\ e2[r].status = "released" => PaidAt(e2, g)[r] = 0 /\ PaidIs(e2, g)[r] = 0
  BY DEF HeldAt, PaidAt, HeldIs, PaidIs, Is
<1>2. ev[r].hold \in Nat /\ e2[r].cost \in Nat
  BY DEF EventTables, UsageEventRows
<1>3. CASE k # g
  BY <1>1, <1>3, TallyNat, TallyChange
<1>4. /\ HeldCost(e2, g) + ev[r].hold = HeldCost(ev, g)
      /\ HeldCalls(e2, g) + 1 = HeldCalls(ev, g)
  BY <1>1, <1>2, TallyNat, TallyChange
<1>5. /\ e2[r].status = "settled" => /\ PaidCost(e2, g) = PaidCost(ev, g) + e2[r].cost
                                     /\ PaidCalls(e2, g) = PaidCalls(ev, g) + 1
      /\ e2[r].status = "released" => /\ PaidCost(e2, g) = PaidCost(ev, g)
                                      /\ PaidCalls(e2, g) = PaidCalls(ev, g)
  BY <1>1, <1>2, TallyNat, TallyChange
<1> QED
  BY <1>3, <1>4, <1>5

-----------------------------------------------------------------------------
(* The ledger: grants, usage rows, and the session's copies of grants      *)

\* The row's counters cover the usage rows.
Covers(row, ev, g) ==
  /\ HeldCalls(ev, g) <= row.reservedReq /\ HeldCost(ev, g) <= row.reservedCost
  /\ PaidCalls(ev, g) <= row.spentReq /\ PaidCost(ev, g) <= row.spentCost

\* So do, together, those of a copy that settlements have passed by.
CopyCovers(row, ev, g) ==
  /\ HeldCalls(ev, g) <= row.reservedReq /\ HeldCost(ev, g) <= row.reservedCost
  /\ HeldCalls(ev, g) + PaidCalls(ev, g) <= CommittedRequests(row)
  /\ HeldCost(ev, g) + PaidCost(ev, g) <= CommittedCost(row)

Within(ev, g) ==
  /\ HeldCalls(ev, g) + PaidCalls(ev, g) <= MaxRequests
  /\ HeldCost(ev, g) + PaidCost(ev, g) <= MaxCost

\* A usage row names a grant that exists.
Booked(gr, ev) ==
  \A r \in Refs : ev[r].status \in {"reserved", "settled"} =>
    ev[r].grant \in Grants /\ gr[ev[r].grant].status # "none"

Ledger(gr, ev) ==
  /\ gr \in GrantTables /\ ev \in EventTables /\ Booked(gr, ev)
  /\ \A g \in Grants : Covers(gr[g], ev, g) /\ Within(ev, g)

\* A copy shows the status and the scope of its row, and a row the tick's
\* transaction has ended is locked.
CopiesRight(gr, me, sg) ==
  \A g \in Grants :
    /\ gr[g].status = "none" <=> sg[g].status = "none"
    /\ gr[g].status = "active" => sg[g].status = "active"
    /\ sg[g].status = "active" /\ gr[g].status # "active" => me[g] # Unloaded
    /\ me[g] # Unloaded => /\ me[g].status = gr[g].status /\ gr[g].status # "none"
                           /\ me[g].envelope = gr[g].envelope

OneActive(gr) ==
  \A g, h \in Grants : gr[g].status = "active" /\ gr[h].status = "active" => g = h

MemTables == [Grants -> GrantRows \cup {Unloaded}]

Money(gr, ev, me, sg, se) ==
  /\ Ledger(gr, ev) /\ Ledger(sg, se)
  /\ me \in MemTables /\ CopiesRight(gr, me, sg) /\ OneActive(sg)
  /\ \A g \in Grants : me[g] # Unloaded => CopyCovers(me[g], ev, g)

Nothing == [g \in Grants |-> Unloaded]

LEMMA GrantRowTyped ==
  ASSUME NEW row \in GrantRows
  PROVE  /\ row.reservedReq \in Nat /\ row.reservedCost \in Nat
         /\ row.spentReq \in Nat /\ row.spentCost \in Nat
         /\ row # Unloaded
  BY UnloadedAssumption DEF GrantRows

LEMMA OneActiveNow ==
  ASSUME NEW gr, NEW ev, NEW me, NEW sg, NEW se, Money(gr, ev, me, sg, se)
  PROVE  OneActive(gr)
  BY DEF Money, CopiesRight, OneActive

\* What a row says besides its counters does not matter to the ledger.
SameCounters(a, b) ==
  /\ a.reservedReq = b.reservedReq /\ a.reservedCost = b.reservedCost
  /\ a.spentReq = b.spentReq /\ a.spentCost = b.spentCost

LEMMA CoversSame ==
  ASSUME NEW a, NEW b, SameCounters(a, b), NEW ev, NEW g
  PROVE  /\ Covers(a, ev, g) <=> Covers(b, ev, g)
         /\ CopyCovers(a, ev, g) <=> CopyCovers(b, ev, g)
  BY DEF SameCounters, Covers, CopyCovers, CommittedRequests, CommittedCost

LEMMA RestatedRow ==
  ASSUME NEW a \in GrantRows, NEW b \in GrantRows
  PROVE  LET x == [a EXCEPT !.status = b.status] IN
         /\ x \in GrantRows /\ x.status = b.status /\ x.envelope = a.envelope
         /\ SameCounters(x, a)
  BY DEF GrantRows, SameCounters

LEMMA CoversCopy ==
  ASSUME NEW row \in GrantRows, NEW ev \in EventTables, NEW g, Covers(row, ev, g)
  PROVE  CopyCovers(row, ev, g)
  BY TallyNat, GrantRowTyped DEF Covers, CopyCovers, CommittedRequests, CommittedCost

LEMMA CommitKeeps ==
  ASSUME NEW gr, NEW ev, NEW me, NEW sg, NEW se, Money(gr, ev, me, sg, se)
  PROVE  Money(gr, ev, Nothing, gr, ev)
<1>1. OneActive(gr)
  BY OneActiveNow
<1>2. Nothing \in MemTables /\ \A g \in Grants : Nothing[g] = Unloaded
  BY DEF Nothing, MemTables
<1>3. CopiesRight(gr, Nothing, gr)
  BY <1>2 DEF CopiesRight
<1> QED
  BY <1>1, <1>2, <1>3 DEF Money

LEMMA RollbackKeeps ==
  ASSUME NEW gr, NEW ev, NEW me, NEW sg, NEW se, Money(gr, ev, me, sg, se)
  PROVE  Money(sg, se, Nothing, sg, se)
<1>1. Nothing \in MemTables /\ \A g \in Grants : Nothing[g] = Unloaded
  BY DEF Nothing, MemTables
<1>2. CopiesRight(sg, Nothing, sg)
  BY <1>1 DEF CopiesRight
<1> QED
  BY <1>1, <1>2 DEF Money

\* The row of g is loaded, or marked, or both.
LEMMA MarkKeeps ==
  ASSUME NEW gr, NEW ev, NEW me, NEW sg, NEW se, Money(gr, ev, me, sg, se),
         NEW g \in Grants, gr[g].status # "none", NEW row \in GrantRows,
         row.envelope = gr[g].envelope, row.status # "none",
         row.status = "active" => gr[g].status = "active",
         CopyCovers(row, ev, g)
  PROVE  Money([gr EXCEPT ![g].status = row.status], ev, [me EXCEPT ![g] = row], sg, se)
<1> DEFINE g2 == [gr EXCEPT ![g].status = row.status]
           m2 == [me EXCEPT ![g] = row]
<1>1. gr \in GrantTables /\ gr[g] \in GrantRows /\ me \in MemTables
  BY DEF Money, Ledger, GrantTables
<1>2. PICK x \in GrantRows : /\ x = [gr[g] EXCEPT !.status = row.status]
                             /\ x.status = row.status /\ x.envelope = gr[g].envelope
                             /\ SameCounters(x, gr[g])
  <2>1. PICK a \in GrantRows : a = gr[g]
    BY <1>1
  <2> DEFINE x == [a EXCEPT !.status = row.status]
  <2>2. /\ x \in GrantRows /\ x.status = row.status /\ x.envelope = a.envelope
        /\ SameCounters(x, a)
    BY RestatedRow
  <2>3. x = [gr[g] EXCEPT !.status = row.status]
    BY <2>1
  <2> QED
    BY <2>1, <2>2, <2>3
<1>3. g2 \in GrantTables /\ g2[g] = x /\ \A h \in Grants \ {g} : g2[h] = gr[h]
  BY <1>1, <1>2 DEF GrantTables
<1>4. m2 \in MemTables /\ m2[g] = row /\ \A h \in Grants \ {g} : m2[h] = me[h]
  BY <1>1 DEF MemTables
<1> HIDE DEF g2, m2
<1>5. Ledger(g2, ev)
  <2>1. \A h \in Grants : Covers(g2[h], ev, h)
    BY <1>2, <1>3, CoversSame DEF Money, Ledger
  <2>2. Booked(g2, ev)
    BY <1>2, <1>3 DEF Money, Ledger, Booked
  <2> QED
    BY <1>3, <2>1, <2>2 DEF Money, Ledger
<1>6. row # Unloaded
  BY GrantRowTyped
<1>7. CopiesRight(g2, m2, sg)
  <2> SUFFICES ASSUME NEW h \in Grants
               PROVE  /\ g2[h].status = "none" <=> sg[h].status = "none"
                      /\ g2[h].status = "active" => sg[h].status = "active"
                      /\ sg[h].status = "active" /\ g2[h].status # "active"
                           => m2[h] # Unloaded
                      /\ m2[h] # Unloaded =>
                           /\ m2[h].status = g2[h].status /\ g2[h].status # "none"
                           /\ m2[h].envelope = g2[h].envelope
    BY DEF CopiesRight
  <2>1. CASE h = g
    BY <1>2, <1>3, <1>4, <1>6, <2>1 DEF Money, CopiesRight
  <2>2. CASE h # g
    BY <1>3, <1>4, <2>2 DEF Money, CopiesRight
  <2> QED
    BY <2>1, <2>2
<1>8. \A h \in Grants : m2[h] # Unloaded => CopyCovers(m2[h], ev, h)
  BY <1>4 DEF Money
<1> QED
  BY <1>4, <1>5, <1>7, <1>8 DEF Money, g2, m2

\* A hold is taken, from the row the session sees.
LEMMA ReserveKeeps ==
  ASSUME NEW gr, NEW ev, NEW me, NEW sg, NEW se, Money(gr, ev, me, sg, se),
         NEW g \in Grants, gr[g].status = "active",
         NEW r \in Refs, ev[r].status = "none",
         NEW row \in GrantRows, CopyCovers(row, ev, g),
         row.status = gr[g].status, row.envelope = gr[g].envelope,
         NEW cost \in Nat,
         CommittedRequests(row) + 1 <= MaxRequests,
         cost = 0 \/ CommittedCost(row) + cost <= MaxCost,
         NEW held \in GrantRows,
         held.status = row.status, held.envelope = row.envelope,
         held.reservedReq = row.reservedReq + 1,
         held.reservedCost = row.reservedCost + cost,
         held.spentReq = row.spentReq, held.spentCost = row.spentCost,
         NEW e2 \in EventTables, \A q \in Refs : q # r => e2[q] = ev[q],
         Is(e2, g, "reserved", r), e2[r].hold = cost,
         NEW g2 \in GrantTables, \A h \in Grants : h # g => g2[h] = gr[h],
         g2[g].status = gr[g].status, g2[g].envelope = gr[g].envelope,
         g2[g].spentReq = gr[g].spentReq, g2[g].spentCost = gr[g].spentCost,
         g2[g].reservedReq = held.reservedReq, g2[g].reservedCost = held.reservedCost
  PROVE  Money(g2, e2, [me EXCEPT ![g] = held], sg, se)
<1> DEFINE m2 == [me EXCEPT ![g] = held]
<1>1. gr \in GrantTables /\ ev \in EventTables /\ me \in MemTables
  BY DEF Money, Ledger
<1>2. m2 \in MemTables /\ m2[g] = held /\ \A h \in Grants \ {g} : m2[h] = me[h]
  BY <1>1 DEF MemTables
<1> HIDE DEF m2
<1>3. /\ HeldCost(e2, g) = HeldCost(ev, g) + cost
      /\ HeldCalls(e2, g) = HeldCalls(ev, g) + 1
      /\ PaidCost(e2, g) = PaidCost(ev, g) /\ PaidCalls(e2, g) = PaidCalls(ev, g)
  BY <1>1, ReserveTally
<1>4. \A h \in Grants : h # g =>
        /\ HeldCost(e2, h) = HeldCost(ev, h) /\ HeldCalls(e2, h) = HeldCalls(ev, h)
        /\ PaidCost(e2, h) = PaidCost(ev, h) /\ PaidCalls(e2, h) = PaidCalls(ev, h)
  BY <1>1, ReserveTally
<1>5. /\ HeldCost(ev, g) \in Nat /\ HeldCalls(ev, g) \in Nat
      /\ PaidCost(ev, g) \in Nat /\ PaidCalls(ev, g) \in Nat
  BY <1>1, TallyNat
<1>6. /\ row.reservedReq \in Nat /\ row.reservedCost \in Nat
      /\ row.spentReq \in Nat /\ row.spentCost \in Nat
  BY GrantRowTyped
<1>7. Within(ev, g) /\ Covers(gr[g], ev, g)
  BY DEF Money, Ledger
<1>8. Covers(g2[g], e2, g)
  BY <1>3, <1>5, <1>6, <1>7 DEF Covers, CopyCovers
<1>9. CopyCovers(held, e2, g)
  BY <1>3, <1>5, <1>6 DEF CopyCovers, CommittedRequests, CommittedCost
<1>10. Within(e2, g)
  <2>1. HeldCalls(e2, g) + PaidCalls(e2, g) <= MaxRequests
    BY <1>3, <1>5, <1>6, SpendAssumption DEF CopyCovers, CommittedRequests
  <2>2. HeldCost(e2, g) + PaidCost(e2, g) <= MaxCost
    <3>1. CASE cost = 0
      BY <1>3, <1>5, <1>7, <3>1 DEF Within
    <3>2. CASE CommittedCost(row) + cost <= MaxCost
      BY <1>3, <1>5, <1>6, <3>2, SpendAssumption DEF CopyCovers, CommittedCost
    <3> QED
      BY <3>1, <3>2
  <2> QED
    BY <2>1, <2>2 DEF Within
<1>11. \A h \in Grants : Covers(g2[h], e2, h) /\ Within(e2, h)
  <2>1. ASSUME NEW h \in Grants, h # g
        PROVE  Covers(g2[h], e2, h) /\ Within(e2, h)
    BY <1>4, <2>1 DEF Money, Ledger, Covers, Within
  <2> QED
    BY <1>8, <1>10, <2>1
<1>12. Booked(g2, e2)
  BY DEF Money, Ledger, Booked, Is
<1>13. held # Unloaded
  BY GrantRowTyped
<1>14. CopiesRight(g2, m2, sg)
  <2> SUFFICES ASSUME NEW h \in Grants
               PROVE  /\ g2[h].status = "none" <=> sg[h].status = "none"
                      /\ g2[h].status = "active" => sg[h].status = "active"
                      /\ sg[h].status = "active" /\ g2[h].status # "active"
                           => m2[h] # Unloaded
                      /\ m2[h] # Unloaded =>
                           /\ m2[h].status = g2[h].status /\ g2[h].status # "none"
                           /\ m2[h].envelope = g2[h].envelope
    BY DEF CopiesRight
  <2>1. CASE h = g
    BY <1>2, <1>13, <2>1 DEF Money, CopiesRight
  <2>2. CASE h # g
    BY <1>2, <2>2 DEF Money, CopiesRight
  <2> QED
    BY <2>1, <2>2
<1>15. \A h \in Grants : m2[h] # Unloaded => CopyCovers(m2[h], e2, h)
  <2>1. ASSUME NEW h \in Grants, h # g, m2[h] # Unloaded
        PROVE  CopyCovers(m2[h], e2, h)
    BY <1>2, <1>4, <2>1 DEF Money, CopyCovers
  <2> QED
    BY <1>2, <1>9, <2>1
<1> QED
  BY <1>2, <1>11, <1>12, <1>14, <1>15 DEF Money, Ledger, m2

\* A held call is settled, or released: the copy is left as it was.
LEMMA EndKeeps ==
  ASSUME NEW gr, NEW ev, NEW me, NEW sg, NEW se, Money(gr, ev, me, sg, se),
         NEW g \in Grants, NEW r \in Refs, Is(ev, g, "reserved", r),
         NEW e2 \in EventTables, \A q \in Refs : q # r => e2[q] = ev[q],
         e2[r].grant = g,
         NEW g2 \in GrantTables, \A h \in Grants : h # g => g2[h] = gr[h],
         g2[g].status = gr[g].status, g2[g].envelope = gr[g].envelope,
         g2[g].reservedReq + 1 = gr[g].reservedReq,
         g2[g].reservedCost + ev[r].hold = gr[g].reservedCost,
         \/ /\ e2[r].status = "settled" /\ e2[r].cost <= ev[r].hold
            /\ g2[g].spentReq = gr[g].spentReq + 1
            /\ g2[g].spentCost = gr[g].spentCost + e2[r].cost
         \/ /\ e2[r].status = "released"
            /\ g2[g].spentReq = gr[g].spentReq /\ g2[g].spentCost = gr[g].spentCost
  PROVE  Money(g2, e2, me, sg, se)
<1>1. gr \in GrantTables /\ ev \in EventTables /\ me \in MemTables
  BY DEF Money, Ledger
<1>2. /\ HeldCost(e2, g) + ev[r].hold = HeldCost(ev, g)
      /\ HeldCalls(e2, g) + 1 = HeldCalls(ev, g)
      /\ e2[r].status = "settled" => /\ PaidCost(e2, g) = PaidCost(ev, g) + e2[r].cost
                                     /\ PaidCalls(e2, g) = PaidCalls(ev, g) + 1
      /\ e2[r].status = "released" => /\ PaidCost(e2, g) = PaidCost(ev, g)
                                      /\ PaidCalls(e2, g) = PaidCalls(ev, g)
  BY <1>1, EndTally
<1>3. \A h \in Grants : h # g =>
        /\ HeldCost(e2, h) = HeldCost(ev, h) /\ HeldCalls(e2, h) = HeldCalls(ev, h)
        /\ PaidCost(e2, h) = PaidCost(ev, h) /\ PaidCalls(e2, h) = PaidCalls(ev, h)
  BY <1>1, EndTally
<1>4. /\ HeldCost(ev, g) \in Nat /\ HeldCalls(ev, g) \in Nat
      /\ PaidCost(ev, g) \in Nat /\ PaidCalls(ev, g) \in Nat
      /\ HeldCost(e2, g) \in Nat /\ HeldCalls(e2, g) \in Nat
      /\ PaidCost(e2, g) \in Nat /\ PaidCalls(e2, g) \in Nat
  BY <1>1, TallyNat
<1>5. /\ gr[g].reservedReq \in Nat /\ gr[g].reservedCost \in Nat
      /\ gr[g].spentReq \in Nat /\ gr[g].spentCost \in Nat
      /\ g2[g].reservedReq \in Nat /\ g2[g].reservedCost \in Nat
      /\ g2[g].spentReq \in Nat /\ g2[g].spentCost \in Nat
  <2>1. gr[g] \in GrantRows /\ g2[g] \in GrantRows
    BY <1>1 DEF GrantTables
  <2> QED
    BY <2>1, GrantRowTyped
<1>6. ev[r].hold \in Nat /\ e2[r].cost \in Nat
  BY <1>1 DEF EventTables, UsageEventRows
<1>7. Within(ev, g) /\ Covers(gr[g], ev, g)
  BY DEF Money, Ledger
<1>8. Covers(g2[g], e2, g)
  BY <1>2, <1>4, <1>5, <1>6, <1>7 DEF Covers
<1>9. Within(e2, g)
  <2>1. /\ HeldCalls(e2, g) + PaidCalls(e2, g) <= HeldCalls(ev, g) + PaidCalls(ev, g)
        /\ HeldCost(e2, g) + PaidCost(e2, g) <= HeldCost(ev, g) + PaidCost(ev, g)
    BY <1>2, <1>4, <1>6
  <2> QED
    BY <1>4, <1>7, <2>1, SpendAssumption DEF Within
<1>10. ASSUME NEW row \in GrantRows, CopyCovers(row, ev, g)
       PROVE  CopyCovers(row, e2, g)
  <2>1. /\ HeldCalls(e2, g) + PaidCalls(e2, g) <= HeldCalls(ev, g) + PaidCalls(ev, g)
        /\ HeldCost(e2, g) + PaidCost(e2, g) <= HeldCost(ev, g) + PaidCost(ev, g)
        /\ HeldCalls(e2, g) <= HeldCalls(ev, g) /\ HeldCost(e2, g) <= HeldCost(ev, g)
    BY <1>2, <1>4, <1>6
  <2>2. /\ row.reservedReq \in Nat /\ row.reservedCost \in Nat
        /\ row.spentReq \in Nat /\ row.spentCost \in Nat
    BY GrantRowTyped
  <2> QED
    BY <1>4, <1>10, <2>1, <2>2 DEF CopyCovers, CommittedRequests, CommittedCost
<1>11. \A h \in Grants : Covers(g2[h], e2, h) /\ Within(e2, h)
  <2>1. ASSUME NEW h \in Grants, h # g
        PROVE  Covers(g2[h], e2, h) /\ Within(e2, h)
    BY <1>3, <2>1 DEF Money, Ledger, Covers, Within
  <2> QED
    BY <1>8, <1>9, <2>1
<1>12. Booked(g2, e2)
  BY DEF Money, Ledger, Booked, Is
<1>13. CopiesRight(g2, me, sg)
  <2> SUFFICES ASSUME NEW h \in Grants
               PROVE  /\ g2[h].status = "none" <=> sg[h].status = "none"
                      /\ g2[h].status = "active" => sg[h].status = "active"
                      /\ sg[h].status = "active" /\ g2[h].status # "active"
                           => me[h] # Unloaded
                      /\ me[h] # Unloaded =>
                           /\ me[h].status = g2[h].status /\ g2[h].status # "none"
                           /\ me[h].envelope = g2[h].envelope
    BY DEF CopiesRight
  <2>1. CASE h = g
    BY <2>1 DEF Money, CopiesRight
  <2>2. CASE h # g
    BY <2>2 DEF Money, CopiesRight
  <2> QED
    BY <2>1, <2>2
<1>14. \A h \in Grants : me[h] # Unloaded => CopyCovers(me[h], e2, h)
  <2>1. ASSUME NEW h \in Grants, h # g, me[h] # Unloaded
        PROVE  CopyCovers(me[h], e2, h)
    BY <1>3, <2>1 DEF Money, CopyCovers
  <2>2. ASSUME me[g] # Unloaded
        PROVE  CopyCovers(me[g], e2, g)
    BY <1>1, <1>10, <2>2 DEF Money, MemTables
  <2> QED
    BY <2>1, <2>2
<1> QED
  BY <1>1, <1>11, <1>12, <1>13, <1>14 DEF Money, Ledger

\* No usage row names a grant that does not exist.
LEMMA CoversNew ==
  ASSUME NEW gr, NEW ev, Ledger(gr, ev), NEW g \in Grants, gr[g].status = "none",
         NEW row \in GrantRows
  PROVE  Covers(row, ev, g)
<1>1. ev \in EventTables /\ \A r \in Refs : ~Is(ev, g, "reserved", r) /\ ~Is(ev, g, "settled", r)
  BY DEF Ledger, Booked, Is
<1>2. /\ HeldCost(ev, g) = 0 /\ PaidCost(ev, g) = 0
      /\ HeldCalls(ev, g) = 0 /\ PaidCalls(ev, g) = 0
  BY <1>1, TallyNone
<1> QED
  BY <1>2, GrantRowTyped DEF Covers

\* The rows authorize_provider_spend writes: a new grant, the others ended.
Superseding(t2, t, act, g, row) ==
  /\ t2 \in GrantTables
  /\ t2[g] = row
  /\ \A h \in Grants : h # g =>
       /\ SameCounters(t2[h], t[h]) /\ t2[h].envelope = t[h].envelope
       /\ t2[h].status = IF h \in act THEN "superseded" ELSE t[h].status

LEMMA SupersededLedger ==
  ASSUME NEW t, NEW ev, Ledger(t, ev), NEW t2, NEW act, NEW g \in Grants,
         NEW row \in GrantRows, row.status = "active", t[g].status = "none",
         \A h \in act : t[h].status # "none",
         Superseding(t2, t, act, g, row)
  PROVE  Ledger(t2, ev)
<1>1. Covers(row, ev, g)
  BY CoversNew
<1>2. \A h \in Grants : Covers(t2[h], ev, h)
  BY <1>1, CoversSame DEF Ledger, Superseding
<1>3. Booked(t2, ev)
  BY DEF Ledger, Booked, Superseding
<1> QED
  BY <1>2, <1>3 DEF Ledger, Superseding

LEMMA AuthorizeKeeps ==
  ASSUME NEW gr, NEW ev, NEW me, NEW sg, NEW se, Money(gr, ev, me, sg, se),
         NEW g \in Grants, gr[g].status = "none",
         \A h \in Grants : sg[h].status = "active" => me[h] = Unloaded,
         NEW row \in GrantRows, row.status = "active", NEW act,
         act = {h \in Grants : gr[h].status = "active"},
         NEW g2, Superseding(g2, gr, act, g, row),
         NEW s2, Superseding(s2, sg, act, g, row)
  PROVE  Money(g2, ev, me, s2, se)
<1>1. sg[g].status = "none" /\ \A h \in act : gr[h].status # "none" /\ sg[h].status # "none"
  BY DEF Money, CopiesRight
<1>2. Ledger(g2, ev) /\ Ledger(s2, se)
  BY <1>1, SupersededLedger DEF Money
<1>3. me[g] = Unloaded
  BY DEF Money, CopiesRight
<1>4. \A h \in act : me[h] = Unloaded
  BY DEF Money, CopiesRight
<1>5. CopiesRight(g2, me, s2)
  <2> SUFFICES ASSUME NEW h \in Grants
               PROVE  /\ g2[h].status = "none" <=> s2[h].status = "none"
                      /\ g2[h].status = "active" => s2[h].status = "active"
                      /\ s2[h].status = "active" /\ g2[h].status # "active"
                           => me[h] # Unloaded
                      /\ me[h] # Unloaded =>
                           /\ me[h].status = g2[h].status /\ g2[h].status # "none"
                           /\ me[h].envelope = g2[h].envelope
    BY DEF CopiesRight
  <2>1. CASE h = g
    BY <1>3, <2>1 DEF Superseding
  <2>2. CASE h # g /\ h \in act
    BY <1>4, <2>2 DEF Superseding
  <2>3. CASE h # g /\ h \notin act
    BY <2>3 DEF Superseding, Money, CopiesRight
  <2> QED
    BY <2>1, <2>2, <2>3
<1>6. \A h \in Grants : s2[h].status = "active" => h = g
  <2> SUFFICES ASSUME NEW h \in Grants, s2[h].status = "active", h # g PROVE FALSE
    OBVIOUS
  <2>1. h \notin act /\ sg[h].status = "active"
    BY DEF Superseding
  <2>2. me[h] # Unloaded
    BY <2>1 DEF Money, CopiesRight
  <2> QED
    BY <2>1, <2>2
<1>7. OneActive(s2)
  BY <1>6 DEF OneActive
<1> QED
  BY <1>2, <1>5, <1>7 DEF Money

LEMMA RevokeKeeps ==
  ASSUME NEW gr, NEW ev, NEW me, NEW sg, NEW se, Money(gr, ev, me, sg, se),
         NEW g \in Grants, sg[g].status = "active", me[g] = Unloaded
  PROVE  Money([gr EXCEPT ![g].status = "revoked"], ev, me,
               [sg EXCEPT ![g].status = "revoked"], se)
<1>1. gr \in GrantTables /\ sg \in GrantTables
  BY DEF Money, Ledger
<1>2. ASSUME NEW t \in GrantTables
      PROVE  \E x \in GrantTables :
               /\ x = [t EXCEPT ![g].status = "revoked"] /\ x[g].status = "revoked"
               /\ SameCounters(x[g], t[g]) /\ \A h \in Grants \ {g} : x[h] = t[h]
  <2>1. t[g] \in GrantRows
    BY DEF GrantTables
  <2> DEFINE y == [t[g] EXCEPT !.status = "revoked"]
  <2>2. y \in GrantRows /\ y.status = "revoked" /\ SameCounters(y, t[g])
    BY <2>1 DEF GrantRows, SameCounters
  <2> HIDE DEF y
  <2>3. [t EXCEPT ![g] = y] \in GrantTables
    BY <2>2 DEF GrantTables
  <2>4. [t EXCEPT ![g] = y][g] = y /\ \A h \in Grants \ {g} : [t EXCEPT ![g] = y][h] = t[h]
    BY DEF GrantTables
  <2> QED
    BY <2>2, <2>3, <2>4 DEF y
<1>3. PICK g2 \in GrantTables :
        /\ g2 = [gr EXCEPT ![g].status = "revoked"] /\ g2[g].status = "revoked"
        /\ SameCounters(g2[g], gr[g]) /\ \A h \in Grants \ {g} : g2[h] = gr[h]
  BY <1>1, <1>2
<1>4. PICK s2 \in GrantTables :
        /\ s2 = [sg EXCEPT ![g].status = "revoked"] /\ s2[g].status = "revoked"
        /\ SameCounters(s2[g], sg[g]) /\ \A h \in Grants \ {g} : s2[h] = sg[h]
  BY <1>1, <1>2
<1>5. Ledger(g2, ev)
  <2>1. \A h \in Grants : Covers(g2[h], ev, h)
    BY <1>3, CoversSame DEF Money, Ledger
  <2>2. Booked(g2, ev)
    BY <1>3 DEF Money, Ledger, Booked
  <2> QED
    BY <2>1, <2>2 DEF Money, Ledger
<1>6. Ledger(s2, se)
  <2>1. \A h \in Grants : Covers(s2[h], se, h)
    BY <1>4, CoversSame DEF Money, Ledger
  <2>2. Booked(s2, se)
    BY <1>4 DEF Money, Ledger, Booked
  <2> QED
    BY <2>1, <2>2 DEF Money, Ledger
<1>7. CopiesRight(g2, me, s2)
  <2> SUFFICES ASSUME NEW h \in Grants
               PROVE  /\ g2[h].status = "none" <=> s2[h].status = "none"
                      /\ g2[h].status = "active" => s2[h].status = "active"
                      /\ s2[h].status = "active" /\ g2[h].status # "active"
                           => me[h] # Unloaded
                      /\ me[h] # Unloaded =>
                           /\ me[h].status = g2[h].status /\ g2[h].status # "none"
                           /\ me[h].envelope = g2[h].envelope
    BY DEF CopiesRight
  <2>1. CASE h = g
    BY <1>3, <1>4, <2>1
  <2>2. CASE h # g
    BY <1>3, <1>4, <2>2 DEF Money, CopiesRight
  <2> QED
    BY <2>1, <2>2
<1>8. OneActive(s2)
  BY <1>4 DEF Money, OneActive
<1>9. Money(g2, ev, me, s2, se)
  BY <1>5, <1>6, <1>7, <1>8 DEF Money
<1> QED
  BY <1>3, <1>4, <1>9

-----------------------------------------------------------------------------
(* Marking, loading, settling and releasing                                *)

LEMMA MarkFacts ==
  ASSUME NEW g, NEW row \in GrantRows
  PROVE  /\ MarkTerminal(g, row) \in GrantRows
         /\ SameCounters(MarkTerminal(g, row), row)
         /\ MarkTerminal(g, row).envelope = row.envelope
         /\ row.status # "none" => MarkTerminal(g, row).status # "none"
         /\ MarkTerminal(g, row).status = "active" => row.status = "active"
<1> DEFINE m == MarkTerminal(g, row)
<1>1. \/ m = row
      \/ m = [row EXCEPT !.status = "expired"]
      \/ m = [row EXCEPT !.status = "exhausted"]
  BY DEF MarkTerminal
<1> HIDE DEF m
<1>2. CASE m = row
  BY <1>2 DEF SameCounters, m
<1>3. CASE m = [row EXCEPT !.status = "expired"]
  BY <1>3 DEF GrantRows, SameCounters, m
<1>4. CASE m = [row EXCEPT !.status = "exhausted"]
  BY <1>4 DEF GrantRows, SameCounters, m
<1> QED
  BY <1>1, <1>2, <1>3, <1>4

MoneyRight == Money(grant, event, mem, saved.grant, saved.event)

LEMMA LoadedFacts ==
  ASSUME MoneyRight, NEW g \in Grants, grant[g].status # "none"
  PROVE  /\ Loaded(g) \in GrantRows /\ CopyCovers(Loaded(g), event, g)
         /\ Loaded(g).status = grant[g].status /\ Loaded(g).envelope = grant[g].envelope
<1>1. grant[g] \in GrantRows /\ event \in EventTables /\ mem[g] \in GrantRows \cup {Unloaded}
  BY DEF MoneyRight, Money, Ledger, GrantTables, MemTables
<1>2. CASE mem[g] = Unloaded
  <2>1. CopyCovers(grant[g], event, g)
    BY <1>1, CoversCopy DEF MoneyRight, Money, Ledger
  <2> QED
    BY <1>1, <1>2, <2>1 DEF Loaded
<1>3. CASE mem[g] # Unloaded
  BY <1>1, <1>3 DEF Loaded, MoneyRight, Money, CopiesRight
<1> QED
  BY <1>2, <1>3

LEMMA LoadKeeps ==
  ASSUME MoneyRight, LoadActive
  PROVE  Money(grant', event, mem', saved.grant, saved.event)
<1>1. CASE UNCHANGED <<grant, mem>>
  BY <1>1 DEF MoneyRight
<1>2. ASSUME NEW g \in ActiveGrants, LoadGrant(g)
      PROVE  Money(grant', event, mem', saved.grant, saved.event)
  <2>1. g \in Grants /\ grant[g].status = "active"
    BY DEF ActiveGrants
  <2>2. PICK row \in GrantRows :
          /\ row = Loaded(g) /\ CopyCovers(row, event, g)
          /\ row.status = "active" /\ row.envelope = grant[g].envelope
    BY <2>1, LoadedFacts
  <2>3. PICK m \in GrantRows :
          /\ m = MarkTerminal(g, row) /\ SameCounters(m, row)
          /\ m.envelope = row.envelope /\ m.status # "none"
    BY <2>2, MarkFacts
  <2>4. CopyCovers(m, event, g)
    BY <2>2, <2>3, CoversSame
  <2>5. Money([grant EXCEPT ![g].status = m.status], event, [mem EXCEPT ![g] = m],
              saved.grant, saved.event)
    BY <2>1, <2>2, <2>3, <2>4, MarkKeeps DEF MoneyRight
  <2> QED
    BY <1>2, <2>2, <2>3, <2>5 DEF LoadGrant
<1> QED
  BY <1>1, <1>2 DEF LoadActive

\* The rows settle_provider_spend_usage and release_provider_spend_usage write.
LEMMA HoldTaken ==
  ASSUME NEW gr, NEW ev, Ledger(gr, ev), NEW g \in Grants, NEW r \in Refs,
         Is(ev, g, "reserved", r)
  PROVE  /\ gr[g] \in GrantRows /\ ev[r] \in UsageEventRows
         /\ 1 <= gr[g].reservedReq /\ ev[r].hold <= gr[g].reservedCost
<1>1. gr[g] \in GrantRows /\ ev[r] \in UsageEventRows /\ ev \in EventTables
  BY DEF Ledger, GrantTables, EventTables
<1>2. ev[r].hold <= HeldCost(ev, g) /\ 1 <= HeldCalls(ev, g)
  BY <1>1, HeldIncludes
<1>3. HeldCost(ev, g) \in Nat /\ HeldCalls(ev, g) \in Nat
  BY <1>1, TallyNat
<1>4. HeldCalls(ev, g) <= gr[g].reservedReq /\ HeldCost(ev, g) <= gr[g].reservedCost
  BY DEF Ledger, Covers
<1>5. gr[g].reservedReq \in Nat /\ gr[g].reservedCost \in Nat
  BY <1>1, GrantRowTyped
<1>6. ev[r].hold \in Nat
  BY <1>1 DEF UsageEventRows
<1> QED
  BY <1>1, <1>2, <1>3, <1>4, <1>5, <1>6

LEMMA SpentRow ==
  ASSUME NEW row \in GrantRows, NEW hold \in Nat, NEW cost \in Nat,
         1 <= row.reservedReq, hold <= row.reservedCost
  PROVE  LET x == Spent(row, hold, cost)
             y == Unheld(row, hold)
         IN  /\ x \in GrantRows /\ x.status = row.status /\ x.envelope = row.envelope
             /\ x.reservedReq + 1 = row.reservedReq
             /\ x.reservedCost + hold = row.reservedCost
             /\ x.spentReq = row.spentReq + 1 /\ x.spentCost = row.spentCost + cost
             /\ y \in GrantRows /\ y.status = row.status /\ y.envelope = row.envelope
             /\ y.reservedReq + 1 = row.reservedReq
             /\ y.reservedCost + hold = row.reservedCost
             /\ y.spentReq = row.spentReq /\ y.spentCost = row.spentCost
<1>1. /\ row.reservedReq \in Nat /\ row.reservedCost \in Nat
      /\ row.spentReq \in Nat /\ row.spentCost \in Nat
  BY GrantRowTyped
<1>2. /\ row.reservedReq - 1 \in Nat /\ row.reservedCost - hold \in Nat
      /\ row.spentReq + 1 \in Nat /\ row.spentCost + cost \in Nat
      /\ (row.reservedReq - 1) + 1 = row.reservedReq
      /\ (row.reservedCost - hold) + hold = row.reservedCost
  BY <1>1
<1>3. PICK a \in Nat, b \in Nat, c \in Nat, d \in Nat :
        /\ a = row.reservedReq - 1 /\ b = row.reservedCost - hold
        /\ c = row.spentReq + 1 /\ d = row.spentCost + cost
  BY <1>2
<1>4. Spent(row, hold, cost) = [row EXCEPT !.reservedReq = a, !.reservedCost = b,
                                           !.spentReq = c, !.spentCost = d]
  BY <1>3 DEF Spent
<1>5. Unheld(row, hold) = [row EXCEPT !.reservedReq = a, !.reservedCost = b]
  BY <1>3 DEF Unheld
<1>6. /\ Spent(row, hold, cost) \in GrantRows /\ Unheld(row, hold) \in GrantRows
      /\ Spent(row, hold, cost).status = row.status
      /\ Spent(row, hold, cost).envelope = row.envelope
      /\ Unheld(row, hold).status = row.status
      /\ Unheld(row, hold).envelope = row.envelope
      /\ Spent(row, hold, cost).reservedReq = a /\ Spent(row, hold, cost).reservedCost = b
      /\ Spent(row, hold, cost).spentReq = c /\ Spent(row, hold, cost).spentCost = d
      /\ Unheld(row, hold).reservedReq = a /\ Unheld(row, hold).reservedCost = b
      /\ Unheld(row, hold).spentReq = row.spentReq
      /\ Unheld(row, hold).spentCost = row.spentCost
  BY <1>4, <1>5 DEF GrantRows
<1> HIDE DEF Spent, Unheld
<1> QED
  BY <1>2, <1>3, <1>6

LEMMA GrantChange ==
  ASSUME NEW gr \in GrantTables, NEW g \in Grants, NEW x \in GrantRows
  PROVE  \E u \in GrantTables : /\ u = [gr EXCEPT ![g] = x] /\ u[g] = x
                                /\ \A h \in Grants : h # g => u[h] = gr[h]
<1> DEFINE u == [gr EXCEPT ![g] = x]
<1>1. u \in GrantTables /\ u[g] = x /\ \A h \in Grants : h # g => u[h] = gr[h]
  BY DEF GrantTables
<1> QED
  BY <1>1

LEMMA EventChange ==
  ASSUME NEW ev \in EventTables, NEW r \in Refs, NEW y \in UsageEventRows
  PROVE  \E u \in EventTables : /\ u = [ev EXCEPT ![r] = y] /\ u[r] = y
                                /\ \A q \in Refs : q # r => u[q] = ev[q]
<1> DEFINE u == [ev EXCEPT ![r] = y]
<1>1. u \in EventTables /\ u[r] = y /\ \A q \in Refs : q # r => u[q] = ev[q]
  BY DEF EventTables
<1> QED
  BY <1>1

\* The tables as a settlement writes them.
SettledEvents(ev, r, cost) == [ev EXCEPT ![r].status = "settled", ![r].cost = cost]
SpentGrants(gr, g, hold, cost) == [gr EXCEPT ![g] = Spent(@, hold, cost)]

LEMMA SettleKeeps ==
  ASSUME NEW gr, NEW ev, NEW me, NEW sg, NEW se, Money(gr, ev, me, sg, se),
         NEW g \in Grants, NEW r \in Refs, Is(ev, g, "reserved", r),
         NEW cost \in Nat, cost <= ev[r].hold
  PROVE  /\ Money(SpentGrants(gr, g, ev[r].hold, cost), SettledEvents(ev, r, cost), me, sg, se)
         /\ SpentGrants(gr, g, ev[r].hold, cost)[g].status = gr[g].status
<1>1. /\ gr \in GrantTables /\ ev \in EventTables /\ gr[g] \in GrantRows
      /\ ev[r] \in UsageEventRows
      /\ 1 <= gr[g].reservedReq /\ ev[r].hold <= gr[g].reservedCost
  BY HoldTaken DEF Money, Ledger
<1>2. PICK hold \in Nat : hold = ev[r].hold
  BY <1>1 DEF UsageEventRows
<1>3. PICK x \in GrantRows :
        /\ x = Spent(gr[g], hold, cost)
        /\ x.status = gr[g].status /\ x.envelope = gr[g].envelope
        /\ x.reservedReq + 1 = gr[g].reservedReq
        /\ x.reservedCost + hold = gr[g].reservedCost
        /\ x.spentReq = gr[g].spentReq + 1 /\ x.spentCost = gr[g].spentCost + cost
  BY <1>1, <1>2, SpentRow
<1>4. PICK g2 \in GrantTables : /\ g2 = [gr EXCEPT ![g] = x] /\ g2[g] = x
                                /\ \A h \in Grants : h # g => g2[h] = gr[h]
  BY <1>1, GrantChange
<1>5. g2 = SpentGrants(gr, g, ev[r].hold, cost)
  BY <1>2, <1>3, <1>4 DEF SpentGrants
<1>6. PICK y \in UsageEventRows : /\ y = [ev[r] EXCEPT !.status = "settled", !.cost = cost]
                                  /\ y.status = "settled" /\ y.cost = cost
                                  /\ y.grant = ev[r].grant
  <2> DEFINE y == [ev[r] EXCEPT !.status = "settled", !.cost = cost]
  <2>1. /\ y \in UsageEventRows /\ y.status = "settled" /\ y.cost = cost
        /\ y.grant = ev[r].grant
    BY <1>1 DEF UsageEventRows
  <2> QED
    BY <2>1
<1>7. PICK e2 \in EventTables : /\ e2 = [ev EXCEPT ![r] = y] /\ e2[r] = y
                                /\ \A q \in Refs : q # r => e2[q] = ev[q]
  BY <1>1, EventChange
<1>8. e2 = SettledEvents(ev, r, cost)
  BY <1>1, <1>6, <1>7 DEF EventTables, SettledEvents
<1>9. e2[r].grant = g /\ e2[r].cost = cost /\ e2[r].status = "settled"
  BY <1>6, <1>7 DEF Is
<1>10. Money(g2, e2, me, sg, se)
  <2>1. /\ g2[g].status = gr[g].status /\ g2[g].envelope = gr[g].envelope
        /\ g2[g].reservedReq + 1 = gr[g].reservedReq
        /\ g2[g].reservedCost + ev[r].hold = gr[g].reservedCost
        /\ g2[g].spentReq = gr[g].spentReq + 1
        /\ g2[g].spentCost = gr[g].spentCost + e2[r].cost
    BY <1>2, <1>3, <1>4, <1>9
  <2>2. e2[r].cost <= ev[r].hold
    BY <1>9
  <2>3. \/ /\ e2[r].status = "settled" /\ e2[r].cost <= ev[r].hold
           /\ g2[g].spentReq = gr[g].spentReq + 1
           /\ g2[g].spentCost = gr[g].spentCost + e2[r].cost
        \/ /\ e2[r].status = "released"
           /\ g2[g].spentReq = gr[g].spentReq /\ g2[g].spentCost = gr[g].spentCost
    BY <1>9, <2>1, <2>2
  <2>4. \A q \in Refs : q # r => e2[q] = ev[q]
    BY <1>7
  <2>5. \A h \in Grants : h # g => g2[h] = gr[h]
    BY <1>4
  <2>6. e2[r].grant = g
    BY <1>9
  <2> QED
    BY <2>1, <2>3, <2>4, <2>5, <2>6, EndKeeps
<1> QED
  BY <1>3, <1>4, <1>5, <1>8, <1>10

LEMMA ReleaseKeeps ==
  ASSUME NEW gr, NEW ev, NEW me, NEW sg, NEW se, Money(gr, ev, me, sg, se),
         NEW g \in Grants, NEW r \in Refs, Is(ev, g, "reserved", r)
  PROVE  Money([gr EXCEPT ![g] = Unheld(@, ev[r].hold)],
               [ev EXCEPT ![r].status = "released"], me, sg, se)
<1>1. /\ gr \in GrantTables /\ ev \in EventTables /\ gr[g] \in GrantRows
      /\ ev[r] \in UsageEventRows
      /\ 1 <= gr[g].reservedReq /\ ev[r].hold <= gr[g].reservedCost
  BY HoldTaken DEF Money, Ledger
<1>2. PICK hold \in Nat : hold = ev[r].hold
  BY <1>1 DEF UsageEventRows
<1>3. PICK x \in GrantRows :
        /\ x = Unheld(gr[g], hold)
        /\ x.status = gr[g].status /\ x.envelope = gr[g].envelope
        /\ x.reservedReq + 1 = gr[g].reservedReq
        /\ x.reservedCost + hold = gr[g].reservedCost
        /\ x.spentReq = gr[g].spentReq /\ x.spentCost = gr[g].spentCost
  BY <1>1, <1>2, SpentRow
<1>4. PICK g2 \in GrantTables : /\ g2 = [gr EXCEPT ![g] = x] /\ g2[g] = x
                                /\ \A h \in Grants : h # g => g2[h] = gr[h]
  BY <1>1, GrantChange
<1>5. g2 = [gr EXCEPT ![g] = Unheld(@, ev[r].hold)]
  BY <1>2, <1>3, <1>4
<1>6. PICK y \in UsageEventRows : /\ y = [ev[r] EXCEPT !.status = "released"]
                                  /\ y.status = "released" /\ y.grant = ev[r].grant
  <2> DEFINE y == [ev[r] EXCEPT !.status = "released"]
  <2>1. y \in UsageEventRows /\ y.status = "released" /\ y.grant = ev[r].grant
    BY <1>1 DEF UsageEventRows
  <2> QED
    BY <2>1
<1>7. PICK e2 \in EventTables : /\ e2 = [ev EXCEPT ![r] = y] /\ e2[r] = y
                                /\ \A q \in Refs : q # r => e2[q] = ev[q]
  BY <1>1, EventChange
<1>8. e2 = [ev EXCEPT ![r].status = "released"]
  BY <1>1, <1>6, <1>7 DEF EventTables
<1>9. e2[r].grant = g /\ e2[r].status = "released"
  BY <1>6, <1>7 DEF Is
<1>10. Money(g2, e2, me, sg, se)
  <2>1. /\ g2[g].status = gr[g].status /\ g2[g].envelope = gr[g].envelope
        /\ g2[g].reservedReq + 1 = gr[g].reservedReq
        /\ g2[g].reservedCost + ev[r].hold = gr[g].reservedCost
        /\ g2[g].spentReq = gr[g].spentReq /\ g2[g].spentCost = gr[g].spentCost
    BY <1>2, <1>3, <1>4
  <2>3. \/ /\ e2[r].status = "settled" /\ e2[r].cost <= ev[r].hold
           /\ g2[g].spentReq = gr[g].spentReq + 1
           /\ g2[g].spentCost = gr[g].spentCost + e2[r].cost
        \/ /\ e2[r].status = "released"
           /\ g2[g].spentReq = gr[g].spentReq /\ g2[g].spentCost = gr[g].spentCost
    BY <1>9, <2>1
  <2>4. \A q \in Refs : q # r => e2[q] = ev[q]
    BY <1>7
  <2>5. \A h \in Grants : h # g => g2[h] = gr[h]
    BY <1>4
  <2>6. e2[r].grant = g
    BY <1>9
  <2> QED
    BY <2>1, <2>3, <2>4, <2>5, <2>6, EndKeeps
<1> QED
  BY <1>5, <1>8, <1>10

-----------------------------------------------------------------------------
(* The inductive invariant                                                 *)

TaskTables == [Tasks -> TaskRows]
SavedRows == [grant : GrantTables, event : EventTables, task : TaskTables]
TickRows ==
  [pc : {"idle", "loop", "check", "reserve", "egress", "call", "settle"},
   scope : Proposals \cup {NoProposal}, spend : BOOLEAN, task : Tasks \cup {Unloaded},
   ref : Refs \cup {Unloaded}, cost : Nat, deferred : SUBSET Tasks, shared : BOOLEAN]

PapersTyped ==
  /\ proposal \in [Proposals -> ProposalRows]
  /\ envelope \in [Proposals -> EnvelopeRows]
  /\ request \in [Proposals -> (SUBSET Proposals) \cup {NoRequest}]
  /\ elapsed \in [Grants -> BOOLEAN]

CallsTyped == billed \in [Refs -> Nat] /\ trouble \in 0 .. MaxTrouble

WorkTyped == task \in TaskTables /\ saved \in SavedRows

TickTyped == tick \in TickRows

\* The goal row serialises authorize_execution_scope with itself and with a
\* tick that has written a checkpoint.
AuthorityRight ==
  /\ \A p, q \in Current : p = q
  /\ \A p \in Proposals : request[p] # NoRequest =>
       /\ request[p] = Current
       /\ \A q \in Proposals : request[q] # NoRequest => q = p

\* A planning task has a task, and its transaction refers to the goal.
PlanningRight ==
  /\ tick.pc \in {"check", "reserve", "egress", "call", "settle"} => tick.task \in Tasks
  /\ tick.pc \in {"reserve", "egress", "call", "settle"} => tick.shared
  /\ \A p \in Proposals : request[p] # NoRequest => ~tick.shared

\* The hold of the call under way is in place, its grant is locked and active
\* and its envelope current.
HoldRight(r) ==
  /\ r \in Refs /\ event[r].status = "reserved" /\ event[r].grant \in Grants
  /\ grant[event[r].grant].status = "active" /\ mem[event[r].grant] # Unloaded
  /\ grant[event[r].grant].envelope \in Current

CallRight == tick.pc \in {"egress", "call", "settle"} => HoldRight(tick.ref)

SpendRight ==
  /\ PapersTyped /\ CallsTyped /\ WorkTyped /\ TickTyped
  /\ MoneyRight /\ AuthorityRight /\ PlanningRight /\ CallRight

-----------------------------------------------------------------------------
(* The rows of tasks and of the tick                                       *)

LEMMA BackedOffRow ==
  ASSUME NEW row \in TaskRows
  PROVE  BackedOff(row) \in TaskRows
<1>1. row.backoffs \in 0 .. MaxBackoffs /\ MaxBackoffs \in Nat
  BY SpendAssumption DEF TaskRows
<1>2. CASE row.backoffs < MaxBackoffs
  <2>1. PICK n \in 0 .. MaxBackoffs : n = row.backoffs + 1
    BY <1>1, <1>2
  <2>2. BackedOff(row) = [row EXCEPT !.status = "backoff", !.backoffs = n]
    BY <1>2, <2>1 DEF BackedOff
  <2> QED
    BY <2>2 DEF TaskRows
<1>3. CASE ~(row.backoffs < MaxBackoffs)
  BY <1>3 DEF BackedOff, TaskRows
<1> QED
  BY <1>2, <1>3

LEMMA BackoffTable ==
  ASSUME NEW rows \in TaskTables, NEW t \in Tasks
  PROVE  Backoff(rows, t) \in TaskTables
<1>1. rows[t] \in TaskRows
  BY DEF TaskTables
<1>2. PICK row \in TaskRows : row = BackedOff(rows[t])
  BY <1>1, BackedOffRow
<1>3. Backoff(rows, t) = [rows EXCEPT ![t] = row]
  BY <1>2 DEF Backoff
<1> QED
  BY <1>3 DEF TaskTables

LEMMA StatusTable ==
  ASSUME NEW rows \in TaskTables, NEW t \in Tasks,
         NEW status \in {"ready", "running", "parked", "completed"}, NEW accepted \in BOOLEAN
  PROVE  /\ [rows EXCEPT ![t].status = status] \in TaskTables
         /\ [rows EXCEPT ![t].accepted = accepted] \in TaskTables
         /\ [rows EXCEPT ![t].status = status, ![t].accepted = accepted] \in TaskTables
<1>1. rows[t] \in TaskRows
  BY DEF TaskTables
<1>2. /\ [rows[t] EXCEPT !.status = status] \in TaskRows
      /\ [rows[t] EXCEPT !.accepted = accepted] \in TaskRows
      /\ [rows[t] EXCEPT !.status = status, !.accepted = accepted] \in TaskRows
  BY <1>1 DEF TaskRows
<1>3. PICK a \in TaskRows, b \in TaskRows, c \in TaskRows :
        /\ a = [rows[t] EXCEPT !.status = status]
        /\ b = [rows[t] EXCEPT !.accepted = accepted]
        /\ c = [rows[t] EXCEPT !.status = status, !.accepted = accepted]
  BY <1>2
<1>4. /\ [rows EXCEPT ![t] = a] \in TaskTables /\ [rows EXCEPT ![t] = b] \in TaskTables
      /\ [rows EXCEPT ![t] = c] \in TaskTables
  BY DEF TaskTables
<1>5. /\ [rows EXCEPT ![t].status = status] = [rows EXCEPT ![t] = a]
      /\ [rows EXCEPT ![t].accepted = accepted] = [rows EXCEPT ![t] = b]
      /\ [rows EXCEPT ![t].status = status, ![t].accepted = accepted]
           = [rows EXCEPT ![t] = c]
  BY <1>3 DEF TaskTables
<1> QED
  BY <1>4, <1>5

LEMMA WokenTable ==
  ASSUME NEW rows \in TaskTables
  PROVE  Woken(rows) \in TaskTables
<1>1. ASSUME NEW row \in TaskRows
      PROVE  [row EXCEPT !.status = "ready"] \in TaskRows
  BY DEF TaskRows
<1> QED
  BY <1>1 DEF Woken, TaskTables

LEMMA SourceRefIn ==
  ASSUME tick.task \in Tasks, FreeAttempts # {}
  PROVE  SourceRef \in Refs
<1>1. FreeAttempts \subseteq Nat /\ FreeAttempts \subseteq 0 .. MaxAttempt
  BY DEF FreeAttempts
<1>2. \E x \in FreeAttempts : \A y \in FreeAttempts : x <= y
  BY <1>1, LeastNatural
<1>3. Min(FreeAttempts) \in FreeAttempts
  BY <1>2 DEF Min
<1> QED
  BY <1>1, <1>3 DEF SourceRef, Refs

LEMMA TickRowTyped ==
  ASSUME NEW row \in TickRows
  PROVE  /\ row.shared \in BOOLEAN /\ row.deferred \subseteq Tasks
         /\ row.ref \in Refs \cup {Unloaded} /\ row.task \in Tasks \cup {Unloaded}
  BY DEF TickRows

LEMMA NoTickFacts ==
  NoTick \in TickRows /\ NoTick.pc = "idle" /\ ~NoTick.shared
  BY DEF NoTick, TickRows

LEMMA MovesOpen ==
  ASSUME SpendRight
  PROVE  /\ TickBegin => /\ tick' \in TickRows /\ tick'.pc = "loop" /\ ~tick'.shared
         /\ \A t \in Tasks : DispatchTask(t) =>
              /\ tick' \in TickRows /\ tick'.pc = "check" /\ ~tick'.shared /\ tick'.task = t
         /\ \A t \in Tasks : ResumeTask(t) =>
              /\ tick' \in TickRows /\ tick'.pc = "check" /\ tick'.shared = tick.shared
              /\ tick'.task = t
<1>1. tick \in TickRows
  BY DEF SpendRight, TickTyped
<1>2. ASSUME TickBegin
      PROVE  tick' \in TickRows /\ tick'.pc = "loop" /\ ~tick'.shared
  <2>1. PICK p \in Proposals :
          tick' = [NoTick EXCEPT !.pc = "loop", !.scope = p, !.spend = SpendLive(p)]
    BY <1>2 DEF TickBegin, Current
  <2>2. SpendLive(p) \in BOOLEAN
    BY DEF SpendLive
  <2> QED
    BY <2>1, <2>2 DEF NoTick, TickRows
<1>3. ASSUME NEW t \in Tasks, DispatchTask(t)
      PROVE  tick' \in TickRows /\ tick'.pc = "check" /\ ~tick'.shared /\ tick'.task = t
  <2>1. tick' = [tick EXCEPT !.pc = "check", !.task = t, !.shared = FALSE]
    BY <1>3 DEF DispatchTask
  <2> QED
    BY <1>1, <2>1 DEF TickRows
<1>4. ASSUME NEW t \in Tasks, ResumeTask(t)
      PROVE  /\ tick' \in TickRows /\ tick'.pc = "check" /\ tick'.shared = tick.shared
             /\ tick'.task = t
  <2>1. tick' = [tick EXCEPT !.pc = "check", !.task = t]
    BY <1>4 DEF ResumeTask
  <2> QED
    BY <1>1, <2>1 DEF TickRows
<1> QED
  BY <1>2, <1>3, <1>4

LEMMA MovesPlan ==
  ASSUME SpendRight
  PROVE  /\ ParkForSpend => tick' \in TickRows /\ tick'.pc = "loop" /\ ~GoalLocked
         /\ EnterPlanning => /\ tick' \in TickRows /\ ~GoalLocked /\ tick'.shared
                             /\ tick'.pc \in {"loop", "reserve"} /\ tick'.task = tick.task
         /\ tick.pc = "reserve" /\ FreeAttempts # {} /\ Reserve =>
              /\ tick' \in TickRows /\ tick'.pc = "egress" /\ tick'.ref = SourceRef
              /\ tick'.shared = tick.shared /\ tick'.task = tick.task
<1>1. tick \in TickRows
  BY DEF SpendRight, TickTyped
<1>2. ASSUME ParkForSpend
      PROVE  tick' \in TickRows /\ tick'.pc = "loop" /\ ~GoalLocked
  <2>1. /\ tick' = [tick EXCEPT !.pc = "loop", !.shared = TRUE,
                                !.deferred = @ \cup {tick.task}]
        /\ tick.pc = "check" /\ ~GoalLocked
    BY <1>2 DEF ParkForSpend
  <2>2. tick.task \in Tasks /\ tick.deferred \subseteq Tasks
    BY <1>1, <2>1, TickRowTyped DEF SpendRight, PlanningRight
  <2>3. PICK d \in SUBSET Tasks : d = tick.deferred \cup {tick.task}
    BY <2>2
  <2>4. tick' = [tick EXCEPT !.pc = "loop", !.shared = TRUE, !.deferred = d]
    BY <2>1, <2>3
  <2> QED
    BY <1>1, <2>1, <2>4 DEF TickRows
<1>3. ASSUME EnterPlanning
      PROVE  /\ tick' \in TickRows /\ ~GoalLocked /\ tick'.shared
             /\ tick'.pc \in {"loop", "reserve"} /\ tick'.task = tick.task
  <2>1. /\ ~GoalLocked
        /\ \/ tick' = [tick EXCEPT !.pc = "loop", !.shared = TRUE]
           \/ tick' = [tick EXCEPT !.pc = "reserve", !.shared = TRUE]
    BY <1>3 DEF EnterPlanning
  <2> QED
    BY <1>1, <2>1 DEF TickRows
<1>4. ASSUME tick.pc = "reserve", FreeAttempts # {}, Reserve
      PROVE  /\ tick' \in TickRows /\ tick'.pc = "egress" /\ tick'.ref = SourceRef
             /\ tick'.shared = tick.shared /\ tick'.task = tick.task
  <2>1. SourceRef \in Refs
    BY <1>4, SourceRefIn DEF SpendRight, PlanningRight
  <2>2. tick' = [tick EXCEPT !.pc = "egress", !.ref = SourceRef]
    BY <1>4 DEF Reserve
  <2> QED
    BY <1>1, <2>1, <2>2 DEF TickRows
<1> QED
  BY <1>2, <1>3, <1>4

LEMMA MovesCall ==
  ASSUME SpendRight
  PROVE  /\ EgressAllowed => /\ tick' \in TickRows /\ tick'.pc = "call"
                             /\ tick'.ref = tick.ref /\ tick'.shared = tick.shared
                             /\ tick'.task = tick.task
         /\ \A c \in Charges : CallAnswered(c) =>
              /\ tick' \in TickRows /\ tick'.pc = "settle" /\ tick'.ref = tick.ref
              /\ tick'.shared = tick.shared /\ tick'.task = tick.task
         /\ Wait /\ tick.task \in Tasks =>
              tick' \in TickRows /\ tick'.pc = "loop" /\ tick'.shared = tick.shared
         /\ PlanAccepted =>
              tick' \in TickRows /\ tick'.pc = "loop" /\ tick'.shared = tick.shared
<1>1. tick \in TickRows
  BY DEF SpendRight, TickTyped
<1>2. ASSUME EgressAllowed
      PROVE  /\ tick' \in TickRows /\ tick'.pc = "call" /\ tick'.ref = tick.ref
             /\ tick'.shared = tick.shared /\ tick'.task = tick.task
  <2>1. tick' = [tick EXCEPT !.pc = "call"]
    BY <1>2 DEF EgressAllowed
  <2> QED
    BY <1>1, <2>1 DEF TickRows
<1>3. ASSUME NEW c \in Charges, CallAnswered(c)
      PROVE  /\ tick' \in TickRows /\ tick'.pc = "settle" /\ tick'.ref = tick.ref
             /\ tick'.shared = tick.shared /\ tick'.task = tick.task
  <2>1. tick' = [tick EXCEPT !.pc = "settle", !.cost = c] /\ c \in Nat
    BY <1>3, SpendAssumption DEF CallAnswered
  <2> QED
    BY <1>1, <2>1 DEF TickRows
<1>4. ASSUME Wait, tick.task \in Tasks
      PROVE  tick' \in TickRows /\ tick'.pc = "loop" /\ tick'.shared = tick.shared
  <2>1. PICK d \in SUBSET Tasks : d = tick.deferred \cup {tick.task}
    BY <1>1, <1>4, TickRowTyped
  <2>2. tick' = [tick EXCEPT !.pc = "loop", !.deferred = d]
    BY <1>4, <2>1 DEF Wait
  <2> QED
    BY <1>1, <2>2 DEF TickRows
<1>5. ASSUME PlanAccepted
      PROVE  tick' \in TickRows /\ tick'.pc = "loop" /\ tick'.shared = tick.shared
  <2>1. tick' = [tick EXCEPT !.pc = "loop"]
    BY <1>5 DEF PlanAccepted
  <2> QED
    BY <1>1, <2>1 DEF TickRows
<1> QED
  BY <1>2, <1>3, <1>4, <1>5

-----------------------------------------------------------------------------
(* The ledger, step by step                                                *)

LEMMA MoneySame ==
  ASSUME MoneyRight, UNCHANGED <<grant, event, mem>>,
         saved'.grant = saved.grant, saved'.event = saved.event
  PROVE  MoneyRight'
  BY DEF MoneyRight

LEMMA MoneyCommitted ==
  ASSUME NEW g, NEW e, NEW t, NEW me, NEW sg, NEW se, Money(g, e, me, sg, se),
         grant' = g, event' = e, Commit(g, e, t)
  PROVE  MoneyRight'
<1>1. Money(g, e, Nothing, g, e)
  BY CommitKeeps
<1>2. mem' = Nothing /\ saved'.grant = g /\ saved'.event = e
  BY DEF Commit, Nothing
<1> QED
  BY <1>1, <1>2 DEF MoneyRight

LEMMA MoneyRolledBack ==
  ASSUME MoneyRight, Rollback
  PROVE  MoneyRight'
<1>1. Money(saved.grant, saved.event, Nothing, saved.grant, saved.event)
  BY RollbackKeeps DEF MoneyRight
<1>2. /\ mem' = Nothing /\ saved' = saved
      /\ grant' = saved.grant /\ event' = saved.event
  BY DEF Rollback, Nothing
<1> QED
  BY <1>1, <1>2 DEF MoneyRight

LEMMA MoneyLoaded ==
  ASSUME MoneyRight, LoadActive, UNCHANGED <<event, saved>>
  PROVE  MoneyRight'
<1>1. Money(grant', event, mem', saved.grant, saved.event)
  BY LoadKeeps
<1> QED
  BY <1>1 DEF MoneyRight

\* settle_provider_spend_call, with the copy of the grant the session has.
LEMMA MoneySettled ==
  ASSUME MoneyRight, NEW r \in Refs, event[r].status = "reserved",
         NEW cost \in Nat, cost <= event[r].hold,
         NEW g, g = event[r].grant,
         NEW row, row = IF mem[g] = Unloaded THEN SettledGrant(r, cost)[g] ELSE mem[g],
         NEW marked, marked = MarkTerminal(g, row)
  PROVE  Money([SettledGrant(r, cost) EXCEPT ![g].status = marked.status],
               [event EXCEPT ![r].status = "settled", ![r].cost = cost],
               [mem EXCEPT ![g] = marked], saved.grant, saved.event)
<1>1. g \in Grants /\ Is(event, g, "reserved", r) /\ grant[g].status # "none"
  BY DEF MoneyRight, Money, Ledger, Booked, Is
<1>2. PICK e2, g2 :
        /\ e2 = [event EXCEPT ![r].status = "settled", ![r].cost = cost]
        /\ g2 = SettledGrant(r, cost)
        /\ Money(g2, e2, mem, saved.grant, saved.event) /\ g2[g].status = grant[g].status
  <2>1. /\ Money(SpentGrants(grant, g, event[r].hold, cost), SettledEvents(event, r, cost),
                 mem, saved.grant, saved.event)
        /\ SpentGrants(grant, g, event[r].hold, cost)[g].status = grant[g].status
    BY <1>1, SettleKeeps DEF MoneyRight
  <2>2. SpentGrants(grant, g, event[r].hold, cost) = SettledGrant(r, cost)
    BY DEF SettledGrant, SpentGrants
  <2> QED
    BY <2>1, <2>2 DEF SettledEvents
<1>3. /\ g2 \in GrantTables /\ g2[g] \in GrantRows /\ e2 \in EventTables
      /\ mem[g] \in GrantRows \cup {Unloaded} /\ Covers(g2[g], e2, g)
  BY <1>1, <1>2 DEF Money, Ledger, GrantTables, MemTables
<1>4. /\ row \in GrantRows /\ CopyCovers(row, e2, g)
      /\ row.status = g2[g].status /\ row.envelope = g2[g].envelope
  <2>1. CASE mem[g] = Unloaded
    BY <1>2, <1>3, <2>1, CoversCopy
  <2>2. CASE mem[g] # Unloaded
    <3>1. row = mem[g]
      BY <2>2
    <3> QED
      BY <1>1, <1>2, <1>3, <2>2, <3>1 DEF Money, CopiesRight
  <2> QED
    BY <2>1, <2>2
<1>5. PICK m \in GrantRows :
        /\ m = marked /\ SameCounters(m, row) /\ m.envelope = row.envelope
        /\ m.status # "none"
        /\ m.status = "active" => row.status = "active"
  BY <1>1, <1>2, <1>4, MarkFacts
<1>6. CopyCovers(m, e2, g)
  BY <1>4, <1>5, CoversSame
<1>7. Money([g2 EXCEPT ![g].status = m.status], e2, [mem EXCEPT ![g] = m],
            saved.grant, saved.event)
  <2>1. /\ Money(g2, e2, mem, saved.grant, saved.event)
        /\ g \in Grants /\ g2[g].status # "none"
    BY <1>1, <1>2
  <2>2. /\ m \in GrantRows /\ m.envelope = g2[g].envelope /\ m.status # "none"
        /\ m.status = "active" => g2[g].status = "active"
    BY <1>4, <1>5
  <2> QED
    BY <1>6, <2>1, <2>2, MarkKeeps
<1> QED
  BY <1>2, <1>5, <1>7

LEMMA MoneySettle ==
  ASSUME MoneyRight, UNCHANGED saved, NEW r \in Refs, event[r].status = "reserved",
         NEW cost \in Nat, cost <= event[r].hold, Settle(r, cost)
  PROVE  MoneyRight'
<1> DEFINE g == event[r].grant
           row == IF mem[g] = Unloaded THEN SettledGrant(r, cost)[g] ELSE mem[g]
           marked == MarkTerminal(g, row)
<1>1. Money([SettledGrant(r, cost) EXCEPT ![g].status = marked.status],
            [event EXCEPT ![r].status = "settled", ![r].cost = cost],
            [mem EXCEPT ![g] = marked], saved.grant, saved.event)
  BY MoneySettled
<1>2. /\ event' = [event EXCEPT ![r].status = "settled", ![r].cost = cost]
      /\ grant' = [SettledGrant(r, cost) EXCEPT ![g].status = marked.status]
      /\ mem' = [mem EXCEPT ![g] = marked]
  BY DEF Settle
<1> QED
  BY <1>1, <1>2 DEF MoneyRight

LEMMA MoneyReleased ==
  ASSUME MoneyRight, NEW r \in Refs, event[r].status = "reserved"
  PROVE  Money(ReleasedGrant(r), [event EXCEPT ![r].status = "released"], mem,
               saved.grant, saved.event)
<1>1. PICK g \in Grants : g = event[r].grant
  BY DEF MoneyRight, Money, Ledger, Booked
<1>2. Is(event, g, "reserved", r)
  BY <1>1 DEF Is
<1> QED
  BY <1>1, <1>2, ReleaseKeeps DEF MoneyRight, ReleasedGrant

\* reserve_provider_spend_call
LEMMA MoneyReserved ==
  ASSUME MoneyRight, UNCHANGED saved, NEW r \in Refs, r = SourceRef,
         event[r].status = "none", Reserve
  PROVE  MoneyRight' /\ (Current = Current' => HoldRight(r)')
<1>1. PICK g \in ActiveGrants :
        LET row == Loaded(g)
            cost == BoundReservation(row)
            held == [row EXCEPT !.reservedReq = @ + 1, !.reservedCost = @ + cost]
        IN
        /\ Callable(g)
        /\ CommittedRequests(row) + 1 <= MaxRequests
        /\ event' = [event EXCEPT ![SourceRef] =
                       [status |-> "reserved", grant |-> g, hold |-> cost, cost |-> 0]]
        /\ grant' = [grant EXCEPT ![g].reservedReq = held.reservedReq,
                                  ![g].reservedCost = held.reservedCost]
        /\ mem' = [mem EXCEPT ![g] = held]
  BY DEF Reserve
<1>2. g \in Grants /\ grant[g].status = "active"
  BY DEF ActiveGrants
<1>3. PICK row \in GrantRows :
        /\ row = Loaded(g) /\ CopyCovers(row, event, g)
        /\ row.status = grant[g].status /\ row.envelope = grant[g].envelope
  BY <1>2, LoadedFacts
<1>4. /\ row.reservedReq \in Nat /\ row.reservedCost \in Nat
      /\ row.spentReq \in Nat /\ row.spentCost \in Nat
  BY GrantRowTyped
<1>5. PICK cost \in Nat : /\ cost = BoundReservation(row)
                          /\ cost = 0 \/ CommittedCost(row) + cost <= MaxCost
  <2>1. CommittedCost(row) \in Nat /\ MaxCost \in Nat /\ PerCall \in Nat
    BY <1>4, SpendAssumption DEF CommittedCost
  <2>2. /\ BoundReservation(row) \in Nat
        /\ BoundReservation(row) = 0 \/ CommittedCost(row) + BoundReservation(row) <= MaxCost
    BY <2>1 DEF BoundReservation
  <2> QED
    BY <2>2
<1>6. PICK a \in Nat, b \in Nat : a = row.reservedReq + 1 /\ b = row.reservedCost + cost
  BY <1>4
<1>7. PICK held \in GrantRows :
        /\ held = [row EXCEPT !.reservedReq = @ + 1, !.reservedCost = @ + cost]
        /\ held.reservedReq = a /\ held.reservedCost = b
        /\ held.status = row.status /\ held.envelope = row.envelope
        /\ held.spentReq = row.spentReq /\ held.spentCost = row.spentCost
  <2> DEFINE h == [row EXCEPT !.reservedReq = a, !.reservedCost = b]
  <2>1. /\ h \in GrantRows /\ h.reservedReq = a /\ h.reservedCost = b
        /\ h.status = row.status /\ h.envelope = row.envelope
        /\ h.spentReq = row.spentReq /\ h.spentCost = row.spentCost
    BY DEF GrantRows
  <2>2. h = [row EXCEPT !.reservedReq = @ + 1, !.reservedCost = @ + cost]
    BY <1>6
  <2> QED
    BY <2>1, <2>2
<1>8. grant[g] \in GrantRows /\ grant \in GrantTables /\ event \in EventTables /\ mem \in MemTables
  BY <1>2 DEF MoneyRight, Money, Ledger, GrantTables
<1>9. PICK x \in GrantRows :
        /\ x = [grant[g] EXCEPT !.reservedReq = a, !.reservedCost = b]
        /\ x.reservedReq = a /\ x.reservedCost = b
        /\ x.status = grant[g].status /\ x.envelope = grant[g].envelope
        /\ x.spentReq = grant[g].spentReq /\ x.spentCost = grant[g].spentCost
  <2> DEFINE h == [grant[g] EXCEPT !.reservedReq = a, !.reservedCost = b]
  <2>1. /\ h \in GrantRows /\ h.reservedReq = a /\ h.reservedCost = b
        /\ h.status = grant[g].status /\ h.envelope = grant[g].envelope
        /\ h.spentReq = grant[g].spentReq /\ h.spentCost = grant[g].spentCost
    BY <1>8 DEF GrantRows
  <2> QED
    BY <2>1
<1>10. PICK g2 \in GrantTables : /\ g2 = [grant EXCEPT ![g] = x] /\ g2[g] = x
                                 /\ \A h \in Grants : h # g => g2[h] = grant[h]
  BY <1>2, <1>8, GrantChange
<1>11. grant' = g2
  <2>1. grant' = [grant EXCEPT ![g].reservedReq = a, ![g].reservedCost = b]
    BY <1>1, <1>3, <1>5, <1>7
  <2>2. [grant EXCEPT ![g].reservedReq = a, ![g].reservedCost = b] = [grant EXCEPT ![g] = x]
    BY <1>2, <1>8, <1>9 DEF GrantTables
  <2> QED
    BY <1>10, <2>1, <2>2
<1>12. PICK y \in UsageEventRows :
         /\ y = [status |-> "reserved", grant |-> g, hold |-> cost, cost |-> 0]
         /\ y.status = "reserved" /\ y.grant = g /\ y.hold = cost
  <2> DEFINE z == [status |-> "reserved", grant |-> g, hold |-> cost, cost |-> 0]
  <2>1. z \in UsageEventRows /\ z.status = "reserved" /\ z.grant = g /\ z.hold = cost
    BY <1>2 DEF UsageEventRows
  <2> QED
    BY <2>1
<1>13. PICK e2 \in EventTables : /\ e2 = [event EXCEPT ![r] = y] /\ e2[r] = y
                                 /\ \A q \in Refs : q # r => e2[q] = event[q]
  BY <1>8, EventChange
<1>14. event' = e2
  BY <1>1, <1>3, <1>5, <1>12, <1>13
<1>15. mem' = [mem EXCEPT ![g] = held]
  BY <1>1, <1>3, <1>5, <1>7
<1>16. CommittedRequests(row) + 1 <= MaxRequests
  BY <1>1, <1>3
<1>17. Money(g2, e2, [mem EXCEPT ![g] = held], saved.grant, saved.event)
  <2>1. Is(e2, g, "reserved", r) /\ e2[r].hold = cost
    BY <1>12, <1>13 DEF Is
  <2>2. /\ g2[g].status = grant[g].status /\ g2[g].envelope = grant[g].envelope
        /\ g2[g].spentReq = grant[g].spentReq /\ g2[g].spentCost = grant[g].spentCost
        /\ g2[g].reservedReq = held.reservedReq /\ g2[g].reservedCost = held.reservedCost
    BY <1>7, <1>9, <1>10
  <2>3. held.reservedReq = row.reservedReq + 1 /\ held.reservedCost = row.reservedCost + cost
    BY <1>6, <1>7
  <2>4. /\ held.status = row.status /\ held.envelope = row.envelope
        /\ held.spentReq = row.spentReq /\ held.spentCost = row.spentCost
    BY <1>7
  <2>5. \A h \in Grants : h # g => g2[h] = grant[h]
    BY <1>10
  <2>6. \A q \in Refs : q # r => e2[q] = event[q]
    BY <1>13
  <2> QED
    BY <1>2, <1>3, <1>5, <1>16, <2>1, <2>2, <2>3, <2>4, <2>5, <2>6, ReserveKeeps
         DEF MoneyRight
<1>18. MoneyRight'
  BY <1>11, <1>14, <1>15, <1>17 DEF MoneyRight
<1>19. ASSUME Current = Current'
       PROVE  HoldRight(r)'
  <2>1. event'[r].status = "reserved" /\ event'[r].grant = g
    BY <1>12, <1>13, <1>14
  <2>2. grant'[g].status = "active" /\ grant'[g].envelope = row.envelope
    BY <1>2, <1>3, <1>9, <1>10, <1>11
  <2>3. mem'[g] = held /\ held # Unloaded
    BY <1>2, <1>8, <1>15, GrantRowTyped DEF MemTables
  <2>4. row.envelope \in Current
    BY <1>1, <1>3 DEF Callable
  <2> QED
    BY <1>2, <1>19, <2>1, <2>2, <2>3, <2>4 DEF HoldRight
<1> QED
  BY <1>18, <1>19

LEMMA SavedFacts ==
  ASSUME saved \in SavedRows
  PROVE  /\ saved.grant \in GrantTables /\ saved.event \in EventTables /\ saved.task \in TaskTables
         /\ \A t : /\ [saved EXCEPT !.task = t].grant = saved.grant
                   /\ [saved EXCEPT !.task = t].event = saved.event
                   /\ t \in TaskTables => [saved EXCEPT !.task = t] \in SavedRows
  BY DEF SavedRows

\* authorize_provider_spend
SupersededBy(table, g, p) ==
  [h \in Grants |->
     IF h = g THEN [NoGrant EXCEPT !.status = "active", !.envelope = p]
     ELSE IF h \in ActiveGrants THEN [table[h] EXCEPT !.status = "superseded"]
     ELSE table[h]]

NewGrant(p) == [NoGrant EXCEPT !.status = "active", !.envelope = p]

LEMMA NewGrantRow ==
  ASSUME NEW p \in Proposals
  PROVE  NewGrant(p) \in GrantRows /\ NewGrant(p).status = "active"
  BY DEF NewGrant, NoGrant, GrantRows

LEMMA SupersedingRows ==
  ASSUME NEW table \in GrantTables, NEW g \in Grants, NEW p \in Proposals
  PROVE  Superseding(SupersededBy(table, g, p), table, ActiveGrants, g, NewGrant(p))
<1>1. ASSUME NEW row \in GrantRows
      PROVE  /\ [row EXCEPT !.status = "superseded"] \in GrantRows
             /\ SameCounters([row EXCEPT !.status = "superseded"], row)
             /\ [row EXCEPT !.status = "superseded"].envelope = row.envelope
             /\ [row EXCEPT !.status = "superseded"].status = "superseded"
  BY DEF GrantRows, SameCounters
<1>2. NewGrant(p) \in GrantRows
  BY NewGrantRow
<1>3. \A h \in Grants : table[h] \in GrantRows /\ SameCounters(table[h], table[h])
  BY DEF GrantTables, SameCounters
<1>4. SupersededBy(table, g, p) \in GrantTables
  BY <1>1, <1>2, <1>3 DEF SupersededBy, GrantTables, NewGrant
<1>5. SupersededBy(table, g, p)[g] = NewGrant(p)
  BY DEF SupersededBy, NewGrant
<1>6. ASSUME NEW h \in Grants, h # g
      PROVE  /\ SameCounters(SupersededBy(table, g, p)[h], table[h])
             /\ SupersededBy(table, g, p)[h].envelope = table[h].envelope
             /\ SupersededBy(table, g, p)[h].status =
                  IF h \in ActiveGrants THEN "superseded" ELSE table[h].status
  <2>1. SupersededBy(table, g, p)[h] = IF h \in ActiveGrants
                                       THEN [table[h] EXCEPT !.status = "superseded"]
                                       ELSE table[h]
    BY <1>6 DEF SupersededBy
  <2> QED
    BY <1>1, <1>3, <2>1
<1> QED
  BY <1>4, <1>5, <1>6 DEF Superseding

LEMMA MoneyAuthorized ==
  ASSUME MoneyRight, saved \in SavedRows, NEW g \in Grants, NEW p \in Proposals,
         AuthorizeSpend(g, p)
  PROVE  MoneyRight'
<1>1. /\ grant[g].status = "none" /\ DurablyActive \cap Locked = {}
      /\ grant' = SupersededBy(grant, g, p)
      /\ saved' = [saved EXCEPT !.grant = SupersededBy(saved.grant, g, p),
                                !.task = Woken(saved.task)]
      /\ UNCHANGED <<event, mem>>
  BY DEF AuthorizeSpend, SupersededBy
<1>2. saved'.grant = SupersededBy(saved.grant, g, p) /\ saved'.event = saved.event
  BY <1>1 DEF SavedRows
<1>3. \A h \in Grants : saved.grant[h].status = "active" => mem[h] = Unloaded
  BY <1>1 DEF DurablyActive, Locked
<1>4. grant \in GrantTables /\ saved.grant \in GrantTables
  BY DEF MoneyRight, Money, Ledger
<1>5. /\ Superseding(SupersededBy(grant, g, p), grant, ActiveGrants, g, NewGrant(p))
      /\ Superseding(SupersededBy(saved.grant, g, p), saved.grant, ActiveGrants, g, NewGrant(p))
  BY <1>4, SupersedingRows
<1>6. Money(SupersededBy(grant, g, p), event, mem, SupersededBy(saved.grant, g, p), saved.event)
  BY <1>1, <1>3, <1>5, NewGrantRow, AuthorizeKeeps DEF MoneyRight, ActiveGrants
<1> QED
  BY <1>1, <1>2, <1>6 DEF MoneyRight

LEMMA MoneyRevoked ==
  ASSUME MoneyRight, saved \in SavedRows, NEW g \in Grants, Revoke(g)
  PROVE  MoneyRight'
<1>1. /\ saved.grant[g].status = "active" /\ mem[g] = Unloaded
      /\ grant' = [grant EXCEPT ![g].status = "revoked"]
      /\ UNCHANGED <<event, mem>>
  BY DEF Revoke, Locked
<1>2. saved'.grant = [saved.grant EXCEPT ![g].status = "revoked"] /\ saved'.event = saved.event
  BY DEF Revoke, SavedRows
<1>3. Money([grant EXCEPT ![g].status = "revoked"], event, mem,
            [saved.grant EXCEPT ![g].status = "revoked"], saved.event)
  BY <1>1, RevokeKeeps DEF MoneyRight
<1> QED
  BY <1>1, <1>2, <1>3 DEF MoneyRight

LEMMA MoneyRefused ==
  ASSUME MoneyRight, Refuse
  PROVE  MoneyRight'
<1>1. CASE Return(grant, event, task)
  BY <1>1, MoneyCommitted DEF Return, MoneyRight
<1>2. ASSUME NEW g \in ActiveGrants,
             LET row == MarkTerminal(g, Loaded(g)) IN
               Return([grant EXCEPT ![g].status =
                         IF row.status = "active" THEN "exhausted" ELSE row.status],
                      event, task)
      PROVE  MoneyRight'
  <2>1. g \in Grants /\ grant[g].status = "active"
    BY DEF ActiveGrants
  <2>2. PICK row \in GrantRows :
          /\ row = Loaded(g) /\ CopyCovers(row, event, g)
          /\ row.status = "active" /\ row.envelope = grant[g].envelope
    BY <2>1, LoadedFacts
  <2>3. PICK m \in GrantRows :
          /\ m = MarkTerminal(g, row) /\ SameCounters(m, row)
          /\ m.envelope = row.envelope /\ m.status # "none"
    BY <2>2, MarkFacts
  <2>4. PICK x \in GrantRows :
          /\ x.status = IF m.status = "active" THEN "exhausted" ELSE m.status
          /\ SameCounters(x, row) /\ x.envelope = row.envelope
    <3>1. CASE m.status = "active"
      <4> DEFINE x == [m EXCEPT !.status = "exhausted"]
      <4>1. /\ x \in GrantRows /\ x.status = "exhausted" /\ SameCounters(x, m)
            /\ x.envelope = m.envelope
        BY DEF GrantRows, SameCounters
      <4>2. SameCounters(x, row)
        BY <2>3, <4>1 DEF SameCounters
      <4> HIDE DEF x
      <4> QED
        BY <2>3, <3>1, <4>1, <4>2
    <3>2. CASE m.status # "active"
      BY <2>3, <3>2
    <3> QED
      BY <3>1, <3>2
  <2>5. CopyCovers(x, event, g)
    BY <2>2, <2>4, CoversSame
  <2>6. x.status # "none" /\ x.status # "active" /\ x.envelope = grant[g].envelope
    BY <2>2, <2>3, <2>4
  <2>7. Money([grant EXCEPT ![g].status = x.status], event, [mem EXCEPT ![g] = x],
              saved.grant, saved.event)
    BY <2>1, <2>5, <2>6, MarkKeeps DEF MoneyRight
  <2>8. /\ grant' = [grant EXCEPT ![g].status = x.status] /\ event' = event
        /\ Commit([grant EXCEPT ![g].status = x.status], event, task)
    BY <1>2, <2>2, <2>3, <2>4 DEF Return
  <2> QED
    BY <2>7, <2>8, MoneyCommitted
<1> QED
  BY <1>1, <1>2 DEF Refuse

LEMMA MoneyUnfinished ==
  ASSUME MoneyRight, PlanUnfinished, HoldRight(tick.ref), tick.cost \in Nat
  PROVE  MoneyRight'
<1> DEFINE r == tick.ref
           g == event[r].grant
           g2 == [SettledGrant(r, tick.cost) EXCEPT ![g].status = MarkTerminal(g, mem[g]).status]
           e2 == [event EXCEPT ![r].status = "settled", ![r].cost = tick.cost]
<1>1. r \in Refs /\ event[r].status = "reserved" /\ mem[g] # Unloaded
  BY DEF HoldRight
<1>2. tick.cost <= event[r].hold
  BY DEF PlanUnfinished
<1>3. Money(g2, e2, [mem EXCEPT ![g] = MarkTerminal(g, mem[g])], saved.grant, saved.event)
  BY <1>1, <1>2, MoneySettled
<1>4. PICK t : Return(g2, e2, t)
  BY DEF PlanUnfinished
<1> HIDE DEF g2, e2
<1> QED
  BY <1>3, <1>4, MoneyCommitted DEF Return

LEMMA MoneyStep ==
  ASSUME SpendRight, Next
  PROVE  MoneyRight'
<1>1. MoneyRight /\ saved \in SavedRows /\ tick \in TickRows /\ tick.cost \in Nat
  BY DEF SpendRight, WorkTyped, TickTyped, TickRows
<1>2. ASSUME NEW p \in Proposals, Propose(p) \/ Reject(p) \/ AuthorizeScope(p) \/ CommitScope(p)
      PROVE  MoneyRight'
  BY <1>1, <1>2, MoneySame DEF Propose, Reject, AuthorizeScope, CommitScope
<1>3. ASSUME NEW g \in Grants, NEW p \in Proposals, AuthorizeSpend(g, p)
      PROVE  MoneyRight'
  BY <1>1, <1>3, MoneyAuthorized
<1>4. CASE WakeParked /\ UNCHANGED <<grant, event, mem>>
  <2>1. saved' = [saved EXCEPT !.task = Woken(saved.task)]
    BY <1>4 DEF WakeParked
  <2> QED
    BY <1>1, <1>4, <2>1, SavedFacts, MoneySame
<1>5. ASSUME NEW g \in Grants, ReauthorizeSpend(g)
      PROVE  MoneyRight'
  BY <1>4, <1>5 DEF ReauthorizeSpend
<1>6. ASSUME NEW g \in Grants, Revoke(g)
      PROVE  MoneyRight'
  BY <1>1, <1>6, MoneyRevoked
<1>7. ASSUME NEW g \in Grants, Elapse(g)
      PROVE  MoneyRight'
  BY <1>1, <1>7, MoneySame DEF Elapse
<1>8. CASE ReconcileParks
  BY <1>4, <1>8 DEF ReconcileParks
<1>9. ASSUME NEW t \in Tasks, WakeDue(t)
      PROVE  MoneyRight'
  <2>1. /\ UNCHANGED <<grant, event, mem>>
        /\ saved'.grant = saved.grant /\ saved'.event = saved.event
    BY <1>1, <1>9 DEF WakeDue, SavedRows
  <2> QED
    BY <1>1, <2>1, MoneySame
<1>10. CASE TickBegin \/ EnterPlanning
  BY <1>1, <1>10, MoneyLoaded DEF TickBegin, EnterPlanning
<1>11. CASE ParkForSpend
  <2>1. CASE tick.spend
    BY <1>1, <1>11, <2>1, MoneyLoaded DEF ParkForSpend
  <2>2. CASE ~tick.spend
    BY <1>1, <1>11, <2>2, MoneySame DEF ParkForSpend
  <2> QED
    BY <2>1, <2>2
<1>12. ASSUME NEW t \in Tasks, DispatchTask(t)
       PROVE  MoneyRight'
  <2>1. PICK rows : Commit(grant, event, rows)
    BY <1>12 DEF DispatchTask
  <2>2. grant' = grant /\ event' = event
    BY <1>12 DEF DispatchTask
  <2> QED
    BY <1>1, <2>1, <2>2, MoneyCommitted DEF MoneyRight
<1>13. ASSUME NEW t \in Tasks, ResumeTask(t)
       PROVE  MoneyRight'
  BY <1>1, <1>13, MoneySame DEF ResumeTask
<1>14. CASE TickEnd
  BY <1>1, <1>14, MoneyCommitted DEF TickEnd, Return, MoneyRight
<1>15. CASE AuthorityChanged \/ AttemptsUsedUp \/ SettleRefused \/ Kill
  BY <1>1, <1>15, MoneyRolledBack DEF AuthorityChanged, AttemptsUsedUp, SettleRefused, Kill
<1>16. CASE ReconcileHold
  <2>1. /\ tick.pc = "reserve" /\ FreeAttempts # {} /\ event[SourceRef].status = "reserved"
        /\ Settle(SourceRef, event[SourceRef].hold) /\ UNCHANGED saved
    BY <1>16 DEF ReconcileHold
  <2>2. SourceRef \in Refs
    BY <2>1, SourceRefIn DEF SpendRight, PlanningRight
  <2>3. PICK r \in Refs, cost \in Nat : r = SourceRef /\ cost = event[r].hold
    BY <1>1, <2>2 DEF MoneyRight, Money, Ledger, EventTables, UsageEventRows
  <2>4. cost <= event[r].hold
    BY <2>3
  <2> QED
    BY <1>1, <2>1, <2>3, <2>4, MoneySettle
<1>17. CASE Reserve
  <2>1. /\ tick.pc = "reserve" /\ FreeAttempts # {} /\ event[SourceRef].status = "none"
        /\ UNCHANGED saved
    BY <1>17 DEF Reserve
  <2>2. SourceRef \in Refs
    BY <2>1, SourceRefIn DEF SpendRight, PlanningRight
  <2> QED
    BY <1>1, <1>17, <2>1, <2>2, MoneyReserved
<1>18. CASE Refuse
  BY <1>1, <1>18, MoneyRefused
<1>19. CASE EgressAllowed \/ CallFailedUnknown \/ \E c \in Charges : CallAnswered(c)
  BY <1>1, <1>19, MoneySame DEF EgressAllowed, CallFailedUnknown, CallAnswered
<1>20. CASE EgressDenied
  <2>1. tick.ref \in Refs /\ event[tick.ref].status = "reserved"
    BY <1>20 DEF EgressDenied, SpendRight, CallRight, HoldRight
  <2>2. Return(ReleasedGrant(tick.ref), [event EXCEPT ![tick.ref].status = "released"], task)
    BY <1>20 DEF EgressDenied
  <2> QED
    BY <1>1, <2>1, <2>2, MoneyReleased, MoneyCommitted DEF Return
<1>21. CASE CallFailedBefore
  <2>1. tick.ref \in Refs /\ event[tick.ref].status = "reserved"
    BY <1>21 DEF CallFailedBefore, SpendRight, CallRight, HoldRight
  <2>2. /\ event' = [event EXCEPT ![tick.ref].status = "released"]
        /\ grant' = ReleasedGrant(tick.ref) /\ UNCHANGED <<mem, saved>>
    BY <1>21 DEF CallFailedBefore, Release
  <2> QED
    BY <1>1, <2>1, <2>2, MoneyReleased DEF MoneyRight
<1>22. CASE PlanAccepted
  <2>1. tick.ref \in Refs /\ event[tick.ref].status = "reserved"
    BY <1>22 DEF PlanAccepted, SpendRight, CallRight, HoldRight
  <2>2. tick.cost <= event[tick.ref].hold /\ Settle(tick.ref, tick.cost) /\ UNCHANGED saved
    BY <1>22 DEF PlanAccepted
  <2> QED
    BY <1>1, <2>1, <2>2, MoneySettle
<1>23. CASE PlanUnfinished
  <2>1. HoldRight(tick.ref)
    BY <1>23 DEF PlanUnfinished, SpendRight, CallRight
  <2> QED
    BY <1>1, <1>23, <2>1, MoneyUnfinished
<1> QED
  BY <1>2, <1>3, <1>5, <1>6, <1>7, <1>8, <1>9, <1>10, <1>11, <1>12, <1>13, <1>14, <1>15,
     <1>16, <1>17, <1>18, <1>19, <1>20, <1>21, <1>22, <1>23 DEF Next, Founder, TickStep

-----------------------------------------------------------------------------
(* The other parts, step by step                                           *)

\* Only the founder's calls, and time, change the papers.
Papers == <<proposal, envelope, request, elapsed>>

LEMMA PapersLeft ==
  ASSUME \/ \E g \in Grants, p \in Proposals : AuthorizeSpend(g, p)
         \/ \E g \in Grants : ReauthorizeSpend(g) \/ Revoke(g)
         \/ ReconcileParks \/ TickBegin \/ TickStep \/ Kill
         \/ \E t \in Tasks : WakeDue(t) \/ DispatchTask(t) \/ ResumeTask(t)
  PROVE  UNCHANGED Papers
<1>1. ASSUME NEW g \in Grants, NEW p \in Proposals, AuthorizeSpend(g, p)
      PROVE  UNCHANGED Papers
  BY <1>1 DEF AuthorizeSpend, Papers
<1>2. ASSUME NEW g \in Grants, ReauthorizeSpend(g) \/ Revoke(g)
      PROVE  UNCHANGED Papers
  BY <1>2 DEF ReauthorizeSpend, Revoke, Papers
<1>3. CASE ReconcileParks \/ TickBegin
  BY <1>3 DEF ReconcileParks, TickBegin, Papers
<1>4. ASSUME NEW t \in Tasks, WakeDue(t) \/ DispatchTask(t) \/ ResumeTask(t)
      PROVE  UNCHANGED Papers
  BY <1>4 DEF WakeDue, DispatchTask, ResumeTask, Papers
<1>5. CASE Rollback
  BY <1>5 DEF Rollback, Papers
<1>6. CASE TickEnd \/ ParkForSpend \/ EnterPlanning \/ ReconcileHold \/ Reserve
  BY <1>6 DEF TickEnd, ParkForSpend, EnterPlanning, ReconcileHold, Reserve, Papers
<1>7. CASE Refuse \/ EgressAllowed \/ EgressDenied \/ \E c \in Charges : CallAnswered(c)
  BY <1>7 DEF Refuse, EgressAllowed, EgressDenied, CallAnswered, Papers
<1>8. CASE CallFailedBefore \/ CallFailedUnknown \/ PlanAccepted \/ PlanUnfinished
  BY <1>8 DEF CallFailedBefore, CallFailedUnknown, PlanAccepted, PlanUnfinished, Papers
<1>9. CASE AuthorityChanged \/ AttemptsUsedUp \/ SettleRefused \/ Kill
  BY <1>5, <1>9 DEF AuthorityChanged, AttemptsUsedUp, SettleRefused, Kill
<1> QED
  BY <1>1, <1>2, <1>3, <1>4, <1>6, <1>7, <1>8, <1>9 DEF TickStep

LEMMA NextParts ==
  ASSUME Next
  PROVE  \/ UNCHANGED Papers
         \/ \E p \in Proposals : Propose(p) \/ Reject(p) \/ AuthorizeScope(p) \/ CommitScope(p)
         \/ \E g \in Grants : Elapse(g)
  BY PapersLeft DEF Next, Founder

LEMMA PapersStep ==
  ASSUME SpendRight, Next
  PROVE  PapersTyped'
<1>1. PapersTyped
  BY DEF SpendRight
<1>2. CASE UNCHANGED Papers
  BY <1>1, <1>2 DEF PapersTyped, Papers
<1>3. ASSUME NEW p \in Proposals, Propose(p) \/ Reject(p)
      PROVE  PapersTyped'
  BY <1>1, <1>3 DEF PapersTyped, Propose, Reject, ProposalRows
<1>4. ASSUME NEW p \in Proposals, AuthorizeScope(p)
      PROVE  PapersTyped'
  <2>1. Current \in SUBSET Proposals
    BY DEF Current
  <2> QED
    BY <1>1, <1>4, <2>1 DEF PapersTyped, AuthorizeScope
<1>5. ASSUME NEW p \in Proposals, CommitScope(p)
      PROVE  PapersTyped'
  <2>1. envelope' \in [Proposals -> EnvelopeRows]
    BY <1>1, <1>5 DEF PapersTyped, CommitScope, EnvelopeRows
  <2>2. /\ proposal' = [proposal EXCEPT ![p] = "authorized"]
        /\ request' = [request EXCEPT ![p] = NoRequest] /\ UNCHANGED elapsed
    BY <1>5 DEF CommitScope
  <2> QED
    BY <1>1, <2>1, <2>2 DEF PapersTyped, ProposalRows
<1>6. ASSUME NEW g \in Grants, Elapse(g)
      PROVE  PapersTyped'
  BY <1>1, <1>6 DEF PapersTyped, Elapse
<1> QED
  BY <1>2, <1>3, <1>4, <1>5, <1>6, NextParts

LEMMA AuthorityStep ==
  ASSUME SpendRight, Next
  PROVE  AuthorityRight'
<1>1. AuthorityRight /\ PapersTyped
  BY DEF SpendRight
<1>2. CASE UNCHANGED <<envelope, request>>
  BY <1>1, <1>2 DEF AuthorityRight, Current
<1>3. CASE UNCHANGED Papers
  BY <1>2, <1>3 DEF Papers
<1>4. ASSUME NEW p \in Proposals, Propose(p) \/ Reject(p)
      PROVE  AuthorityRight'
  BY <1>2, <1>4 DEF Propose, Reject
<1>5. ASSUME NEW p \in Proposals, AuthorizeScope(p)
      PROVE  AuthorityRight'
  <2>1. /\ \A q \in Proposals : request[q] = NoRequest
        /\ request' = [request EXCEPT ![p] = Current] /\ UNCHANGED envelope
    BY <1>5 DEF AuthorizeScope, GoalFree, GoalLocked
  <2>2. Current' = Current
    BY <2>1 DEF Current
  <2>3. request'[p] = Current /\ \A q \in Proposals \ {p} : request'[q] = NoRequest
    BY <1>1, <2>1 DEF PapersTyped
  <2> QED
    BY <1>1, <2>2, <2>3 DEF AuthorityRight
<1>6. ASSUME NEW p \in Proposals, CommitScope(p)
      PROVE  AuthorityRight'
  <2>1. /\ request[p] = Current
        /\ \A q \in Proposals : request[q] # NoRequest => q = p
        /\ request' = [request EXCEPT ![p] = NoRequest]
    BY <1>1, <1>6 DEF CommitScope, AuthorityRight
  <2>2. \A q \in Proposals : request'[q] = NoRequest
    BY <1>1, <2>1 DEF PapersTyped
  <2>3. Current' = {p}
    BY <1>6, <2>1 DEF CommitScope, Current
  <2> QED
    BY <2>2, <2>3 DEF AuthorityRight
<1>7. ASSUME NEW g \in Grants, Elapse(g)
      PROVE  AuthorityRight'
  BY <1>2, <1>7 DEF Elapse
<1> QED
  BY <1>3, <1>4, <1>5, <1>6, <1>7, NextParts

LEMMA CallsStep ==
  ASSUME SpendRight, Next
  PROVE  CallsTyped'
<1>1. CallsTyped /\ MaxTrouble \in Nat
  BY SpendAssumption DEF SpendRight
<1>2. CASE UNCHANGED billed /\ (UNCHANGED trouble \/ Trouble)
  BY <1>1, <1>2 DEF CallsTyped, Trouble
<1>3. ASSUME NEW c \in Charges, CallAnswered(c)
      PROVE  CallsTyped'
  <2>1. billed' = [billed EXCEPT ![tick.ref] = @ + 1] /\ UNCHANGED trouble
    BY <1>3 DEF CallAnswered
  <2>2. tick.ref \in Refs
    BY <1>3 DEF CallAnswered, SpendRight, CallRight, HoldRight
  <2>3. PICK n \in Nat : n = billed[tick.ref] + 1
    BY <1>1, <2>2 DEF CallsTyped
  <2> QED
    BY <1>1, <2>1, <2>2, <2>3 DEF CallsTyped
<1>4. CASE CallFailedUnknown
  <2>1. Trouble /\ \E n \in {0, 1} : billed' = [billed EXCEPT ![tick.ref] = @ + n]
    BY <1>4 DEF CallFailedUnknown
  <2>2. tick.ref \in Refs
    BY <1>4 DEF CallFailedUnknown, SpendRight, CallRight, HoldRight
  <2>3. PICK n \in {0, 1} : billed' = [billed EXCEPT ![tick.ref] = @ + n]
    BY <2>1
  <2>4. PICK k \in Nat : k = billed[tick.ref] + n
    BY <1>1, <2>2, <2>3 DEF CallsTyped
  <2>5. billed' = [billed EXCEPT ![tick.ref] = k]
    BY <2>3, <2>4
  <2>6. billed' \in [Refs -> Nat]
    BY <1>1, <2>2, <2>5 DEF CallsTyped
  <2> QED
    BY <1>1, <2>1, <2>6 DEF CallsTyped, Trouble
<1>5. CASE Founder \/ \E g \in Grants : Elapse(g)
  BY <1>2, <1>5 DEF Founder, Propose, Reject, AuthorizeScope, CommitScope, AuthorizeSpend,
     ReauthorizeSpend, Revoke, Elapse
<1>6. CASE ReconcileParks \/ TickBegin \/ \E t \in Tasks : WakeDue(t) \/ DispatchTask(t) \/ ResumeTask(t)
  BY <1>2, <1>6 DEF ReconcileParks, TickBegin, WakeDue, DispatchTask, ResumeTask
<1>7. CASE AuthorityChanged \/ AttemptsUsedUp \/ SettleRefused \/ Kill
  BY <1>2, <1>7 DEF AuthorityChanged, AttemptsUsedUp, SettleRefused, Kill, Rollback
<1>8. CASE TickEnd \/ ParkForSpend \/ EnterPlanning \/ ReconcileHold \/ Reserve
  BY <1>2, <1>8 DEF TickEnd, ParkForSpend, EnterPlanning, ReconcileHold, Reserve
<1>9. CASE Refuse \/ EgressAllowed \/ EgressDenied
  BY <1>2, <1>9 DEF Refuse, EgressAllowed, EgressDenied
<1>10. CASE CallFailedBefore \/ PlanAccepted \/ PlanUnfinished
  BY <1>2, <1>10 DEF CallFailedBefore, PlanAccepted, PlanUnfinished
<1> QED
  BY <1>3, <1>4, <1>5, <1>6, <1>7, <1>8, <1>9, <1>10 DEF Next, TickStep

\* The task rows, and what is durable of them.
LEMMA WorkSame ==
  ASSUME WorkTyped, UNCHANGED <<task, saved>>
  PROVE  WorkTyped'
  BY DEF WorkTyped

LEMMA WorkReturned ==
  ASSUME MoneyRight', NEW g, NEW e, NEW t \in TaskTables,
         grant' = g, event' = e, task' = t, Commit(g, e, t)
  PROVE  WorkTyped'
<1>1. grant' \in GrantTables /\ event' \in EventTables
  BY DEF MoneyRight, Money, Ledger
<1>2. saved' = [grant |-> g, event |-> e, task |-> t]
  BY DEF Commit
<1> QED
  BY <1>1, <1>2 DEF WorkTyped, SavedRows

LEMMA WorkRolledBack ==
  ASSUME WorkTyped, Rollback
  PROVE  WorkTyped'
  BY DEF WorkTyped, Rollback, SavedRows

LEMMA WorkWoken ==
  ASSUME WorkTyped, WakeParked
  PROVE  WorkTyped'
<1>1. Woken(task) \in TaskTables /\ Woken(saved.task) \in TaskTables
  BY WokenTable, SavedFacts DEF WorkTyped
<1> QED
  BY <1>1, SavedFacts DEF WorkTyped, WakeParked

LEMMA WorkStep ==
  ASSUME SpendRight, Next, MoneyRight'
  PROVE  WorkTyped'
<1>1. WorkTyped /\ task \in TaskTables /\ saved \in SavedRows /\ saved.task \in TaskTables
  BY SavedFacts DEF SpendRight, WorkTyped
<1>2. CASE UNCHANGED <<task, saved>>
  BY <1>1, <1>2, WorkSame
<1>3. ASSUME NEW p \in Proposals, Propose(p) \/ Reject(p) \/ AuthorizeScope(p) \/ CommitScope(p)
      PROVE  WorkTyped'
  BY <1>2, <1>3 DEF Propose, Reject, AuthorizeScope, CommitScope
<1>4. ASSUME NEW g \in Grants, NEW p \in Proposals, AuthorizeSpend(g, p)
      PROVE  WorkTyped'
  <2>1. /\ saved' = [saved EXCEPT !.grant = SupersededBy(saved.grant, g, p),
                                  !.task = Woken(saved.task)]
        /\ task' = Woken(task)
    BY <1>4 DEF AuthorizeSpend, SupersededBy
  <2>2. SupersededBy(saved.grant, g, p) \in GrantTables
    BY <1>1, SavedFacts, SupersedingRows DEF Superseding
  <2>3. Woken(task) \in TaskTables /\ Woken(saved.task) \in TaskTables
    BY <1>1, WokenTable
  <2> HIDE DEF SupersededBy, Woken
  <2>4. saved' \in SavedRows
    BY <1>1, <2>1, <2>2, <2>3 DEF SavedRows
  <2> QED
    BY <2>1, <2>3, <2>4 DEF WorkTyped
<1>5. CASE WakeParked
  BY <1>1, <1>5, WorkWoken
<1>6. ASSUME NEW g \in Grants, ReauthorizeSpend(g)
      PROVE  WorkTyped'
  BY <1>5, <1>6 DEF ReauthorizeSpend
<1>7. ASSUME NEW g \in Grants, Revoke(g)
      PROVE  WorkTyped'
  <2>1. saved.grant \in GrantTables /\ saved.grant[g] \in GrantRows
    BY <1>1, SavedFacts DEF GrantTables
  <2>2. [saved.grant EXCEPT ![g].status = "revoked"] \in GrantTables
    BY <2>1 DEF GrantTables, GrantRows
  <2>3. saved' = [saved EXCEPT !.grant = [saved.grant EXCEPT ![g].status = "revoked"]] /\ task' = task
    BY <1>7 DEF Revoke
  <2> QED
    BY <1>1, <2>2, <2>3 DEF WorkTyped, SavedRows
<1>8. ASSUME NEW g \in Grants, Elapse(g)
      PROVE  WorkTyped'
  BY <1>2, <1>8 DEF Elapse
<1>9. CASE ReconcileParks
  BY <1>5, <1>9 DEF ReconcileParks
<1>10. ASSUME NEW t \in Tasks, WakeDue(t)
       PROVE  WorkTyped'
  <2>1. /\ [task EXCEPT ![t].status = "ready"] \in TaskTables
        /\ [saved.task EXCEPT ![t].status = "ready"] \in TaskTables
    BY <1>1, StatusTable
  <2>2. /\ task' = [task EXCEPT ![t].status = "ready"]
        /\ saved' = [saved EXCEPT !.task = [saved.task EXCEPT ![t].status = "ready"]]
    BY <1>10 DEF WakeDue
  <2> QED
    BY <1>1, <2>1, <2>2, SavedFacts DEF WorkTyped
<1>11. CASE TickBegin \/ EgressAllowed \/ Reserve
  BY <1>2, <1>11 DEF TickBegin, EgressAllowed, Reserve
<1>12. ASSUME NEW t \in Tasks, DispatchTask(t)
       PROVE  WorkTyped'
  <2>1. [task EXCEPT ![t].status = "running"] \in TaskTables
    BY <1>1, StatusTable
  <2>2. PICK rows \in TaskTables : task' = rows /\ Commit(grant, event, rows)
    BY <1>12, <2>1 DEF DispatchTask
  <2>3. grant' = grant /\ event' = event
    BY <1>12 DEF DispatchTask
  <2> QED
    BY <2>2, <2>3, WorkReturned
<1>13. ASSUME NEW t \in Tasks, ResumeTask(t)
       PROVE  WorkTyped'
  BY <1>2, <1>13 DEF ResumeTask
<1>14. ASSUME NEW g, NEW e, NEW t \in TaskTables, Return(g, e, t)
       PROVE  WorkTyped'
  BY <1>14, WorkReturned DEF Return
<1>15. CASE TickEnd \/ EgressDenied
  BY <1>1, <1>14, <1>15 DEF TickEnd, EgressDenied
<1>16. CASE Refuse
  BY <1>1, <1>14, <1>16 DEF Refuse
<1>17. CASE AuthorityChanged \/ AttemptsUsedUp \/ SettleRefused \/ Kill
  BY <1>1, <1>17, WorkRolledBack DEF AuthorityChanged, AttemptsUsedUp, SettleRefused, Kill
<1>18. CASE ParkForSpend
  <2>1. /\ tick.pc = "check" /\ task' = [task EXCEPT ![tick.task].status = "parked"]
        /\ saved' = saved
    BY <1>18 DEF ParkForSpend
  <2>2. tick.task \in Tasks
    BY <2>1 DEF SpendRight, PlanningRight
  <2> QED
    BY <1>1, <2>1, <2>2, StatusTable DEF WorkTyped
<1>19. CASE EnterPlanning
  <2>1. /\ tick.pc = "check" /\ saved' = saved
        /\ task' = [task EXCEPT ![tick.task].status = "completed"] \/ task' = task
    BY <1>19 DEF EnterPlanning
  <2>2. PICK t \in Tasks : t = tick.task
    BY <2>1 DEF SpendRight, PlanningRight
  <2>3. [task EXCEPT ![t].status = "completed"] \in TaskTables
    BY <1>1, StatusTable
  <2>4. task' \in TaskTables
    BY <1>1, <2>1, <2>2, <2>3
  <2> QED
    BY <1>1, <2>1, <2>4 DEF WorkTyped
<1>20. ASSUME Wait, tick.pc \in {"reserve", "call"}, UNCHANGED saved
       PROVE  WorkTyped'
  <2>1. tick.task \in Tasks
    BY <1>20 DEF SpendRight, PlanningRight
  <2> QED
    BY <1>1, <1>20, <2>1, BackoffTable DEF WorkTyped, Wait
<1>21. CASE ReconcileHold \/ CallFailedBefore \/ CallFailedUnknown
  BY <1>20, <1>21 DEF ReconcileHold, CallFailedBefore, CallFailedUnknown
<1>22. ASSUME NEW c \in Charges, CallAnswered(c)
       PROVE  WorkTyped'
  BY <1>2, <1>22 DEF CallAnswered
<1>23. CASE PlanAccepted
  <2>1. /\ tick.pc = "settle" /\ saved' = saved
        /\ task' = [task EXCEPT ![tick.task].status = "completed",
                                ![tick.task].accepted = TRUE]
    BY <1>23 DEF PlanAccepted
  <2>2. tick.task \in Tasks
    BY <2>1 DEF SpendRight, PlanningRight
  <2>3. PICK t \in Tasks, status \in {"completed"}, accepted \in {TRUE} : t = tick.task
    BY <2>2
  <2>4. [task EXCEPT ![t].status = status, ![t].accepted = accepted] \in TaskTables
    BY <1>1, StatusTable
  <2>5. task' \in TaskTables
    BY <2>1, <2>3, <2>4
  <2> QED
    BY <1>1, <2>1, <2>5 DEF WorkTyped
<1>24. CASE PlanUnfinished
  <2>1. tick.pc = "settle"
    BY <1>24 DEF PlanUnfinished
  <2>2. tick.task \in Tasks
    BY <2>1 DEF SpendRight, PlanningRight
  <2>3. \A accepted \in BOOLEAN : [task EXCEPT ![tick.task].accepted = accepted] \in TaskTables
    BY <1>1, <2>2, StatusTable
  <2> QED
    BY <1>14, <1>24, <2>3 DEF PlanUnfinished
<1> QED
  BY <1>3, <1>4, <1>6, <1>7, <1>8, <1>9, <1>10, <1>11, <1>12, <1>13, <1>15, <1>16, <1>17,
     <1>18, <1>19, <1>21, <1>22, <1>23, <1>24 DEF Next, Founder, TickStep

\* The tick's own row: what else it must say where it goes.
TickRight == TickTyped /\ PlanningRight

LEMMA PlanningFrom ==
  ASSUME SpendRight, tick' \in TickRows, UNCHANGED request,
         tick'.shared => tick.shared \/ ~GoalLocked,
         tick'.pc \in {"check", "reserve", "egress", "call", "settle"} => tick'.task \in Tasks,
         tick'.pc \in {"reserve", "egress", "call", "settle"} => tick'.shared
  PROVE  TickRight'
<1>1. \A p \in Proposals : request'[p] # NoRequest => ~tick'.shared
  BY TickRowTyped DEF SpendRight, PlanningRight, GoalLocked
<1> QED
  BY <1>1 DEF TickRight, TickTyped, PlanningRight

LEMMA PlanningOver ==
  ASSUME SpendRight, tick' = NoTick, UNCHANGED request
  PROVE  TickRight'
  BY NoTickFacts, PlanningFrom

LEMMA TickRightStep ==
  ASSUME SpendRight, Next
  PROVE  TickRight'
<1>1. TickTyped /\ PlanningRight /\ tick \in TickRows
  BY DEF SpendRight, TickTyped
<1>2. CASE UNCHANGED <<tick, request>>
  BY <1>1, <1>2 DEF TickRight, TickTyped, PlanningRight
<1>3. ASSUME NEW p \in Proposals, Propose(p) \/ Reject(p)
      PROVE  TickRight'
  BY <1>2, <1>3 DEF Propose, Reject
<1>4. ASSUME NEW p \in Proposals, AuthorizeScope(p)
      PROVE  TickRight'
  <2>1. ~tick.shared /\ UNCHANGED tick
    BY <1>4 DEF AuthorizeScope, GoalFree
  <2> QED
    BY <1>1, <2>1 DEF TickRight, TickTyped, PlanningRight
<1>5. ASSUME NEW p \in Proposals, CommitScope(p)
      PROVE  TickRight'
  <2>1. UNCHANGED tick /\ request' = [request EXCEPT ![p] = NoRequest]
    BY <1>5 DEF CommitScope
  <2>2. \A q \in Proposals : request'[q] # NoRequest => request[q] # NoRequest
    BY <2>1 DEF SpendRight, PapersTyped
  <2> QED
    BY <1>1, <2>1, <2>2 DEF TickRight, TickTyped, PlanningRight
<1>6. ASSUME NEW g \in Grants, NEW p \in Proposals, AuthorizeSpend(g, p)
      PROVE  TickRight'
  BY <1>2, <1>6 DEF AuthorizeSpend
<1>7. ASSUME NEW g \in Grants, ReauthorizeSpend(g) \/ Revoke(g) \/ Elapse(g)
      PROVE  TickRight'
  BY <1>2, <1>7 DEF ReauthorizeSpend, Revoke, Elapse
<1>8. CASE ReconcileParks \/ \E t \in Tasks : WakeDue(t)
  BY <1>2, <1>8 DEF ReconcileParks, WakeDue
<1>9. CASE TickBegin
  <2>1. UNCHANGED request
    BY <1>9 DEF TickBegin
  <2>2. tick' \in TickRows /\ tick'.pc = "loop" /\ ~tick'.shared
    BY <1>9, MovesOpen
  <2> QED
    BY <2>1, <2>2, PlanningFrom
<1>10. ASSUME NEW t \in Tasks, DispatchTask(t)
       PROVE  TickRight'
  <2>1. UNCHANGED request
    BY <1>10 DEF DispatchTask
  <2>2. tick' \in TickRows /\ tick'.pc = "check" /\ ~tick'.shared /\ tick'.task = t
    BY <1>10, MovesOpen
  <2> QED
    BY <2>1, <2>2, PlanningFrom
<1>11. ASSUME NEW t \in Tasks, ResumeTask(t)
       PROVE  TickRight'
  <2>1. UNCHANGED request
    BY <1>11 DEF ResumeTask
  <2>2. /\ tick' \in TickRows /\ tick'.pc = "check" /\ tick'.shared = tick.shared
        /\ tick'.task = t
    BY <1>11, MovesOpen
  <2> QED
    BY <2>1, <2>2, PlanningFrom
<1>12. ASSUME NEW g, NEW e, NEW t, Return(g, e, t), UNCHANGED request
       PROVE  TickRight'
  BY <1>12, PlanningOver DEF Return
<1>13. CASE TickEnd \/ Refuse \/ EgressDenied \/ PlanUnfinished
  BY <1>12, <1>13 DEF TickEnd, Refuse, EgressDenied, PlanUnfinished
<1>14. CASE AuthorityChanged \/ AttemptsUsedUp \/ SettleRefused \/ Kill
  BY <1>14, PlanningOver DEF AuthorityChanged, AttemptsUsedUp, SettleRefused, Kill, Rollback
<1>15. CASE ParkForSpend
  <2>1. UNCHANGED request
    BY <1>15 DEF ParkForSpend
  <2>2. tick' \in TickRows /\ tick'.pc = "loop" /\ ~GoalLocked
    BY <1>15, MovesPlan
  <2> QED
    BY <2>1, <2>2, PlanningFrom
<1>16. CASE EnterPlanning
  <2>1. UNCHANGED request /\ tick.pc = "check"
    BY <1>16 DEF EnterPlanning
  <2>2. /\ tick' \in TickRows /\ ~GoalLocked /\ tick'.shared
        /\ tick'.pc \in {"loop", "reserve"} /\ tick'.task = tick.task
    BY <1>16, MovesPlan
  <2>3. tick.task \in Tasks
    BY <1>1, <2>1 DEF PlanningRight
  <2> QED
    BY <2>1, <2>2, <2>3, PlanningFrom
<1>17. CASE Reserve
  <2>1. UNCHANGED request /\ tick.pc = "reserve" /\ FreeAttempts # {}
    BY <1>17 DEF Reserve
  <2>2. /\ tick' \in TickRows /\ tick'.pc = "egress"
        /\ tick'.shared = tick.shared /\ tick'.task = tick.task
    BY <1>17, <2>1, MovesPlan
  <2>3. tick.task \in Tasks /\ tick.shared
    BY <1>1, <2>1 DEF PlanningRight
  <2> QED
    BY <2>1, <2>2, <2>3, PlanningFrom
<1>18. CASE EgressAllowed
  <2>1. UNCHANGED request /\ tick.pc = "egress"
    BY <1>18 DEF EgressAllowed
  <2>2. /\ tick' \in TickRows /\ tick'.pc = "call"
        /\ tick'.shared = tick.shared /\ tick'.task = tick.task
    BY <1>18, MovesCall
  <2>3. tick.task \in Tasks /\ tick.shared
    BY <1>1, <2>1 DEF PlanningRight
  <2> QED
    BY <2>1, <2>2, <2>3, PlanningFrom
<1>19. ASSUME NEW c \in Charges, CallAnswered(c)
       PROVE  TickRight'
  <2>1. UNCHANGED request /\ tick.pc = "call"
    BY <1>19 DEF CallAnswered
  <2>2. /\ tick' \in TickRows /\ tick'.pc = "settle"
        /\ tick'.shared = tick.shared /\ tick'.task = tick.task
    BY <1>19, MovesCall
  <2>3. tick.task \in Tasks /\ tick.shared
    BY <1>1, <2>1 DEF PlanningRight
  <2> QED
    BY <2>1, <2>2, <2>3, PlanningFrom
<1>20. CASE ReconcileHold \/ CallFailedBefore \/ CallFailedUnknown
  <2>1. UNCHANGED request /\ tick.pc \in {"reserve", "call"} /\ Wait
    BY <1>20 DEF ReconcileHold, CallFailedBefore, CallFailedUnknown
  <2>2. tick.task \in Tasks
    BY <1>1, <2>1 DEF PlanningRight
  <2>3. tick' \in TickRows /\ tick'.pc = "loop" /\ tick'.shared = tick.shared
    BY <2>1, <2>2, MovesCall
  <2> QED
    BY <2>1, <2>3, PlanningFrom
<1>21. CASE PlanAccepted
  <2>1. UNCHANGED request
    BY <1>21 DEF PlanAccepted
  <2>2. tick' \in TickRows /\ tick'.pc = "loop" /\ tick'.shared = tick.shared
    BY <1>21, MovesCall
  <2> QED
    BY <2>1, <2>2, PlanningFrom
<1> QED
  BY <1>3, <1>4, <1>5, <1>6, <1>7, <1>8, <1>9, <1>10, <1>11, <1>13, <1>14, <1>15,
     <1>16, <1>17, <1>18, <1>19, <1>20, <1>21 DEF Next, Founder, TickStep

\* The authority of the call under way is not touched: its grant is locked and
\* the goal row is referred to.
LEMMA HoldSame ==
  ASSUME NEW r, HoldRight(r), UNCHANGED <<event, mem, grant, envelope>>
  PROVE  HoldRight(r)'
  BY DEF HoldRight, Current

LEMMA CallOver ==
  ASSUME tick'.pc \in {"idle", "loop", "check", "reserve"}
  PROVE  CallRight'
  BY DEF CallRight

LEMMA CallStep ==
  ASSUME SpendRight, Next
  PROVE  CallRight'
<1>1. CallRight /\ PlanningRight /\ MoneyRight /\ WorkTyped
  BY DEF SpendRight
<1>2. CASE UNCHANGED <<tick, event, mem, grant, envelope>>
  <2>1. \A r : HoldRight(r) => HoldRight(r)'
    BY <1>2, HoldSame
  <2> QED
    BY <1>1, <1>2, <2>1 DEF CallRight
<1>3. ASSUME NEW p \in Proposals, Propose(p) \/ Reject(p) \/ AuthorizeScope(p)
      PROVE  CallRight'
  BY <1>2, <1>3 DEF Propose, Reject, AuthorizeScope
<1>4. ASSUME NEW g \in Grants, ReauthorizeSpend(g) \/ Elapse(g)
      PROVE  CallRight'
  BY <1>2, <1>4 DEF ReauthorizeSpend, Elapse
<1>5. CASE ReconcileParks \/ \E t \in Tasks : WakeDue(t)
  BY <1>2, <1>5 DEF ReconcileParks, WakeDue
<1>6. CASE ~tick.shared /\ UNCHANGED tick
  BY <1>1, <1>6 DEF CallRight, PlanningRight
<1>7. ASSUME NEW p \in Proposals, CommitScope(p)
      PROVE  CallRight'
  <2>1. ~tick.shared /\ UNCHANGED tick
    BY <1>1, <1>7 DEF CommitScope, PlanningRight
  <2> QED
    BY <1>6, <2>1
<1>8. ASSUME NEW g \in Grants, NEW p \in Proposals, AuthorizeSpend(g, p)
      PROVE  CallRight'
  <2>1. ~tick.shared /\ UNCHANGED tick
    BY <1>8 DEF AuthorizeSpend, GoalFree
  <2> QED
    BY <1>6, <2>1
<1>9. ASSUME NEW g \in Grants, Revoke(g)
      PROVE  CallRight'
  <2>1. /\ mem[g] = Unloaded /\ UNCHANGED <<tick, event, mem, envelope>>
        /\ grant' = [grant EXCEPT ![g].status = "revoked"]
    BY <1>9 DEF Revoke, Locked
  <2>2. grant \in [Grants -> GrantRows]
    BY <1>1 DEF MoneyRight, Money, Ledger, GrantTables
  <2>3. \A h \in Grants : h # g => grant'[h] = grant[h]
    BY <2>1, <2>2
  <2>4. \A r : HoldRight(r) => HoldRight(r)'
    BY <2>1, <2>3 DEF HoldRight, Current
  <2> QED
    BY <1>1, <2>1, <2>4 DEF CallRight
<1>10. CASE TickBegin
  BY <1>10, MovesOpen, CallOver
<1>11. ASSUME NEW t \in Tasks, DispatchTask(t) \/ ResumeTask(t)
       PROVE  CallRight'
  BY <1>11, MovesOpen, CallOver
<1>12. CASE tick' = NoTick
  BY <1>12, NoTickFacts, CallOver
<1>13. CASE TickEnd \/ Refuse \/ EgressDenied \/ PlanUnfinished
  BY <1>12, <1>13 DEF TickEnd, Refuse, EgressDenied, PlanUnfinished, Return
<1>14. CASE AuthorityChanged \/ AttemptsUsedUp \/ SettleRefused \/ Kill
  BY <1>12, <1>14 DEF AuthorityChanged, AttemptsUsedUp, SettleRefused, Kill, Rollback
<1>15. CASE ParkForSpend \/ EnterPlanning
  BY <1>15, MovesPlan, CallOver
<1>16. CASE ReconcileHold \/ CallFailedBefore \/ CallFailedUnknown
  <2>1. tick.pc \in {"reserve", "call"} /\ Wait
    BY <1>16 DEF ReconcileHold, CallFailedBefore, CallFailedUnknown
  <2>2. tick.task \in Tasks
    BY <1>1, <2>1 DEF PlanningRight
  <2> QED
    BY <2>1, <2>2, MovesCall, CallOver
<1>17. CASE PlanAccepted
  BY <1>17, MovesCall, CallOver
<1>18. CASE Reserve
  <2>1. /\ tick.pc = "reserve" /\ FreeAttempts # {} /\ event[SourceRef].status = "none"
        /\ UNCHANGED saved /\ UNCHANGED envelope
    BY <1>18 DEF Reserve
  <2>2. PICK r \in Refs : r = SourceRef
    BY <1>1, <2>1, SourceRefIn DEF PlanningRight
  <2>3. Current' = Current
    BY <2>1 DEF Current
  <2>4. HoldRight(r)'
    BY <1>1, <1>18, <2>1, <2>2, <2>3, MoneyReserved
  <2>5. tick'.ref = r
    BY <1>18, <2>1, <2>2, MovesPlan
  <2> QED
    BY <2>4, <2>5 DEF CallRight, HoldRight
<1>19. CASE EgressAllowed
  <2>1. tick.pc = "egress" /\ tick'.ref = tick.ref /\ UNCHANGED <<event, mem, grant, envelope>>
    BY <1>19, MovesCall DEF EgressAllowed
  <2>2. HoldRight(tick.ref)'
    BY <1>1, <2>1, HoldSame DEF CallRight
  <2> QED
    BY <2>1, <2>2 DEF CallRight, HoldRight
<1>20. ASSUME NEW c \in Charges, CallAnswered(c)
       PROVE  CallRight'
  <2>1. tick.pc = "call" /\ tick'.ref = tick.ref /\ UNCHANGED <<event, mem, grant, envelope>>
    BY <1>20, MovesCall DEF CallAnswered
  <2>2. HoldRight(tick.ref)'
    BY <1>1, <2>1, HoldSame DEF CallRight
  <2> QED
    BY <2>1, <2>2 DEF CallRight, HoldRight
<1> QED
  BY <1>3, <1>4, <1>5, <1>7, <1>8, <1>9, <1>10, <1>11, <1>13, <1>14, <1>15,
     <1>16, <1>17, <1>18, <1>19, <1>20 DEF Next, Founder, TickStep

-----------------------------------------------------------------------------
(* The invariant holds                                                     *)

LEMMA SpendStart ==
  ASSUME Init
  PROVE  SpendRight
<1>1. NoGrant \in GrantRows /\ NoGrant.status = "none"
  BY DEF NoGrant, GrantRows
<1>2. NoEvent \in UsageEventRows /\ NoEvent.status = "none"
  BY DEF NoEvent, UsageEventRows
<1>3. grant \in GrantTables /\ \A g \in Grants : grant[g] = NoGrant
  BY <1>1 DEF Init, GrantTables
<1>4. event \in EventTables /\ \A r \in Refs : event[r] = NoEvent
  BY <1>2 DEF Init, EventTables
<1>5. mem = Nothing /\ saved.grant = grant /\ saved.event = event
  BY DEF Init, Nothing
<1>6. Ledger(grant, event)
  <2>1. \A g \in Grants : Covers(grant[g], event, g) /\ Within(event, g)
    <3> SUFFICES ASSUME NEW g \in Grants
                 PROVE  Covers(grant[g], event, g) /\ Within(event, g)
      OBVIOUS
    <3>1. \A r \in Refs : ~Is(event, g, "reserved", r) /\ ~Is(event, g, "settled", r)
      BY <1>2, <1>4 DEF Is
    <3>2. /\ HeldCost(event, g) = 0 /\ PaidCost(event, g) = 0
          /\ HeldCalls(event, g) = 0 /\ PaidCalls(event, g) = 0
      BY <1>4, <3>1, TallyNone
    <3> QED
      BY <1>1, <1>3, <3>2, GrantRowTyped, SpendAssumption DEF Covers, Within
  <2>2. Booked(grant, event)
    BY <1>2, <1>4 DEF Booked
  <2> QED
    BY <1>3, <1>4, <2>1, <2>2 DEF Ledger
<1>7. Money(grant, event, Nothing, grant, event)
  <2>1. \A g \in Grants : grant[g].status # "active"
    BY <1>1, <1>3
  <2>2. OneActive(grant)
    BY <2>1 DEF OneActive
  <2>3. Nothing \in MemTables /\ \A g \in Grants : Nothing[g] = Unloaded
    BY DEF Nothing, MemTables
  <2>4. CopiesRight(grant, Nothing, grant)
    BY <2>3 DEF CopiesRight
  <2> QED
    BY <1>6, <2>2, <2>3, <2>4 DEF Money
<1>8. MoneyRight
  BY <1>5, <1>7 DEF MoneyRight
<1>9. PapersTyped
  BY DEF Init, PapersTyped, ProposalRows, EnvelopeRows
<1>10. CallsTyped
  BY SpendAssumption DEF Init, CallsTyped
<1>11. WorkTyped
  <2>1. [status |-> "ready", backoffs |-> 0, accepted |-> FALSE] \in TaskRows
    BY SpendAssumption DEF TaskRows
  <2>2. task \in TaskTables
    BY <2>1 DEF Init, TaskTables
  <2> QED
    BY <1>3, <1>4, <2>2 DEF Init, WorkTyped, SavedRows
<1>12. AuthorityRight
  BY DEF Init, AuthorityRight, Current
<1>13. TickTyped /\ PlanningRight /\ CallRight
  <2>1. tick = NoTick
    BY DEF Init
  <2> QED
    BY <2>1, NoTickFacts DEF TickTyped, PlanningRight, CallRight
<1> QED
  BY <1>8, <1>9, <1>10, <1>11, <1>12, <1>13 DEF SpendRight

LEMMA SpendStep ==
  ASSUME SpendRight, [Next]_vars
  PROVE  SpendRight'
<1>1. CASE Next
  <2>1. MoneyRight'
    BY <1>1, MoneyStep
  <2> QED
    BY <1>1, <2>1, PapersStep, CallsStep, WorkStep, TickRightStep, AuthorityStep, CallStep
       DEF SpendRight, TickRight
<1>2. CASE UNCHANGED vars
  BY <1>2 DEF vars, SpendRight, PapersTyped, CallsTyped, WorkTyped, TickTyped, MoneyRight,
     AuthorityRight, Current, PlanningRight, CallRight, HoldRight
<1> QED
  BY <1>1, <1>2

LEMMA SpendAlways == Spec => []SpendRight
<1>1. Init => SpendRight
  BY SpendStart
<1>2. SpendRight /\ [Next]_vars => SpendRight'
  BY SpendStep
<1> QED
  BY <1>1, <1>2, PTL DEF Spec

-----------------------------------------------------------------------------
(* What the usage rows charge to a grant is what the ledger counts         *)

SumsOf(H, F, G, S) == \A x \in S : H[x] = F[x] + G[x]

LEMMA TotalPlus ==
  ASSUME NEW S, IsFiniteSet(S), NEW F \in [S -> Nat], NEW G \in [S -> Nat],
         NEW H \in [S -> Nat], SumsOf(H, F, G, S)
  PROVE  Total(H, S) = Total(F, S) + Total(G, S)
<1>1. PICK f : Iterates(f, F, S) /\ Total(F, S) = f[S]
  BY TotalIterates
<1>2. PICK g : Iterates(g, G, S) /\ Total(G, S) = g[S]
  BY TotalIterates
<1>3. PICK h : Iterates(h, H, S) /\ Total(H, S) = h[S]
  BY TotalIterates
<1>4. NatOn(F, S) /\ NatOn(G, S)
  BY DEF NatOn
<1>5. \A s \in SUBSET S : f[s] \in Nat /\ g[s] \in Nat
  BY <1>1, <1>2, <1>4, IteratesNat
<1> DEFINE Q == {s \in SUBSET S : h[s] = f[s] + g[s]}
<1>6. ASSUME NEW s \in SUBSET S, \A x \in s : s \ {x} \in Q
      PROVE  s \in Q
  <2>1. CASE s = {}
    <3>1. f[s] = 0 /\ g[s] = 0 /\ h[s] = 0
      BY <1>1, <1>2, <1>3, <2>1, IteratesAt
    <3> QED
      BY <3>1
  <2>2. CASE s # {}
    <3>1. PICK x \in s : x = Pick(s)
      BY <2>2, PickIn
    <3>2. PICK u \in SUBSET S : u = s \ {x}
      OBVIOUS
    <3>3. f[s] = F[x] + f[u] /\ g[s] = G[x] + g[u] /\ h[s] = H[x] + h[u]
      <4>1. f[s] = F[x] + f[u]
        BY <1>1, <2>2, <3>1, <3>2, IteratesAt
      <4>2. g[s] = G[x] + g[u]
        BY <1>2, <2>2, <3>1, <3>2, IteratesAt
      <4>3. h[s] = H[x] + h[u]
        BY <1>3, <2>2, <3>1, <3>2, IteratesAt
      <4> QED
        BY <4>1, <4>2, <4>3
    <3>4. h[u] = f[u] + g[u]
      BY <1>6, <3>1, <3>2
    <3>5. F[x] \in Nat /\ G[x] \in Nat /\ H[x] = F[x] + G[x]
      BY <3>1 DEF SumsOf
    <3>6. f[u] \in Nat /\ g[u] \in Nat
      BY <1>5, <3>2
    <3> QED
      BY <3>3, <3>4, <3>5, <3>6
  <2> QED
    BY <2>1, <2>2
<1> HIDE DEF Q
<1>7. SUBSET S \subseteq Q
  BY <1>6, SubsetInduction
<1> QED
  BY <1>1, <1>2, <1>3, <1>7 DEF Q

\* The sums the properties speak of are totals.
LEMMA SumIsTotal ==
  ASSUME NEW T, IsFiniteSet(T), NEW F, \A r \in T : F[r] = Charge(r)
  PROVE  Sum(T, Charge) = Total(F, T)
<1> DEFINE Adds(g) == g = [s \in SUBSET T |-> IF s = {} THEN 0
                                              ELSE Charge(Pick(s)) + g[s \ {Pick(s)}]]
           c == CHOOSE g : Adds(g)
<1>1. ASSUME NEW g
      PROVE  Adds(g) <=> Iterates(g, F, T)
  <2>1. \A s \in SUBSET T : s # {} => F[Pick(s)] = Charge(Pick(s))
    BY PickIn
  <2>2. [s \in SUBSET T |-> IF s = {} THEN 0 ELSE Charge(Pick(s)) + g[s \ {Pick(s)}]]
          = [s \in SUBSET T |-> IF s = {} THEN 0 ELSE F[Pick(s)] + g[s \ {Pick(s)}]]
    BY <2>1
  <2> QED
    BY <2>2 DEF Iterates
<1>2. Sum(T, Charge) = c[T]
  BY DEF Sum, MapThenSumSet, MapThenFoldSet, Pick
<1>3. PICK h : Iterates(h, F, T) /\ Total(F, T) = h[T]
  BY TotalIterates
<1>4. Adds(h)
  BY <1>1, <1>3
<1>5. Adds(c)
  BY <1>4
<1>6. Iterates(c, F, T)
  BY <1>1, <1>5
<1>7. c[T] = h[T]
  BY <1>3, <1>6, IteratesAgree
<1> QED
  BY <1>2, <1>3, <1>7

LEMMA ChargesCounted ==
  ASSUME event \in EventTables, NEW g \in Grants
  PROVE  /\ Cardinality(Charged(g)) = HeldCalls(event, g) + PaidCalls(event, g)
         /\ Sum(Charged(g), Charge) = HeldCost(event, g) + PaidCost(event, g)
<1> DEFINE T == Charged(g)
           M == [r \in Refs |-> HeldAt(event, g)[r] + PaidAt(event, g)[r]]
           N == [r \in Refs |-> HeldIs(event, g)[r] + PaidIs(event, g)[r]]
<1>1. IsFiniteSet(Refs) /\ T \in SUBSET Refs /\ IsFiniteSet(T)
  BY RefsFinite, FS_Subset DEF Charged
<1>2. /\ HeldAt(event, g) \in [Refs -> Nat] /\ PaidAt(event, g) \in [Refs -> Nat]
      /\ HeldIs(event, g) \in [Refs -> Nat] /\ PaidIs(event, g) \in [Refs -> Nat]
  BY TallyTyped
<1>3. M \in [Refs -> Nat] /\ N \in [Refs -> Nat]
  BY <1>2
<1>4. /\ \A r \in T : M[r] = Charge(r) /\ N[r] = 1
      /\ \A r \in Refs \ T : M[r] = 0 /\ N[r] = 0
  <2>1. \A r \in Refs : event[r].hold \in Nat /\ event[r].cost \in Nat
    BY DEF EventTables, UsageEventRows
  <2> QED
    BY <2>1 DEF Charged, Charge, HeldAt, PaidAt, HeldIs, PaidIs, Is
<1>5. /\ SumsOf(M, HeldAt(event, g), PaidAt(event, g), Refs)
      /\ SumsOf(N, HeldIs(event, g), PaidIs(event, g), Refs)
  BY DEF SumsOf
<1> HIDE DEF M, N, T
<1>6. Total(M, Refs) = HeldCost(event, g) + PaidCost(event, g)
  BY <1>1, <1>2, <1>3, <1>5, TotalPlus DEF HeldCost, PaidCost
<1>7. Total(N, Refs) = HeldCalls(event, g) + PaidCalls(event, g)
  BY <1>1, <1>2, <1>3, <1>5, TotalPlus DEF HeldCalls, PaidCalls
<1>8. Total(M, Refs) = Total(M, T) /\ Total(N, Refs) = Total(N, T)
  BY <1>1, <1>3, <1>4, TotalOfPart
<1>9. Total(N, T) = Cardinality(T)
  BY <1>1, <1>4, TotalOfOnes
<1>10. Sum(T, Charge) = Total(M, T)
  BY <1>1, <1>4, SumIsTotal
<1> QED
  BY <1>6, <1>7, <1>8, <1>9, <1>10 DEF T

-----------------------------------------------------------------------------
(* What follows                                                            *)

LEMMA AtMostOne ==
  ASSUME NEW S, \A x, y \in S : x = y
  PROVE  Cardinality(S) <= 1
<1>1. CASE S = {}
  <2>1. Cardinality(S) = 0
    BY <1>1, FS_EmptySet
  <2> QED
    BY <2>1
<1>2. CASE S # {}
  <2>1. PICK x \in S : TRUE
    BY <1>2
  <2>2. S = {x}
    BY <2>1
  <2>3. Cardinality({x}) = 1
    BY FS_Singleton
  <2> QED
    BY <2>2, <2>3
<1> QED
  BY <1>1, <1>2

LEMMA SpendRightMeans ==
  ASSUME SpendRight
  PROVE  SpendInv /\ CallsAuthorized
<1>1. TypeOK
  BY DEF SpendRight, PapersTyped, CallsTyped, WorkTyped, TickTyped, TickRows, MoneyRight,
     Money, Ledger, GrantTables, EventTables, TaskTables, TypeOK
<1>2. OneAuthority
  <2>1. \A p, q \in Current : p = q
    BY DEF SpendRight, AuthorityRight
  <2>2. \A g, h \in ActiveGrants : g = h
    BY OneActiveNow DEF SpendRight, MoneyRight, OneActive, ActiveGrants
  <2> QED
    BY <2>1, <2>2, AtMostOne DEF OneAuthority
<1>3. /\ event \in EventTables
      /\ \A g \in Grants : /\ grant[g] \in GrantRows
                           /\ Covers(grant[g], event, g) /\ Within(event, g)
  BY DEF SpendRight, MoneyRight, Money, Ledger, GrantTables
<1>4. CeilingsHold
  BY <1>3, ChargesCounted DEF CeilingsHold, Within
<1>5. NeverUnderstated
  <2> SUFFICES ASSUME NEW g \in Grants
               PROVE  /\ Cardinality(Charged(g)) <= CommittedRequests(grant[g])
                      /\ Sum(Charged(g), Charge) <= CommittedCost(grant[g])
    BY DEF NeverUnderstated
  <2>1. CopyCovers(grant[g], event, g)
    BY <1>3, CoversCopy
  <2> QED
    BY <1>3, <2>1, ChargesCounted DEF CopyCovers
<1>6. CallsAuthorized
  BY DEF SpendRight, CallRight, HoldRight, CallsAuthorized, ActiveGrants
<1> QED
  BY <1>1, <1>2, <1>4, <1>5, <1>6 DEF SpendInv

\* However the founder's calls, the tick, its kills and its stale copy of the
\* grant interleave: one envelope and one grant are current, no grant is ever
\* charged more requests or money than its ceilings, and the counters every
\* budget decision is made from never say less than the usage rows add up to
\* (reserve_provider_spend_call, settle_provider_spend_call).
THEOREM BudgetsHold == Spec => []SpendInv
<1>1. SpendRight => SpendInv
  BY SpendRightMeans
<1> QED
  BY <1>1, SpendAlways, PTL

\* A call to the provider is made, and settled, under its own hold and under
\* the grant and the envelope that are then current (plan_with_provider).
THEOREM CallsUnderAuthority == Spec => []CallsAuthorized
<1>1. SpendRight => CallsAuthorized
  BY SpendRightMeans
<1> QED
  BY <1>1, SpendAlways, PTL
=============================================================================
