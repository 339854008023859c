----------------------------- MODULE InspectProofs -----------------------------
(***************************************************************************)
(* What is proved of the commands that solve nothing, for every file and   *)
(* every threshold: the blocks that structure detection reports can be     *)
(* checked on the matrix, and what is proved of reading holds of them.     *)
(*                                                                         *)
(* For the blocks the union-find comes first.  That its links form a       *)
(* forest is stated without a rank: every set of columns has one whose     *)
(* link leaves the set or is to itself.  This is an induction rule, and it *)
(* is kept by halving and by linking two roots.  Two facts then tie the    *)
(* trees to the rows: a set of columns that no united row cuts is a union  *)
(* of trees, and the columns of a united row have one root.                *)
(***************************************************************************)
EXTENDS Inspect, ReaderProofs

(***************************************************************************)
(* Forests                                                                 *)
(***************************************************************************)

IsForest(p, N) ==
  /\ p \in [N -> N]
  /\ \A T \in SUBSET N : T # {} => \E v \in T : p[v] = v \/ p[v] \notin T

\* What holds of the roots, and of every node whose parent it holds of, holds
\* of all nodes.
LEMMA ForestInduction ==
  ASSUME NEW N, NEW p, IsForest(p, N), NEW F \in SUBSET N,
         \A v \in N : p[v] = v \/ p[v] \in F => v \in F
  PROVE  F = N
<1> DEFINE T == N \ F
<1>1. T \in SUBSET N /\ \A v \in T : p[v] # v /\ p[v] \in T
  BY DEF IsForest
<1>2. T = {}
  <2> HIDE DEF T
  <2> QED
    BY <1>1 DEF IsForest
<1> QED
  BY <1>2

\* The function that Visited is taken from.
IsClimb(p, g) == g = [v \in DOMAIN p |-> IF p[v] = v THEN {v} ELSE {v} \cup g[p[p[v]]]]
Climb(p) == CHOOSE g : IsClimb(p, g)

LEMMA VisitedIsClimb == ASSUME NEW p, NEW x PROVE S!Visited(p, x) = Climb(p)[x]
BY DEF S!Visited, Climb, IsClimb

\* The climb exists: from each node it visits the least set that is closed
\* under grandparents.
LEMMA ClimbExists ==
  ASSUME NEW N, NEW p \in [N -> N]
  PROVE  IsClimb(p, Climb(p))
<1> DEFINE Stable(T) == \A w \in T : p[w] # w => p[p[w]] \in T
           Up(v) == {u \in N : \A T \in SUBSET N : Stable(T) /\ v \in T => u \in T}
           g == [v \in N |-> Up(v)]
<1>1. ASSUME NEW v \in N PROVE v \in Up(v) /\ Up(v) \in SUBSET N /\ Stable(Up(v))
  <2>1. ASSUME NEW w \in Up(v), p[w] # w, NEW T \in SUBSET N, Stable(T), v \in T
        PROVE  p[p[w]] \in T
    BY <2>1
  <2>2. \A w \in Up(v) : p[p[w]] \in N
    OBVIOUS
  <2> QED
    BY <2>1, <2>2
<1>2. ASSUME NEW v \in N, p[v] = v PROVE Up(v) = {v}
  <2>1. Stable({v}) /\ {v} \in SUBSET N /\ v \in {v}
    BY <1>2
  <2>2. Up(v) \subseteq {v}
    BY <2>1
  <2> QED
    BY <1>1, <2>2
<1>3. ASSUME NEW v \in N, p[v] # v PROVE Up(v) = {v} \cup Up(p[p[v]])
  <2> DEFINE T == {v} \cup Up(p[p[v]])
  <2>1. p[p[v]] \in N
    OBVIOUS
  <2>2. Stable(T) /\ T \in SUBSET N /\ v \in T
    <3> HIDE DEF Up
    <3> QED
      BY <1>1, <2>1
  <2>3. Up(v) \subseteq T
    BY <2>2
  <2>4. \A u \in Up(p[p[v]]) : u \in Up(v)
    BY <1>3
  <2> HIDE DEF Up
  <2> QED
    BY <1>1, <2>3, <2>4
<1>4. IsClimb(p, g)
  <2> HIDE DEF Up
  <2>1. \A v \in N : g[v] = IF p[v] = v THEN {v} ELSE {v} \cup g[p[p[v]]]
    BY <1>2, <1>3
  <2> QED
    BY <2>1 DEF IsClimb
<1> HIDE DEF g
<1> QED
  BY <1>4 DEF Climb

\* What find() visits on its way up.
LEMMA VisitedEquation ==
  ASSUME NEW N, NEW p \in [N -> N], NEW x \in N
  PROVE  S!Visited(p, x) = IF p[x] = x THEN {x} ELSE {x} \cup S!Visited(p, p[p[x]])
<1> DEFINE g == Climb(p)
<1>1. g = [v \in DOMAIN p |-> IF p[v] = v THEN {v} ELSE {v} \cup g[p[p[v]]]]
  BY ClimbExists DEF IsClimb
<1>2. g[x] = IF p[x] = x THEN {x} ELSE {x} \cup g[p[p[x]]]
  <2> HIDE DEF g
  <2> QED
    BY <1>1
<1> QED
  BY <1>2, VisitedIsClimb

\* In a forest exactly one of the visited nodes is a root.
LEMMA VisitsOneRoot ==
  ASSUME NEW N, NEW p, IsForest(p, N), NEW x \in N
  PROVE  /\ S!Visited(p, x) \in SUBSET N /\ x \in S!Visited(p, x)
         /\ S!Root(p, x) \in S!Visited(p, x) /\ p[S!Root(p, x)] = S!Root(p, x)
         /\ \A w \in S!Visited(p, x) : p[w] = w => w = S!Root(p, x)
<1> DEFINE V(v) == S!Visited(p, v)
           Good(v) == /\ V(v) \in SUBSET N
                      /\ \E r \in V(v) : p[r] = r /\ \A w \in V(v) : p[w] = w => w = r
           F == {v \in N : Good(v) /\ Good(p[v])}
<1>1. p \in [N -> N]
  BY DEF IsForest
<1>2. \A v \in N : V(v) = IF p[v] = v THEN {v} ELSE {v} \cup V(p[p[v]])
  BY <1>1, VisitedEquation
<1>3. ASSUME NEW v \in N, p[v] = v PROVE Good(v)
  BY <1>2, <1>3
<1>4. ASSUME NEW v \in N, p[v] # v, Good(p[p[v]]) PROVE Good(v)
  <2>1. V(v) = {v} \cup V(p[p[v]])
    BY <1>2, <1>4
  <2>2. PICK r \in V(p[p[v]]) : p[r] = r /\ \A w \in V(p[p[v]]) : p[w] = w => w = r
    BY <1>4
  <2>3. r \in V(v) /\ \A w \in V(v) : p[w] = w => w = r
    BY <1>4, <2>1, <2>2
  <2> QED
    BY <1>4, <2>1, <2>2, <2>3
<1>5. F \in SUBSET N /\ \A v \in N : p[v] = v \/ p[v] \in F => v \in F
  <2> HIDE DEF Good
  <2>1. \A v \in N : p[v] \in N /\ p[p[v]] \in N
    BY <1>1
  <2> QED
    BY <1>3, <1>4, <2>1
<1>6. Good(x)
  <2> HIDE DEF Good
  <2>1. F = N
    <3> HIDE DEF F
    <3> QED
      BY <1>5, ForestInduction
  <2> QED
    BY <2>1
<1>7. x \in V(x)
  BY <1>2
<1>8. S!Root(p, x) = CHOOSE v \in V(x) : p[v] = v
  BY DEF S!Root
<1>9. PICK r \in V(x) : p[r] = r /\ \A w \in V(x) : p[w] = w => w = r
  BY <1>6
<1>10. S!Root(p, x) = r
  <2> HIDE DEF V
  <2> QED
    BY <1>8, <1>9
<1> QED
  BY <1>6, <1>7, <1>9, <1>10

\* A node has the root of its parent, and a root its own.
LEMMA RootOfParent ==
  ASSUME NEW N, NEW p, IsForest(p, N), NEW x \in N
  PROVE  /\ S!Root(p, x) \in N
         /\ p[S!Root(p, x)] = S!Root(p, x)
         /\ p[x] = x => S!Root(p, x) = x
         /\ S!Root(p, p[x]) = S!Root(p, x)
<1> DEFINE R(v) == S!Root(p, v)
           F == {v \in N : R(p[v]) = R(v)}
<1>1. p \in [N -> N]
  BY DEF IsForest
<1>2. \A v \in N : /\ R(v) \in N /\ p[R(v)] = R(v)
                   /\ p[v] = v => R(v) = v
  <2> TAKE v \in N
  <2>1. S!Visited(p, v) = IF p[v] = v THEN {v} ELSE {v} \cup S!Visited(p, p[p[v]])
    BY <1>1, VisitedEquation
  <2> QED
    BY <2>1, VisitsOneRoot
<1>3. ASSUME NEW v \in N, p[v] # v PROVE R(v) = R(p[p[v]])
  <2>1. S!Visited(p, v) = {v} \cup S!Visited(p, p[p[v]]) /\ p[p[v]] \in N
    BY <1>1, <1>3, VisitedEquation
  <2> QED
    BY <1>3, <2>1, VisitsOneRoot
<1>4. F \in SUBSET N /\ \A v \in N : p[v] = v \/ p[v] \in F => v \in F
  <2> HIDE DEF R
  <2> QED
    BY <1>1, <1>3
<1>5. F = N
  <2> HIDE DEF F
  <2> QED
    BY <1>4, ForestInduction
<1> QED
  BY <1>2, <1>5

\* Whatever is constant along the links and right at the roots is the root.
LEMMA RootIsUnique ==
  ASSUME NEW N, NEW p, IsForest(p, N), NEW R,
         \A v \in N : R[p[v]] = R[v] /\ (p[v] = v => R[v] = v)
  PROVE  \A v \in N : S!Root(p, v) = R[v]
<1> DEFINE F == {v \in N : S!Root(p, v) = R[v]}
<1>1. F \in SUBSET N /\ \A v \in N : p[v] = v \/ p[v] \in F => v \in F
  BY RootOfParent
<1>2. F = N
  <2> HIDE DEF F
  <2> QED
    BY <1>1, ForestInduction
<1> QED
  BY <1>2

(***************************************************************************)
(* What find() and unite() do to a forest                                  *)
(***************************************************************************)

\* A forest has no two nodes that are each other's parent.
LEMMA NoPair ==
  ASSUME NEW N, NEW p, IsForest(p, N), NEW v \in N, p[p[v]] = v
  PROVE  p[v] = v
<1> DEFINE T == {v, p[v]}
<1>1. T \in SUBSET N /\ T # {}
  BY DEF IsForest
<1> QED
  BY <1>1 DEF IsForest

\* Nodes that are hung below their grandparents stay in a forest, with the
\* roots they had.
LEMMA HalvedKeepsRoots ==
  ASSUME NEW N, NEW p, IsForest(p, N), NEW x
  PROVE  /\ IsForest(S!Halved(p, x), N)
         /\ \A v \in N : S!Root(S!Halved(p, x), v) = S!Root(p, v)
<1> DEFINE q == S!Halved(p, x)
           R == [v \in N |-> S!Root(p, v)]
<1>1. p \in [N -> N]
  BY DEF IsForest
<1>2. /\ q \in [N -> N]
      /\ \A v \in N : q[v] = p[v] \/ q[v] = p[p[v]]
  BY <1>1 DEF S!Halved
<1> HIDE DEF q
<1>3. ASSUME NEW T \in SUBSET N, T # {} PROVE \E w \in T : q[w] = w \/ q[w] \notin T
  <2> DEFINE U == T \cup {p[w] : w \in T}
  <2>1. U \in SUBSET N /\ U # {}
    BY <1>1, <1>3
  <2>2. PICK v \in U : p[v] = v \/ p[v] \notin U
    <3> HIDE DEF U
    <3> QED
      BY <2>1 DEF IsForest
  <2>3. CASE v \in T
    BY <1>1, <1>2, <2>2, <2>3
  <2>4. CASE v \notin T
    <3>1. PICK w \in T : v = p[w]
      BY <2>4
    <3> QED
      BY <1>2, <2>2, <2>4, <3>1
  <2> QED
    BY <2>3, <2>4
<1>4. IsForest(q, N)
  BY <1>2, <1>3 DEF IsForest
<1>5. \A v \in N : p[v] \in N /\ p[p[v]] \in N
  BY <1>1
<1>6. \A v \in N : R[q[v]] = R[v]
  BY <1>2, <1>5, RootOfParent
<1>7. \A v \in N : q[v] = v => R[v] = v
  BY <1>2, NoPair, RootOfParent
<1>8. \A v \in N : S!Root(q, v) = R[v]
  <2> HIDE DEF R
  <2> QED
    BY <1>4, <1>6, <1>7, RootIsUnique
<1> QED
  BY <1>4, <1>8 DEF q

\* The forest with one root hung below another.
Linked(p, low, top) == [p EXCEPT ![low] = top]

\* A tree hung below the root of another joins it.
LEMMA LinkJoins ==
  ASSUME NEW N, NEW p, IsForest(p, N), NEW top \in N, NEW low \in N, top # low,
         p[top] = top, p[low] = low
  PROVE  /\ IsForest(Linked(p, low, top), N)
         /\ \A v \in N : S!Root(Linked(p, low, top), v)
              = IF S!Root(p, v) = low THEN top ELSE S!Root(p, v)
<1> DEFINE q == Linked(p, low, top)
           R == [v \in N |-> IF S!Root(p, v) = low THEN top ELSE S!Root(p, v)]
<1>1. p \in [N -> N]
  BY DEF IsForest
<1>2. q \in [N -> N] /\ q[low] = top /\ \A v \in N : v # low => q[v] = p[v]
  BY <1>1 DEF Linked
<1> HIDE DEF q
<1>3. ASSUME NEW T \in SUBSET N, T # {} PROVE \E w \in T : q[w] = w \/ q[w] \notin T
  <2>1. PICK v \in T : p[v] = v \/ p[v] \notin T
    BY <1>3 DEF IsForest
  <2> QED
    BY <1>2, <2>1
<1>4. IsForest(q, N)
  BY <1>2, <1>3 DEF IsForest
<1>5. S!Root(p, top) = top /\ S!Root(p, low) = low
  BY RootOfParent
<1>6. \A v \in N : R[q[v]] = R[v]
  BY <1>1, <1>2, <1>5, RootOfParent
<1>7. \A v \in N : q[v] = v => R[v] = v
  BY <1>2, RootOfParent
<1>8. \A v \in N : S!Root(q, v) = R[v]
  <2> HIDE DEF R
  <2> QED
    BY <1>4, <1>6, <1>7, RootIsUnique
<1> QED
  BY <1>4, <1>8 DEF q

\* The states of the disjoint sets of N.
Disjoints(N) == {s \in [parent : [N -> N], size : [N -> Nat]] : IsForest(s.parent, N)}

\* Of two trees, one or the other hangs below the other in q, which is p
\* otherwise.
Merges(p, q, a, b, N) ==
  \E top, low \in {S!Root(p, a), S!Root(p, b)} :
    /\ {top, low} = {S!Root(p, a), S!Root(p, b)}
    /\ \A v \in N : S!Root(q, v) = IF S!Root(p, v) = low THEN top ELSE S!Root(p, v)

\* The roots of a and b become one, and so do the trees.
LEMMA UniteJoins ==
  ASSUME NEW N, NEW s \in Disjoints(N), NEW a \in N, NEW b \in N
  PROVE  /\ S!unite(s, a, b) \in Disjoints(N)
         /\ Merges(s.parent, S!unite(s, a, b).parent, a, b, N)
<1> DEFINE p == S!Halved(S!Halved(s.parent, a), b)
           ra == S!Root(p, a)
           rb == S!Root(p, b)
           top == IF s.size[ra] < s.size[rb] THEN rb ELSE ra
           low == IF top = ra THEN rb ELSE ra
           linked == [parent |-> [p EXCEPT ![low] = top],
                      size |-> [s.size EXCEPT ![top] = @ + s.size[low]]]
<1>1. /\ IsForest(s.parent, N) /\ s.size \in [N -> Nat]
      /\ s = [parent |-> s.parent, size |-> s.size]
  BY DEF Disjoints
<1>2. IsForest(p, N) /\ \A v \in N : S!Root(p, v) = S!Root(s.parent, v)
  <2>1. /\ IsForest(S!Halved(s.parent, a), N)
        /\ \A v \in N : S!Root(S!Halved(s.parent, a), v) = S!Root(s.parent, v)
    BY <1>1, HalvedKeepsRoots
  <2> QED
    BY <2>1, HalvedKeepsRoots
<1>3. S!unite(s, a, b) = IF ra = rb THEN [parent |-> p, size |-> s.size] ELSE linked
  BY <1>1 DEF S!unite
<1>4. ra = S!Root(s.parent, a) /\ rb = S!Root(s.parent, b)
  BY <1>2
<1>5. ra \in N /\ p[ra] = ra /\ rb \in N /\ p[rb] = rb
  <2> HIDE DEF p
  <2> QED
    BY <1>2, RootOfParent
<1> HIDE DEF p, ra, rb
<1>6. CASE ra = rb
  <2>1. S!unite(s, a, b) = [parent |-> p, size |-> s.size]
    BY <1>3, <1>6
  <2>2. S!unite(s, a, b) \in Disjoints(N)
    BY <1>1, <1>2, <2>1 DEF Disjoints, IsForest
  <2>3. \A v \in N : S!Root(S!unite(s, a, b).parent, v)
          = IF S!Root(s.parent, v) = ra THEN ra ELSE S!Root(s.parent, v)
    BY <1>2, <2>1
  <2> QED
    BY <1>4, <1>6, <2>2, <2>3 DEF Merges
<1>7. CASE ra # rb
  <2>1. top \in N /\ low \in N /\ top # low /\ p[top] = top /\ p[low] = low
        /\ {top, low} = {ra, rb}
    BY <1>5, <1>7
  <2>2. S!unite(s, a, b) = linked
    BY <1>3, <1>7
  <2> HIDE DEF top, low
  <2>3. /\ IsForest(linked.parent, N)
        /\ \A v \in N : S!Root(linked.parent, v)
             = IF S!Root(s.parent, v) = low THEN top ELSE S!Root(s.parent, v)
    <3>1. linked.parent = Linked(p, low, top)
      BY DEF Linked
    <3>2. /\ IsForest(Linked(p, low, top), N)
          /\ \A v \in N : S!Root(Linked(p, low, top), v)
               = IF S!Root(p, v) = low THEN top ELSE S!Root(p, v)
      BY <1>2, <2>1, LinkJoins
    <3> HIDE DEF linked
    <3> QED
      BY <1>2, <3>1, <3>2
  <2>4. linked.parent \in [N -> N] /\ linked.size \in [N -> Nat]
    BY <1>1, <2>1, <2>3 DEF IsForest
  <2>5. linked \in Disjoints(N)
    BY <2>3, <2>4 DEF Disjoints
  <2> QED
    BY <1>4, <2>1, <2>2, <2>3, <2>5 DEF Merges
<1> QED
  BY <1>6, <1>7

(***************************************************************************)
(* Uniting the columns of a row                                            *)
(***************************************************************************)

\* The fold over the columns of a row, as the library defines it.
IsUniting(base, first, rest, g) ==
  g = [T \in SUBSET (DOMAIN rest) |->
         IF T = {} THEN base ELSE S!unite(g[T \ {Max(T)}], first, rest[Max(T)])]
Uniting(base, first, rest) == CHOOSE g : IsUniting(base, first, rest, g)

FirstColumn(i) == matrix.index[matrix.ptr[i] + 1]
OtherColumns(i) == SubSeq(matrix.index, matrix.ptr[i] + 2, matrix.ptr[i + 1])

LEMMA UnitedIsUniting ==
  ASSUME NEW i
  PROVE  S!United(i) = Uniting([parent |-> parent, size |-> size], FirstColumn(i), OtherColumns(i))
                         [DOMAIN OtherColumns(i)]
BY DEF S!United, S!FoldLeft, S!MapThenFoldSet, S!Max, Max, Uniting, IsUniting, FirstColumn,
       OtherColumns

\* Its partial results.
IsUnited(base, first, rest, K, after) ==
  /\ after[0] = base
  /\ \A k \in 1..K : after[k] = S!unite(after[k - 1], first, rest[k])
  /\ Uniting(base, first, rest)[DOMAIN rest] = after[K]

\* There are such, as uniting keeps a set of states.
LEMMA UnitingSteps ==
  ASSUME NEW K \in Nat, NEW X, NEW base \in X, NEW first, NEW rest, DOMAIN rest = 1..K,
         \A s \in X, k \in 1..K : S!unite(s, first, rest[k]) \in X
  PROVE  \E after : IsUnited(base, first, rest, K, after)
<1> DEFINE F == [t \in X \X (1..K) |-> S!unite(t[1], first, rest[t[2]])]
           fold == Uniting(base, first, rest)
           after == [k \in 0..K |-> fold[1..k]]
<1>1. \E g : IsUniting(base, first, rest, g)
  <2>1. F \in [X \X (1..K) -> X]
    OBVIOUS
  <2>2. PICK g \in [SUBSET (1..K) -> X] : IsFold(F, base, K, g)
    <3> HIDE DEF F
    <3> QED
      BY <2>1, FoldExists
  <2>3. ASSUME NEW T \in SUBSET (1..K), T # {}
        PROVE  g[T] = S!unite(g[T \ {Max(T)}], first, rest[Max(T)])
    <3>1. Max(T) \in 1..K /\ T \ {Max(T)} \in SUBSET (1..K)
      BY <2>3, MaxIsElement
    <3>2. g[T] = F[<<g[T \ {Max(T)}], Max(T)>>]
      BY <2>2, <2>3 DEF IsFold
    <3> QED
      BY <3>1, <3>2
  <2>4. g[{}] = base
    BY <2>2 DEF IsFold
  <2>5. IsUniting(base, first, rest, g)
    BY <2>3, <2>4 DEF IsUniting
  <2> QED
    BY <2>5
<1>2. IsUniting(base, first, rest, fold)
  BY <1>1 DEF Uniting
<1> HIDE DEF fold
<1>3. fold[{}] = base /\ \A T \in SUBSET (1..K) : T # {} =>
        fold[T] = S!unite(fold[T \ {Max(T)}], first, rest[Max(T)])
  BY <1>2 DEF IsUniting
<1>4. after[0] = base
  <2>1. 1..0 = {} /\ 0 \in 0..K
    OBVIOUS
  <2> QED
    BY <1>3, <2>1
<1>5. ASSUME NEW k \in 1..K PROVE after[k] = S!unite(after[k - 1], first, rest[k])
  <2>1. k \in 0..K /\ k - 1 \in 0..K
    OBVIOUS
  <2>2. fold[1..k] = S!unite(fold[1..(k - 1)], first, rest[k])
    BY <1>3, MaxOfSegment
  <2> QED
    BY <2>1, <2>2
<1>6. fold[DOMAIN rest] = after[K]
  OBVIOUS
<1> HIDE DEF after
<1> QED
  BY <1>4, <1>5, <1>6 DEF fold, IsUnited

(***************************************************************************)
(* The rows of the matrix                                                  *)
(***************************************************************************)

\* The instance counts as everybody does.
LEMMA SameCardinality == ASSUME NEW T PROVE S!Cardinality(T) = Cardinality(T)
BY DEF S!Cardinality, Cardinality

\* What validate() makes sure of, as far as the pointers go.
LEMMA PointersGrow ==
  ASSUME WellFormed(matrix)
  PROVE  /\ \A i \in 1..(S!m + 1) : matrix.ptr[i] \in 0..nnz(matrix)
         /\ \A i \in 1..S!m : matrix.ptr[i] <= matrix.ptr[i + 1]
         /\ matrix.ptr[1] = 0 /\ matrix.ptr[S!m + 1] = nnz(matrix)
         /\ S!m \in Nat /\ S!n \in Nat /\ nnz(matrix) \in Nat
<1>1. \A i \in 1..S!m : i \in 1..(S!m + 1) /\ i + 1 \in 1..(S!m + 1) /\ i <= i + 1
  BY PointersOrdered DEF S!m
<1> QED
  BY <1>1, PointersOrdered DEF S!m, S!n

\* The columns of a row are columns.
LEMMA ColumnsOfRow ==
  ASSUME WellFormed(matrix), NEW i \in 1..S!m
  PROVE  S!Columns(i) \in SUBSET (1..S!n)
BY DEF WellFormed, S!Columns, Positions, S!Positions, S!m, S!n

\* Every entry is in a row.
LEMMA EntryHasRow ==
  ASSUME WellFormed(matrix), NEW k \in 1..nnz(matrix)
  PROVE  \E i \in 1..S!m : matrix.index[k] \in S!Columns(i)
BY LineOfEntry DEF S!Columns, S!Positions, S!m, Positions

\* The first column of a row and the others are its columns.
LEMMA RowAsSequence ==
  ASSUME WellFormed(matrix), NEW i \in 1..S!m, S!degree(i) > 0
  PROVE  /\ FirstColumn(i) \in S!Columns(i)
         /\ S!degree(i) - 1 \in Nat /\ DOMAIN OtherColumns(i) = 1..(S!degree(i) - 1)
         /\ S!Columns(i) = {FirstColumn(i)}
                             \cup {OtherColumns(i)[k] : k \in 1..(S!degree(i) - 1)}
<1> DEFINE lo == matrix.ptr[i]
           hi == matrix.ptr[i + 1]
           rest == OtherColumns(i)
           K == S!degree(i) - 1
<1>1. /\ lo \in Nat /\ hi \in Nat /\ hi <= nnz(matrix) /\ lo < hi /\ K = hi - lo - 1
      /\ nnz(matrix) \in Nat
  BY PointersGrow DEF S!degree
<1>2. matrix.index \in Seq(Int) /\ Len(matrix.index) = nnz(matrix)
  BY DEF WellFormed
<1>3. S!Columns(i) = {matrix.index[k] : k \in (lo + 1)..hi}
  BY DEF S!Columns, S!Positions
<1>4. rest = SubSeq(matrix.index, lo + 2, hi)
  BY DEF OtherColumns
<1> HIDE DEF lo, hi, rest, K
<1>5. /\ DOMAIN rest = 1..K
      /\ \A k \in 1..K : rest[k] = matrix.index[lo + 1 + k]
  BY <1>1, <1>2, <1>4
<1>6. FirstColumn(i) = matrix.index[lo + 1]
  BY DEF FirstColumn, lo
<1>7. \A k \in (lo + 1)..hi : k = lo + 1 \/ (k - lo - 1 \in 1..K /\ k = lo + 1 + (k - lo - 1))
  BY <1>1
<1>8. \A k \in 1..K : lo + 1 + k \in (lo + 1)..hi
  BY <1>1
<1>9. S!Columns(i) = {FirstColumn(i)} \cup {rest[k] : k \in 1..K}
  <2>1. ASSUME NEW c \in S!Columns(i) PROVE c = FirstColumn(i) \/ \E k \in 1..K : c = rest[k]
    <3>1. PICK k \in (lo + 1)..hi : c = matrix.index[k]
      BY <1>3
    <3>2. CASE k = lo + 1
      BY <1>6, <3>1, <3>2
    <3>3. CASE k - lo - 1 \in 1..K /\ k = lo + 1 + (k - lo - 1)
      BY <1>5, <3>1, <3>3
    <3> QED
      BY <1>7, <3>2, <3>3
  <2>2. FirstColumn(i) \in S!Columns(i) /\ \A k \in 1..K : rest[k] \in S!Columns(i)
    BY <1>1, <1>3, <1>5, <1>6, <1>8
  <2> QED
    BY <2>1, <2>2
<1> QED
  BY <1>1, <1>5, <1>9 DEF rest, K

(***************************************************************************)
(* The trees and the rows                                                  *)
(***************************************************************************)

\* A row with columns on both sides.
Cut(i, part) == S!Columns(i) \cap part # {} /\ ~(S!Columns(i) \subseteq part)

\* A set that no row cuts is a union of trees.
Unions(rows, p) ==
  \A part \in SUBSET (1..S!n) : (\A i \in rows : ~Cut(i, part)) =>
    \A v \in 1..S!n : v \in part <=> S!Root(p, v) \in part

\* The columns of a row are in one tree.
Together(rows, p) ==
  \A i \in rows : \A a, b \in S!Columns(i) : S!Root(p, a) = S!Root(p, b)

\* Nodes in one tree stay in one.
Coarser(p, q) ==
  \A v, w \in 1..S!n : S!Root(p, v) = S!Root(p, w) => S!Root(q, v) = S!Root(q, w)

\* One more column of a row is united with the first.
LEMMA ColumnJoins ==
  ASSUME NEW s \in Disjoints(1..S!n), NEW rows, NEW i \in rows, NEW old,
         \A k \in old : S!Columns(k) \in SUBSET (1..S!n),
         NEW first \in 1..S!n, NEW j \in 1..S!n, first \in S!Columns(i), j \in S!Columns(i),
         Unions(rows, s.parent), Together(old, s.parent)
  PROVE  /\ S!unite(s, first, j) \in Disjoints(1..S!n)
         /\ Unions(rows, S!unite(s, first, j).parent) /\ Together(old, S!unite(s, first, j).parent)
         /\ S!Root(S!unite(s, first, j).parent, j) = S!Root(S!unite(s, first, j).parent, first)
         /\ Coarser(s.parent, S!unite(s, first, j).parent)
<1> DEFINE R(v) == S!Root(s.parent, v)
           q == S!unite(s, first, j).parent
           Q(v) == S!Root(q, v)
<1>1. /\ S!unite(s, first, j) \in Disjoints(1..S!n)
      /\ \E top, low \in {R(first), R(j)} :
           /\ {top, low} = {R(first), R(j)}
           /\ \A v \in 1..S!n : Q(v) = IF R(v) = low THEN top ELSE R(v)
  <2>1. /\ S!unite(s, first, j) \in Disjoints(1..S!n)
        /\ Merges(s.parent, S!unite(s, first, j).parent, first, j, 1..S!n)
    BY UniteJoins
  <2> QED
    BY <2>1 DEF Merges
<1>2. PICK top, low \in {R(first), R(j)} :
           /\ {top, low} = {R(first), R(j)}
           /\ \A v \in 1..S!n : Q(v) = IF R(v) = low THEN top ELSE R(v)
  BY <1>1
<1> HIDE DEF R, q, Q
<1>3. \A v, w \in 1..S!n : R(v) = R(w) => Q(v) = Q(w)
  BY <1>2
<1>4. Q(j) = Q(first)
  BY <1>2
<1>5. Together(old, q)
  <2> SUFFICES ASSUME NEW k \in old, NEW a \in S!Columns(k), NEW b \in S!Columns(k)
               PROVE  Q(a) = Q(b)
    BY DEF Together, Q
  <2>1. R(a) = R(b) /\ a \in 1..S!n /\ b \in 1..S!n
    BY DEF Together, R
  <2> QED
    BY <1>3, <2>1
<1>6. Unions(rows, q)
  <2> SUFFICES ASSUME NEW part \in SUBSET (1..S!n), \A k \in rows : ~Cut(k, part),
                      NEW v \in 1..S!n
               PROVE  v \in part <=> Q(v) \in part
    BY DEF Unions, Q
  <2>1. \A w \in 1..S!n : w \in part <=> R(w) \in part
    BY DEF Unions, R
  <2>2. first \in part <=> j \in part
    BY DEF Cut
  <2>3. top \in part <=> low \in part
    BY <1>2, <2>1, <2>2
  <2> QED
    BY <1>2, <2>1, <2>3
<1> QED
  BY <1>1, <1>3, <1>4, <1>5, <1>6 DEF R, q, Q, Coarser

\* Uniting the columns of a row adds the row to those the trees respect.
LEMMA RowJoins ==
  ASSUME WellFormed(matrix), NEW i \in 1..S!m, S!degree(i) > 0, NEW rows \in SUBSET (1..S!m),
         [parent |-> parent, size |-> size] \in Disjoints(1..S!n),
         Unions(rows, parent), Together(rows, parent)
  PROVE  /\ S!United(i) \in Disjoints(1..S!n)
         /\ Unions(rows \cup {i}, S!United(i).parent) /\ Together(rows \cup {i}, S!United(i).parent)
<1> DEFINE N == 1..S!n
           K == S!degree(i) - 1
           first == FirstColumn(i)
           rest == OtherColumns(i)
           base == [parent |-> parent, size |-> size]
           all == rows \cup {i}
<1>1. /\ first \in S!Columns(i) /\ K \in Nat /\ DOMAIN rest = 1..K
      /\ S!Columns(i) = {first} \cup {rest[k] : k \in 1..K}
      /\ first \in N /\ \A k \in 1..K : rest[k] \in N /\ rest[k] \in S!Columns(i)
  <2>1. S!Columns(i) \in SUBSET N
    BY ColumnsOfRow
  <2> QED
    BY <2>1, RowAsSequence
<1>2. \A k \in rows : S!Columns(k) \in SUBSET N
  BY ColumnsOfRow
<1>3. /\ base \in Disjoints(N) /\ base.parent = parent
      /\ Unions(all, parent) /\ Together(rows, parent)
  BY DEF Unions
<1>4. S!United(i) = Uniting(base, first, rest)[DOMAIN rest]
  BY UnitedIsUniting
<1> HIDE DEF N, K, first, rest, base, all
<1>5. \A s \in Disjoints(N), k \in 1..K : S!unite(s, first, rest[k]) \in Disjoints(N)
  BY <1>1, UniteJoins
<1>6. PICK after : IsUnited(base, first, rest, K, after)
  BY <1>1, <1>3, <1>5, UnitingSteps
<1> DEFINE Good(k) == /\ after[k] \in Disjoints(N)
                      /\ Unions(all, after[k].parent) /\ Together(rows, after[k].parent)
                      /\ \A l \in 1..k : S!Root(after[k].parent, rest[l])
                                         = S!Root(after[k].parent, first)
           F == {k \in Nat : k <= K => Good(k)}
<1>7. 0 \in F
  <2>1. 1..0 = {}
    OBVIOUS
  <2> QED
    BY <1>3, <1>6, <2>1 DEF IsUnited
<1>8. ASSUME NEW k \in F PROVE k + 1 \in F
  <2> SUFFICES ASSUME k + 1 <= K PROVE Good(k + 1)
    <3> HIDE DEF Good
    <3> QED
      BY <1>8
  <2> DEFINE j == rest[k + 1]
             s == after[k]
             t == after[k + 1]
  <2>1. k \in Nat /\ k + 1 \in 1..K /\ (k + 1) - 1 = k /\ k <= K
    BY <1>1, <1>8
  <2>2. Good(k)
    <3> HIDE DEF Good
    <3> QED
      BY <1>8, <2>1
  <2>3. t = S!unite(s, first, j) /\ j \in N /\ j \in S!Columns(i) /\ i \in all
    <3>1. i \in all
      BY DEF all
    <3> QED
      BY <1>1, <1>6, <2>1, <3>1 DEF IsUnited
  <2>4. /\ s \in Disjoints(N) /\ Unions(all, s.parent) /\ Together(rows, s.parent)
        /\ \A l \in 1..k : S!Root(s.parent, rest[l]) = S!Root(s.parent, first)
    BY <2>2
  <2> HIDE DEF j, s, t
  <2>5. /\ t \in Disjoints(N) /\ Unions(all, t.parent) /\ Together(rows, t.parent)
        /\ S!Root(t.parent, j) = S!Root(t.parent, first)
        /\ \A v, w \in N : S!Root(s.parent, v) = S!Root(s.parent, w) =>
             S!Root(t.parent, v) = S!Root(t.parent, w)
    <3>1. /\ s \in Disjoints(1..S!n) /\ i \in all /\ \A l \in rows : S!Columns(l) \in SUBSET (1..S!n)
          /\ first \in 1..S!n /\ j \in 1..S!n /\ first \in S!Columns(i) /\ j \in S!Columns(i)
          /\ Unions(all, s.parent) /\ Together(rows, s.parent)
      BY <1>1, <1>2, <2>3, <2>4 DEF N
    <3> DEFINE u == S!unite(s, first, j)
    <3>2. /\ u \in Disjoints(1..S!n) /\ Unions(all, u.parent) /\ Together(rows, u.parent)
          /\ S!Root(u.parent, j) = S!Root(u.parent, first)
          /\ Coarser(s.parent, u.parent)
      BY <3>1, ColumnJoins
    <3> HIDE DEF u
    <3>3. t = u
      BY <2>3 DEF u
    <3> QED
      BY <3>2, <3>3 DEF N, Coarser
  <2>6. ASSUME NEW l \in 1..(k + 1) PROVE S!Root(t.parent, rest[l]) = S!Root(t.parent, first)
    <3>1. CASE l = k + 1
      BY <2>5, <3>1 DEF j
    <3>2. CASE l # k + 1
      <4>1. l \in 1..k /\ l \in 1..K
        BY <1>1, <2>1, <3>2
      <4> QED
        BY <1>1, <2>4, <2>5, <4>1
    <3> QED
      BY <3>1, <3>2
  <2> QED
    BY <2>5, <2>6 DEF t
<1>9. Good(K)
  <2>1. F \in SUBSET Nat
    OBVIOUS
  <2>2. F = Nat
    <3> HIDE DEF F
    <3> QED
      BY <1>7, <1>8, <2>1, NaturalInduction
  <2> HIDE DEF Good
  <2> QED
    BY <1>1, <2>2
<1>10. S!United(i) = after[K]
  BY <1>4, <1>6 DEF IsUnited
<1>11. Together(all, after[K].parent)
  <2> SUFFICES ASSUME NEW k \in all, NEW a \in S!Columns(k), NEW b \in S!Columns(k)
               PROVE  S!Root(after[K].parent, a) = S!Root(after[K].parent, b)
    BY DEF Together
  <2>1. CASE k \in rows
    BY <1>9, <2>1 DEF Together
  <2>2. CASE k = i
    <3>1. \A c \in S!Columns(i) : S!Root(after[K].parent, c) = S!Root(after[K].parent, first)
      BY <1>1, <1>9
    <3> QED
      BY <2>2, <3>1
  <2> QED
    BY <2>1, <2>2 DEF all
<1> QED
  BY <1>9, <1>10, <1>11 DEF N, all

(***************************************************************************)
(* The numbers of the blocks                                               *)
(***************************************************************************)

\* What the loop over the columns does with one.
Assign(s, j) ==
  LET root == S!Root(s.parent, j)
      block == IF s.block_of[root] = S!None THEN s.next ELSE s.block_of[root]
  IN  IF S!Reordered(matrix).ptr[j + 1] <= S!Reordered(matrix).ptr[j] THEN s
      ELSE [s EXCEPT !.parent = S!Halved(@, j), !.block_of[root] = block,
                     !.next = IF s.block_of[root] = S!None THEN @ + 1 ELSE @,
                     !.col_block[j] = block]

Unnumbered == [parent |-> parent, next |-> 0, block_of |-> [j \in 1..S!n |-> S!None],
               col_block |-> [j \in 1..S!n |-> S!None]]
InOrder == [j \in 1..S!n |-> j]

\* The fold over the columns, as the library defines it.
IsNumbering(g) ==
  g = [T \in SUBSET (DOMAIN InOrder) |->
         IF T = {} THEN Unnumbered ELSE Assign(g[T \ {Max(T)}], InOrder[Max(T)])]
Numbering == CHOOSE g : IsNumbering(g)

LEMMA NumberedIsNumbering == S!Numbered = Numbering[DOMAIN InOrder]
BY DEF S!Numbered, S!FoldLeft, S!MapThenFoldSet, S!Max, Max, Numbering, IsNumbering, InOrder,
       Unnumbered, Assign

\* A column that has entries.
Filled(j) == \E i \in 1..S!m : j \in S!Columns(i)

\* The column's pointers in the other layout tell whether it has any.
LEMMA PointersTell ==
  ASSUME WellFormed(matrix), NEW j \in 1..S!n
  PROVE  Filled(j) <=> ~(S!Reordered(matrix).ptr[j + 1] <= S!Reordered(matrix).ptr[j])
<1> DEFINE all == 1..nnz(matrix)
           A == {k \in all : matrix.index[k] < j}
           B == {k \in all : matrix.index[k] < j + 1}
<1>1. /\ S!Reordered(matrix).ptr[j + 1] = Cardinality(B)
      /\ S!Reordered(matrix).ptr[j] = Cardinality(A)
  <2>1. j \in 1..(S!n + 1) /\ j + 1 \in 1..(S!n + 1)
    BY PointersGrow
  <2>2. S!Reordered(matrix).ptr = S!Counted(matrix)
    BY DEF S!Reordered, S!Compressed
  <2>3. S!nnz(matrix) = nnz(matrix) /\ S!n = matrix.across
    BY DEF S!nnz, nnz, S!n
  <2>4. S!Counted(matrix) =
          [c \in 1..(matrix.across + 1) |-> S!Cardinality({k \in 1..S!nnz(matrix) : matrix.index[k] < c})]
    BY DEF S!Counted
  <2>5. ASSUME NEW c \in 1..(S!n + 1)
        PROVE  S!Counted(matrix)[c] = Cardinality({k \in 1..nnz(matrix) : matrix.index[k] < c})
    BY <2>3, <2>4, SameCardinality
  <2> QED
    BY <2>1, <2>2, <2>5
<1>2. /\ nnz(matrix) \in Nat /\ Len(matrix.index) = nnz(matrix) /\ matrix.index \in Seq(Int)
  BY PointersGrow DEF WellFormed
<1>3. \A k \in all : matrix.index[k] \in Int
  BY <1>2
<1>4. IsFiniteSet(all)
  BY <1>2, FS_Interval
<1>5. A \subseteq B /\ IsFiniteSet(B)
  <2>1. B \subseteq all
    OBVIOUS
  <2>2. A \subseteq B
    BY <1>3
  <2> HIDE DEF A, B, all
  <2> QED
    BY <1>4, <2>1, <2>2, FS_Subset
<1>6. Filled(j) <=> \E k \in all : matrix.index[k] = j
  <2>1. ASSUME NEW k \in all, matrix.index[k] = j PROVE Filled(j)
    BY <2>1, EntryHasRow DEF Filled
  <2>2. ASSUME Filled(j) PROVE \E k \in all : matrix.index[k] = j
    <3>1. PICK i \in 1..S!m : j \in S!Columns(i)
      BY <2>2 DEF Filled
    <3>2. PICK k \in (matrix.ptr[i] + 1)..matrix.ptr[i + 1] : j = matrix.index[k]
      BY <3>1 DEF S!Columns, S!Positions
    <3>3. matrix.ptr[i] \in 0..nnz(matrix) /\ matrix.ptr[i + 1] \in 0..nnz(matrix)
      BY PointersGrow
    <3>4. k \in all
      BY <1>2, <3>3
    <3> QED
      BY <3>2, <3>4
  <2> QED
    BY <2>1, <2>2
<1>7. A = B <=> ~\E k \in all : matrix.index[k] = j
  BY <1>3
<1>8. IsFiniteSet(A) /\ Cardinality(A) \in Nat /\ Cardinality(B) \in Nat
      /\ Cardinality(A) <= Cardinality(B) /\ (Cardinality(A) = Cardinality(B) => A = B)
  <2> HIDE DEF A, B
  <2> QED
    BY <1>5, FS_Subset, FS_CardinalityType
<1> HIDE DEF A, B, all
<1> QED
  BY <1>1, <1>6, <1>7, <1>8

\* The states of the loop over the columns.
NumberState ==
  [parent : [1..S!n -> 1..S!n], next : Nat,
   block_of : [1..S!n -> Nat \cup {S!None}], col_block : [1..S!n -> Nat \cup {S!None}]]

\* The trees are those that the rows made.
SameTrees(s) ==
  /\ IsForest(s.parent, 1..S!n)
  /\ \A v \in 1..S!n : S!Root(s.parent, v) = S!Root(parent, v)

\* Each tree that has a number has one of its own, below the next.
OwnNumbers(s) ==
  /\ \A r \in 1..S!n : s.block_of[r] # S!None => s.block_of[r] < s.next
  /\ \A r, t \in 1..S!n : s.block_of[r] = s.block_of[t] /\ s.block_of[r] # S!None => r = t

\* The first k columns, if filled, have the numbers of their trees, and all
\* numbers are used.
GivenUpTo(s, k) ==
  /\ \A j \in 1..S!n : IF j <= k /\ Filled(j)
                       THEN /\ s.col_block[j] = s.block_of[S!Root(parent, j)]
                            /\ s.col_block[j] # S!None
                       ELSE s.col_block[j] = S!None
  /\ \A b \in 0..(s.next - 1) : \E j \in 1..S!n : s.col_block[j] = b

\* A column is given a number in each of the ways.
LEMMA AssignKeeps ==
  ASSUME WellFormed(matrix), IsForest(parent, 1..S!n),
         NEW s \in NumberState, SameTrees(s), OwnNumbers(s), NEW k \in Nat, GivenUpTo(s, k),
         k + 1 \in 1..S!n
  PROVE  /\ Assign(s, k + 1) \in NumberState /\ SameTrees(Assign(s, k + 1))
         /\ OwnNumbers(Assign(s, k + 1)) /\ GivenUpTo(Assign(s, k + 1), k + 1)
<1> DEFINE N == 1..S!n
           j == k + 1
           root == S!Root(s.parent, j)
           fresh == s.block_of[root] = S!None
           block == IF fresh THEN s.next ELSE s.block_of[root]
           t == Assign(s, j)
           R(v) == S!Root(parent, v)
<1>1. /\ s = [parent |-> s.parent, next |-> s.next, block_of |-> s.block_of,
               col_block |-> s.col_block]
      /\ s.parent \in [N -> N] /\ s.next \in Nat
      /\ s.block_of \in [N -> Nat \cup {S!None}] /\ s.col_block \in [N -> Nat \cup {S!None}]
  BY DEF NumberState
<1>2. j \in N /\ j \in Nat /\ \A v \in N : v \in Int /\ (v <= j <=> v <= k \/ v = j)
  OBVIOUS
<1>3. CASE ~Filled(j)
  <2>1. t = s
    BY <1>3, PointersTell DEF Assign
  <2>2. GivenUpTo(s, j)
    <3>1. \A v \in N : v <= j /\ Filled(v) <=> v <= k /\ Filled(v)
      BY <1>2, <1>3
    <3> HIDE DEF j, N
    <3> QED
      BY <3>1 DEF GivenUpTo, N
  <2> QED
    BY <2>1, <2>2
<1>4. CASE Filled(j)
  <2>1. root = R(j) /\ root \in N
    BY RootOfParent DEF SameTrees
  <2>2. t = [parent |-> S!Halved(s.parent, j), next |-> IF fresh THEN s.next + 1 ELSE s.next,
             block_of |-> [s.block_of EXCEPT ![root] = block],
             col_block |-> [s.col_block EXCEPT ![j] = block]]
    <3>1. ~(S!Reordered(matrix).ptr[j + 1] <= S!Reordered(matrix).ptr[j])
      BY <1>4, PointersTell
    <3>2. t = [s EXCEPT !.parent = S!Halved(@, j), !.block_of[root] = block,
                        !.next = IF fresh THEN @ + 1 ELSE @, !.col_block[j] = block]
      BY <3>1 DEF Assign
    <3> HIDE DEF t, j, root, fresh, block
    <3> QED
      BY <1>1, <3>2
  <2>3. S!None \notin Nat
    BY DEF S!None
  <2>4. block \in Nat /\ block < t.next /\ (fresh => block = s.next) /\ s.next <= t.next
        /\ t.next \in Nat /\ (~fresh => t.next = s.next /\ block = s.block_of[root])
        /\ (fresh => t.next = s.next + 1)
    <3>1. s.block_of[root] # S!None => s.block_of[root] \in Nat /\ s.block_of[root] < s.next
      BY <1>1, <2>1 DEF OwnNumbers
    <3>2. t.next = IF fresh THEN s.next + 1 ELSE s.next
      BY <2>2
    <3> HIDE DEF t, root
    <3> QED
      BY <1>1, <3>1, <3>2
  <2>5. SameTrees(t) /\ t.parent \in [N -> N]
    <3>1. /\ IsForest(S!Halved(s.parent, j), N)
          /\ \A v \in N : S!Root(S!Halved(s.parent, j), v) = S!Root(s.parent, v)
      <4>1. IsForest(s.parent, N)
        BY DEF SameTrees
      <4> HIDE DEF N, j
      <4> QED
        BY <4>1, HalvedKeepsRoots
    <3>2. t.parent = S!Halved(s.parent, j)
      BY <2>2
    <3> HIDE DEF t, j
    <3> QED
      BY <3>1, <3>2 DEF SameTrees, IsForest
  <2> HIDE DEF t, j, root, fresh, block
  <2>6. /\ t.block_of \in [N -> Nat \cup {S!None}] /\ t.block_of[root] = block
        /\ \A r \in N : r # root => t.block_of[r] = s.block_of[r]
        /\ t.col_block \in [N -> Nat \cup {S!None}] /\ t.col_block[j] = block
        /\ \A v \in N : v # j => t.col_block[v] = s.col_block[v]
    BY <1>1, <1>2, <2>1, <2>2, <2>4
  <2>7. t \in NumberState
    BY <2>2, <2>4, <2>5, <2>6 DEF NumberState
  <2>8. OwnNumbers(t)
    <3>1. \A r \in N : s.block_of[r] # S!None => s.block_of[r] \in Nat /\ s.block_of[r] < s.next
      BY <1>1 DEF OwnNumbers
    <3>2. ASSUME NEW r \in N, t.block_of[r] # S!None PROVE t.block_of[r] < t.next
      BY <1>1, <2>4, <2>6, <3>1, <3>2
    <3>3. ASSUME NEW r \in N, r # root PROVE t.block_of[r] # block
      <4>1. CASE fresh
        BY <1>1, <2>3, <2>4, <2>6, <3>1, <3>3, <4>1
      <4>2. CASE ~fresh
        <5>1. s.block_of[root] # S!None /\ block = s.block_of[root]
          BY <2>4, <4>2 DEF fresh
        <5> QED
          BY <2>1, <2>6, <3>3, <5>1 DEF OwnNumbers
      <4> QED
        BY <4>1, <4>2
    <3>4. ASSUME NEW r \in N, NEW v \in N, t.block_of[r] = t.block_of[v], t.block_of[r] # S!None
          PROVE  r = v
      <4>1. CASE r = root \/ v = root
        BY <2>6, <3>3, <3>4, <4>1
      <4>2. CASE r # root /\ v # root
        BY <2>6, <3>4, <4>2 DEF OwnNumbers
      <4> QED
        BY <4>1, <4>2
    <3> QED
      BY <3>2, <3>4 DEF OwnNumbers
  <2>9. ASSUME NEW v \in N, v <= j, Filled(v)
        PROVE  t.col_block[v] = t.block_of[R(v)] /\ t.col_block[v] # S!None
    <3>1. CASE v = j
      BY <2>1, <2>3, <2>4, <2>6, <3>1
    <3>2. CASE v # j
      <4>1. /\ s.col_block[v] = s.block_of[R(v)] /\ s.col_block[v] # S!None
        BY <1>2, <2>9, <3>2 DEF GivenUpTo
      <4>2. R(v) \in N
        BY RootOfParent
      <4>3. R(v) = root => ~fresh
        BY <4>1 DEF fresh
      <4> QED
        BY <2>4, <2>6, <3>2, <4>1, <4>2, <4>3
    <3> QED
      BY <3>1, <3>2
  <2>10. ASSUME NEW v \in N, ~(v <= j /\ Filled(v))
         PROVE  t.col_block[v] = S!None
    <3>1. v # j /\ ~(v <= k /\ Filled(v))
      BY <1>2, <1>4, <2>10
    <3> QED
      BY <2>6, <3>1 DEF GivenUpTo
  <2>11. ASSUME NEW b \in 0..(t.next - 1) PROVE \E v \in N : t.col_block[v] = b
    <3>1. CASE b = block
      BY <1>2, <2>6, <3>1
    <3>2. CASE b # block
      <4>1. b \in 0..(s.next - 1)
        BY <1>1, <2>4, <3>2
      <4>2. PICK v \in N : s.col_block[v] = b
        BY <4>1 DEF GivenUpTo
      <4>3. v # j
        <5>1. s.col_block[j] = S!None
          BY <1>2 DEF GivenUpTo, j
        <5> QED
          BY <2>3, <4>1, <4>2, <5>1
      <4> QED
        BY <2>6, <4>2, <4>3
    <3> QED
      BY <3>1, <3>2
  <2>12. GivenUpTo(t, j)
    BY <2>9, <2>10, <2>11 DEF GivenUpTo
  <2> QED
    BY <2>5, <2>7, <2>8, <2>12 DEF t, j
<1> QED
  BY <1>3, <1>4

\* Whatever the numbers are, the loop stays among its states.
Numberable == {s \in NumberState : IsForest(s.parent, 1..S!n)}

LEMMA AssignCloses ==
  ASSUME NEW s \in Numberable, NEW j \in 1..S!n
  PROVE  Assign(s, j) \in Numberable
<1> DEFINE N == 1..S!n
           root == S!Root(s.parent, j)
           fresh == s.block_of[root] = S!None
           block == IF fresh THEN s.next ELSE s.block_of[root]
           t == [parent |-> S!Halved(s.parent, j), next |-> IF fresh THEN s.next + 1 ELSE s.next,
                 block_of |-> [s.block_of EXCEPT ![root] = block],
                 col_block |-> [s.col_block EXCEPT ![j] = block]]
<1>1. /\ s = [parent |-> s.parent, next |-> s.next, block_of |-> s.block_of,
               col_block |-> s.col_block]
      /\ s.parent \in [N -> N] /\ s.next \in Nat /\ IsForest(s.parent, N)
      /\ s.block_of \in [N -> Nat \cup {S!None}] /\ s.col_block \in [N -> Nat \cup {S!None}]
  BY DEF Numberable, NumberState
<1>2. Assign(s, j) = s \/ Assign(s, j) = t
  <2> DEFINE u == [s EXCEPT !.parent = S!Halved(@, j), !.block_of[root] = block,
                            !.next = IF fresh THEN @ + 1 ELSE @, !.col_block[j] = block]
  <2>1. Assign(s, j) = s \/ Assign(s, j) = u
    BY DEF Assign
  <2>2. u = t
    <3>1. u = [s EXCEPT !.parent = S!Halved(@, j), !.block_of[root] = block,
                        !.next = IF fresh THEN @ + 1 ELSE @, !.col_block[j] = block]
      OBVIOUS
    <3> HIDE DEF u, root, fresh, block, N
    <3> QED
      BY <1>1, <3>1
  <2> QED
    BY <2>1, <2>2
<1>3. root \in N
  <2> HIDE DEF N
  <2> QED
    BY <1>1, RootOfParent DEF N
<1>4. block \in Nat
  BY <1>1, <1>3
<1>5. IsForest(t.parent, N) /\ t.parent \in [N -> N]
  <2>1. IsForest(S!Halved(s.parent, j), N)
    <3> HIDE DEF N
    <3> QED
      BY <1>1, HalvedKeepsRoots
  <2> QED
    BY <2>1 DEF IsForest
<1>6. t \in Numberable
  <2> HIDE DEF root, fresh, block
  <2>1. t \in NumberState
    BY <1>1, <1>3, <1>4, <1>5 DEF NumberState
  <2> QED
    BY <1>5, <2>1 DEF Numberable
<1> QED
  BY <1>2, <1>6

\* The partial results of the fold.
IsNumbered(after) ==
  /\ after[0] = Unnumbered
  /\ \A k \in 1..S!n : after[k] = Assign(after[k - 1], k)
  /\ S!Numbered = after[S!n]

\* There are such.
LEMMA NumberingSteps ==
  ASSUME S!n \in Nat, Unnumbered \in Numberable
  PROVE  \E after : IsNumbered(after)
<1> DEFINE K == S!n
           X == Numberable
           F == [t \in X \X (1..K) |-> Assign(t[1], t[2])]
           fold == Numbering
           after == [k \in 0..K |-> fold[1..k]]
<1>1. K \in Nat /\ Unnumbered \in X /\ \A s \in X, k \in 1..K : Assign(s, k) \in X
  BY AssignCloses
<1>2. DOMAIN InOrder = 1..K /\ \A k \in 1..K : InOrder[k] = k
  BY DEF InOrder
<1> HIDE DEF K, X
<1>3. \E g : IsNumbering(g)
  <2>1. F \in [X \X (1..K) -> X]
    BY <1>1
  <2>2. PICK g \in [SUBSET (1..K) -> X] : IsFold(F, Unnumbered, K, g)
    <3> HIDE DEF F
    <3> QED
      BY <1>1, <2>1, FoldExists
  <2>3. ASSUME NEW T \in SUBSET (1..K), T # {}
        PROVE  g[T] = Assign(g[T \ {Max(T)}], InOrder[Max(T)])
    <3>1. Max(T) \in 1..K /\ T \ {Max(T)} \in SUBSET (1..K)
      BY <1>1, <2>3, MaxIsElement
    <3>2. g[T] = F[<<g[T \ {Max(T)}], Max(T)>>]
      BY <2>2, <2>3 DEF IsFold
    <3> QED
      BY <1>2, <3>1, <3>2
  <2>4. g[{}] = Unnumbered
    BY <2>2 DEF IsFold
  <2>5. IsNumbering(g)
    BY <1>2, <2>3, <2>4 DEF IsNumbering
  <2> QED
    BY <2>5
<1>4. IsNumbering(fold)
  BY <1>3 DEF Numbering
<1> HIDE DEF fold
<1>5. fold[{}] = Unnumbered /\ \A T \in SUBSET (1..K) : T # {} =>
        fold[T] = Assign(fold[T \ {Max(T)}], InOrder[Max(T)])
  BY <1>2, <1>4 DEF IsNumbering
<1>6. after[0] = Unnumbered
  <2>1. 1..0 = {} /\ 0 \in 0..K
    BY <1>1
  <2> QED
    BY <1>5, <2>1
<1>7. ASSUME NEW k \in 1..K PROVE after[k] = Assign(after[k - 1], k)
  <2>1. k \in 0..K /\ k - 1 \in 0..K
    BY <1>1
  <2>2. fold[1..k] = Assign(fold[1..(k - 1)], k)
    <3> DEFINE T == 1..k
    <3>1. T \in SUBSET (1..K) /\ T # {} /\ Max(T) = k /\ T \ {k} = 1..(k - 1)
      BY <1>1, MaxOfSegment
    <3> HIDE DEF T
    <3>2. fold[T] = Assign(fold[1..(k - 1)], k)
      BY <1>2, <1>5, <3>1
    <3> QED
      BY <3>2 DEF T
  <2> QED
    BY <2>1, <2>2
<1>8. S!Numbered = after[K]
  BY <1>1, <1>2, NumberedIsNumbering DEF fold
<1> HIDE DEF after
<1> QED
  BY <1>6, <1>7, <1>8 DEF IsNumbered, K

\* What the loop ends with.
LEMMA NumberedHolds ==
  ASSUME WellFormed(matrix), parent \in [1..S!n -> 1..S!n], IsForest(parent, 1..S!n)
  PROVE  /\ S!Numbered \in NumberState /\ SameTrees(S!Numbered) /\ OwnNumbers(S!Numbered)
         /\ GivenUpTo(S!Numbered, S!n)
<1> DEFINE N == 1..S!n
           Good(s, k) == s \in NumberState /\ SameTrees(s) /\ OwnNumbers(s) /\ GivenUpTo(s, k)
           F(after) == {k \in Nat : k <= S!n => Good(after[k], k)}
<1>1. S!n \in Nat
  BY PointersGrow
<1>2. Good(Unnumbered, 0) /\ Unnumbered \in Numberable
  <2> DEFINE t == Unnumbered
  <2>1. /\ t.parent = parent /\ t.next = 0 /\ t.block_of = [j \in N |-> S!None]
        /\ t.col_block = [j \in N |-> S!None] /\ t \in NumberState
    BY DEF Unnumbered, NumberState
  <2> HIDE DEF t
  <2>2. 0..(t.next - 1) = {} /\ \A j \in N : ~(j <= 0)
    BY <2>1
  <2>3. SameTrees(t) /\ OwnNumbers(t) /\ GivenUpTo(t, 0) /\ t \in Numberable
    BY <2>1, <2>2 DEF SameTrees, OwnNumbers, GivenUpTo, Numberable
  <2> QED
    BY <2>1, <2>3 DEF t
<1>3. ASSUME NEW s, NEW k \in Nat, k + 1 \in N, Good(s, k) PROVE Good(Assign(s, k + 1), k + 1)
  BY <1>3, AssignKeeps
<1>4. PICK after : IsNumbered(after)
  BY <1>1, <1>2, NumberingSteps
<1> HIDE DEF Good
<1>5. 0 \in F(after)
  BY <1>2, <1>4 DEF IsNumbered
<1>6. ASSUME NEW k \in F(after) PROVE k + 1 \in F(after)
  <2> SUFFICES ASSUME k + 1 <= S!n PROVE Good(after[k + 1], k + 1)
    BY <1>6
  <2>1. k \in Nat /\ k + 1 \in N /\ (k + 1) - 1 = k /\ Good(after[k], k)
    BY <1>1, <1>6
  <2>2. after[k + 1] = Assign(after[k], k + 1)
    BY <1>4, <2>1 DEF IsNumbered
  <2> QED
    BY <1>3, <2>1, <2>2
<1>7. S!n \in F(after)
  <2>1. F(after) \in SUBSET Nat
    OBVIOUS
  <2> HIDE DEF F
  <2> QED
    BY <1>1, <1>5, <1>6, <2>1, NaturalInduction
<1>8. Good(after[S!n], S!n) /\ S!Numbered = after[S!n]
  BY <1>1, <1>4, <1>7 DEF IsNumbered
<1> QED
  BY <1>8 DEF Good

(***************************************************************************)
(* The claim                                                               *)
(***************************************************************************)

\* The median degree of a matrix.
MedianOf(a) ==
  CHOOSE d \in {a.ptr[i + 1] - a.ptr[i] : i \in 1..a.lines} :
    /\ S!Cardinality({i \in 1..a.lines : a.ptr[i + 1] - a.ptr[i] < d}) <= a.lines \div 2
    /\ S!Cardinality({i \in 1..a.lines : a.ptr[i + 1] - a.ptr[i] <= d}) > a.lines \div 2

\* What is said of a matrix stays true as long as it stays.
LEMMA SameMatrix ==
  ASSUME matrix' = matrix
  PROVE  /\ S!m' = S!m /\ S!n' = S!n
         /\ \A i : S!Columns(i)' = S!Columns(i)
         /\ \A i : S!IsLocalCandidate(i)' <=> S!IsLocalCandidate(i)
<1>1. S!m' = S!m /\ S!n' = S!n /\ \A i : S!Columns(i)' = S!Columns(i)
  BY DEF S!m, S!n, S!Columns, S!Positions
<1>2. S!Median = MedianOf(matrix) /\ S!Median' = MedianOf(matrix')
  BY DEF S!Median, MedianOf, S!degree, S!m
<1>3. MedianOf(matrix') = MedianOf(matrix)
  OBVIOUS
<1>4. ASSUME NEW i PROVE S!IsLocalCandidate(i)' <=> S!IsLocalCandidate(i)
  BY <1>2, <1>3 DEF S!IsLocalCandidate, S!threshold, S!degree, S!Greater
<1> QED
  BY <1>1, <1>4

SparseRows == {i \in 1..S!m : S!IsLocalCandidate(i)}
Block(c, b) == {j \in 1..S!n : c[j] = b}

\* What is claimed of a result, part by part.
ColumnsClaim(r) ==
  \A j \in 1..S!n : r.col_block[j] = S!None <=> \A i \in 1..S!m : j \notin S!Columns(i)
BlocksClaim(r) ==
  \A b \in 0..(r.num_blocks - 1) :
    Block(r.col_block, b) # {} /\ S!IsConnected(Block(r.col_block, b), SparseRows)
RowsClaim(r) ==
  \A i \in 1..S!m :
    IF i \in r.linking_rows
    THEN /\ i \notin SparseRows
         /\ \A b \in 0..(r.num_blocks - 1) : ~(S!Columns(i) \subseteq Block(r.col_block, b))
    ELSE S!Columns(i) \subseteq Block(r.col_block, r.row_block[i])
VerdictClaim(r) ==
  r.kind = "BlockAngular" =>
    /\ S!Cardinality({r.col_block[j] : j \in 1..S!n} \ {S!None}) >= min_blocks
    /\ S!Cardinality(r.linking_rows) * max_linking_row_fraction[2]
         <= max_linking_row_fraction[1] * S!m
Claim(r) == ColumnsClaim(r) /\ BlocksClaim(r) /\ RowsClaim(r) /\ VerdictClaim(r)

LEMMA ClaimIsTheClaim == S!ClaimIsCheckable <=> (result.kind # "none" => Claim(result))
BY DEF S!ClaimIsCheckable, Claim, ColumnsClaim, BlocksClaim, RowsClaim, VerdictClaim, Block, SparseRows

\* The claim about a result does not change with the other variables.
LEMMA SameClaim ==
  ASSUME matrix' = matrix, NEW r
  PROVE  Claim(r)' <=> Claim(r)
<1>1. /\ S!m' = S!m /\ S!n' = S!n
      /\ \A i : S!Columns(i)' = S!Columns(i)
      /\ \A i : S!IsLocalCandidate(i)' <=> S!IsLocalCandidate(i)
  BY SameMatrix
<1>2. SparseRows' = SparseRows
  BY <1>1 DEF SparseRows
<1>3. \A c, b : Block(c, b)' = Block(c, b)
  BY <1>1 DEF Block
<1>4. \A T, rows : S!IsConnected(T, rows)' <=> S!IsConnected(T, rows)
  BY <1>1 DEF S!IsConnected
<1>5. ColumnsClaim(r)' <=> ColumnsClaim(r)
  BY <1>1 DEF ColumnsClaim
<1>6. BlocksClaim(r)' <=> BlocksClaim(r)
  BY <1>1, <1>2, <1>3, <1>4 DEF BlocksClaim
<1>7. RowsClaim(r)' <=> RowsClaim(r)
  BY <1>1, <1>2, <1>3 DEF RowsClaim
<1>8. VerdictClaim(r)' <=> VerdictClaim(r)
  BY <1>1 DEF VerdictClaim
<1> QED
  BY <1>5, <1>6, <1>7, <1>8 DEF Claim

\* What Classify makes of the numbers.
Linking(b) == {i \in 1..S!m : S!Cardinality(S!Touched(b.col_block, i)) > 1}
Classified(b) ==
  [kind |-> S!Verdict(b.next, S!Cardinality(Linking(b))),
   num_blocks |-> b.next, col_block |-> b.col_block,
   row_block |-> [i \in 1..S!m |-> IF S!Cardinality(S!Touched(b.col_block, i)) = 1
                    THEN CHOOSE c \in S!Touched(b.col_block, i) : TRUE ELSE S!None],
   linking_rows |-> Linking(b)]

\* Columns of one row have numbers, of which equal ones are of one tree.
LEMMA NumbersOfRow ==
  ASSUME WellFormed(matrix), IsForest(parent, 1..S!n),
         NEW b \in NumberState, OwnNumbers(b), GivenUpTo(b, S!n), NEW i \in 1..S!m
  PROVE  /\ \A j \in S!Columns(i) : j \in 1..S!n /\ b.col_block[j] \in Nat /\ b.col_block[j] < b.next
                                    /\ b.col_block[j] # S!None
         /\ S!Touched(b.col_block, i) = {b.col_block[j] : j \in S!Columns(i)}
         /\ IsFiniteSet(S!Touched(b.col_block, i))
<1>1. S!n \in Nat /\ S!Columns(i) \in SUBSET (1..S!n)
  BY PointersGrow, ColumnsOfRow
<1>2. /\ b.next \in Nat /\ b.block_of \in [1..S!n -> Nat \cup {S!None}]
      /\ b.col_block \in [1..S!n -> Nat \cup {S!None}] /\ S!None \notin Nat
  BY DEF NumberState, S!None
<1>3. ASSUME NEW j \in S!Columns(i)
      PROVE  j \in 1..S!n /\ b.col_block[j] \in Nat /\ b.col_block[j] < b.next
             /\ b.col_block[j] # S!None
  <2>1. j \in 1..S!n /\ j <= S!n /\ Filled(j)
    BY <1>1 DEF Filled
  <2>2. b.col_block[j] = b.block_of[S!Root(parent, j)] /\ b.col_block[j] # S!None
    BY <2>1 DEF GivenUpTo
  <2>3. S!Root(parent, j) \in 1..S!n
    BY <2>1, RootOfParent
  <2> QED
    BY <1>2, <2>1, <2>2, <2>3 DEF OwnNumbers
<1>4. S!Touched(b.col_block, i) = {b.col_block[j] : j \in S!Columns(i)}
  BY <1>3 DEF S!Touched
<1>5. IsFiniteSet(S!Touched(b.col_block, i))
  <2>1. S!Touched(b.col_block, i) \in SUBSET (0..(b.next - 1))
    BY <1>2, <1>3, <1>4
  <2>2. IsFiniteSet(0..(b.next - 1))
    <3>1. 0 \in Int /\ b.next - 1 \in Int
      BY <1>2
    <3> QED
      BY <3>1, FS_Interval, Zenon
  <2> QED
    BY <2>1, <2>2, FS_Subset
<1> QED
  BY <1>3, <1>4, <1>5

\* All rows have been united and all columns numbered.
Ready(b) ==
  /\ WellFormed(matrix) /\ IsForest(parent, 1..S!n)
  /\ Unions(SparseRows, parent) /\ Together(SparseRows, parent)
  /\ b \in NumberState /\ OwnNumbers(b) /\ GivenUpTo(b, S!n)

\* A column is in no block only if it has no entries.
LEMMA ColumnsAreClassified ==
  ASSUME NEW b, Ready(b) PROVE ColumnsClaim(Classified(b))
<1> SUFFICES ASSUME NEW j \in 1..S!n
             PROVE  b.col_block[j] = S!None <=> ~Filled(j)
  BY DEF ColumnsClaim, Classified, Filled
<1>1. j <= S!n
  BY PointersGrow DEF Ready
<1> QED
  BY <1>1 DEF Ready, GivenUpTo

\* A block is one tree, which no sparse row leaves and which the sparse rows
\* hold together.
LEMMA BlocksAreConnected ==
  ASSUME NEW b, Ready(b) PROVE BlocksClaim(Classified(b))
<1> SUFFICES ASSUME NEW c \in 0..(b.next - 1)
             PROVE  /\ Block(b.col_block, c) # {}
                    /\ S!IsConnected(Block(b.col_block, c), SparseRows)
  BY DEF BlocksClaim, Classified
<1> DEFINE T == Block(b.col_block, c)
           R(v) == S!Root(parent, v)
<1>1. T # {} /\ T \in SUBSET (1..S!n)
  BY DEF Ready, GivenUpTo, Block
<1>2. c \in Nat /\ c # S!None /\ S!n \in Nat
  BY PointersGrow DEF Ready, NumberState, S!None
<1>3. ASSUME NEW v \in T PROVE v \in 1..S!n /\ b.block_of[R(v)] = c /\ R(v) \in 1..S!n
  <2>1. v \in 1..S!n /\ b.col_block[v] = c /\ v <= S!n
    BY <1>2 DEF Block
  <2>2. b.col_block[v] = b.block_of[R(v)]
    BY <1>2, <2>1 DEF Ready, GivenUpTo
  <2> QED
    BY <2>1, <2>2, RootOfParent DEF Ready
<1>4. ASSUME NEW v \in T, NEW w \in T PROVE R(v) = R(w)
  BY <1>2, <1>3 DEF Ready, OwnNumbers
<1>5. ASSUME NEW i \in SparseRows, NEW v \in T, v \in S!Columns(i)
      PROVE  S!Columns(i) \subseteq T
  <2> SUFFICES ASSUME NEW w \in S!Columns(i) PROVE w \in T
    OBVIOUS
  <2>1. R(w) = R(v)
    BY <1>5 DEF Ready, Together
  <2>2. i \in 1..S!m /\ w \in 1..S!n /\ w <= S!n /\ Filled(w)
    <3>1. i \in 1..S!m
      BY DEF SparseRows
    <3>2. w \in 1..S!n
      BY <3>1, ColumnsOfRow DEF Ready
    <3> QED
      BY <1>2, <3>1, <3>2 DEF Filled
  <2>3. b.col_block[w] = b.block_of[R(w)]
    BY <2>2 DEF Ready, GivenUpTo
  <2>4. b.col_block[w] = c
    BY <1>3, <2>1, <2>3
  <2> QED
    BY <2>2, <2>4 DEF Block
<1>6. ASSUME NEW part \in (SUBSET T) \ {{}, T}
      PROVE  \E i \in SparseRows : S!Columns(i) \cap part # {} /\ S!Columns(i) \cap (T \ part) # {}
  <2> SUFFICES ASSUME \A i \in SparseRows :
                        S!Columns(i) \cap part = {} \/ S!Columns(i) \cap (T \ part) = {}
               PROVE  FALSE
    OBVIOUS
  <2> HIDE DEF T
  <2>1. PICK v \in part, w \in T : w \notin part
    BY <1>6
  <2>2. \A i \in SparseRows : ~Cut(i, part)
    <3> SUFFICES ASSUME NEW i \in SparseRows, NEW u \in S!Columns(i), u \in part
                 PROVE  S!Columns(i) \subseteq part
      BY DEF Cut
    <3>1. S!Columns(i) \subseteq T
      BY <1>5, <1>6
    <3> QED
      BY <3>1
  <2>3. part \in SUBSET (1..S!n)
    BY <1>1, <1>6
  <2>4. \A u \in 1..S!n : u \in part <=> R(u) \in part
    BY <2>2, <2>3 DEF Ready, Unions
  <2>5. R(v) = R(w) /\ v \in 1..S!n /\ w \in 1..S!n
    BY <1>1, <1>4, <1>6, <2>1
  <2> QED
    BY <2>1, <2>4, <2>5
<1> QED
  BY <1>1, <1>6 DEF S!IsConnected

\* A row within a block and a row that links two.
LEMMA RowsAreClassified ==
  ASSUME NEW b, Ready(b) PROVE RowsClaim(Classified(b))
<1> SUFFICES ASSUME NEW i \in 1..S!m
             PROVE  IF i \in Linking(b)
                    THEN /\ i \notin SparseRows
                         /\ \A c \in 0..(b.next - 1) : ~(S!Columns(i) \subseteq Block(b.col_block, c))
                    ELSE S!Columns(i) \subseteq Block(b.col_block, Classified(b).row_block[i])
  BY DEF RowsClaim, Classified
<1> DEFINE C == S!Columns(i)
           T == S!Touched(b.col_block, i)
<1>1. /\ \A j \in C : /\ j \in 1..S!n /\ b.col_block[j] \in Nat /\ b.col_block[j] < b.next
                       /\ b.col_block[j] # S!None
      /\ T = {b.col_block[j] : j \in C}
      /\ IsFiniteSet(T)
  BY NumbersOfRow DEF Ready
<1>2. S!Cardinality(T) = Cardinality(T) /\ Cardinality(T) \in Nat
  BY <1>1, SameCardinality, FS_CardinalityType
<1>3. i \in Linking(b) <=> S!Cardinality(T) > 1
  BY DEF Linking
<1>4. Classified(b).row_block[i] = IF S!Cardinality(T) = 1 THEN CHOOSE c \in T : TRUE ELSE S!None
  BY DEF Classified
<1> HIDE DEF C, T
<1>5. ASSUME NEW c, T \subseteq {c} PROVE ~(S!Cardinality(T) > 1)
  <2>1. IsFiniteSet({c}) /\ Cardinality({c}) = 1
    BY FS_Singleton
  <2>2. Cardinality(T) <= Cardinality({c})
    BY <1>5, <2>1, FS_Subset
  <2> QED
    BY <1>2, <2>1, <2>2
<1>6. CASE i \in Linking(b)
  <2>1. ASSUME i \in SparseRows PROVE FALSE
    <3>1. \A v, w \in C : S!Root(parent, v) = S!Root(parent, w)
      BY <2>1 DEF Ready, Together, C
    <3>2. \A v \in C : b.col_block[v] = b.block_of[S!Root(parent, v)]
      <4> SUFFICES ASSUME NEW v \in C PROVE b.col_block[v] = b.block_of[S!Root(parent, v)]
        OBVIOUS
      <4>1. v \in 1..S!n /\ b.col_block[v] # S!None
        BY <1>1
      <4> QED
        BY <4>1 DEF Ready, GivenUpTo
    <3>3. C # {}
      BY <1>1, <1>3, <1>5, <1>6
    <3>4. PICK v \in C : TRUE
      BY <3>3
    <3>5. T \subseteq {b.col_block[v]}
      BY <1>1, <3>1, <3>2
    <3> QED
      BY <1>3, <1>5, <1>6, <3>5
  <2>2. ASSUME NEW c \in 0..(b.next - 1), C \subseteq Block(b.col_block, c) PROVE FALSE
    <3>1. T \subseteq {c}
      BY <1>1, <2>2 DEF Block
    <3> QED
      BY <1>3, <1>5, <1>6, <3>1
  <2> QED
    BY <1>6, <2>1, <2>2 DEF C
<1>7. CASE i \notin Linking(b)
  <2>1. Cardinality(T) = 0 \/ Cardinality(T) = 1
    BY <1>2, <1>3, <1>7
  <2>2. CASE Cardinality(T) = 0
    <3>1. T = {}
      BY <1>1, <2>2, FS_EmptySet
    <3>2. C = {}
      BY <1>1, <3>1
    <3> QED
      BY <1>7, <3>2 DEF C
  <2>3. CASE Cardinality(T) = 1
    <3>1. PICK c : T = {c}
      BY <1>1, <2>3, FS_Singleton
    <3>2. Classified(b).row_block[i] = c
      BY <1>2, <1>4, <2>3, <3>1
    <3>3. C \subseteq Block(b.col_block, c)
      BY <1>1, <3>1 DEF Block
    <3> QED
      BY <1>7, <3>2, <3>3 DEF C
  <2> QED
    BY <2>1, <2>2, <2>3
<1> QED
  BY <1>6, <1>7

\* The verdict counts what is there.
LEMMA VerdictIsBacked ==
  ASSUME NEW b, Ready(b) PROVE VerdictClaim(Classified(b))
<1> SUFFICES ASSUME S!Verdict(b.next, S!Cardinality(Linking(b))) = "BlockAngular"
             PROVE  /\ S!Cardinality({b.col_block[j] : j \in 1..S!n} \ {S!None}) >= min_blocks
                    /\ S!Cardinality(Linking(b)) * max_linking_row_fraction[2]
                         <= max_linking_row_fraction[1] * S!m
  BY DEF VerdictClaim, Classified
<1> DEFINE used == {b.col_block[j] : j \in 1..S!n} \ {S!None}
           links == S!Cardinality(Linking(b))
<1>1. /\ ~(b.next < min_blocks)
      /\ ~(links * max_linking_row_fraction[2] > max_linking_row_fraction[1] * S!m)
  BY DEF S!Verdict
<1>2. b.next \in Nat /\ S!None \notin Nat
  BY DEF Ready, NumberState, S!None
<1>3. used = 0..(b.next - 1)
  <2>1. 0..(b.next - 1) \subseteq used
    BY <1>2 DEF Ready, GivenUpTo
  <2>2. ASSUME NEW j \in 1..S!n, b.col_block[j] # S!None PROVE b.col_block[j] \in 0..(b.next - 1)
    <3>1. b.col_block[j] = b.block_of[S!Root(parent, j)] /\ S!Root(parent, j) \in 1..S!n
      BY <2>2, RootOfParent DEF Ready, GivenUpTo
    <3>2. b.col_block[j] \in Nat
      BY <2>2 DEF Ready, NumberState
    <3>3. b.col_block[j] < b.next
      BY <2>2, <3>1 DEF Ready, OwnNumbers
    <3> QED
      BY <1>2, <3>2, <3>3
  <2> QED
    BY <2>1, <2>2
<1>4. Cardinality(0..(b.next - 1)) = b.next
  BY <1>2, FS_Interval
<1>5. S!Cardinality(used) = b.next
  BY <1>3, <1>4, SameCardinality
<1>6. Linking(b) \in SUBSET (1..S!m) /\ S!m \in Nat
  BY PointersGrow DEF Linking, Ready
<1>7. links \in Nat
  <2>1. IsFiniteSet(1..S!m)
    BY <1>6, FS_Interval
  <2>2. Cardinality(Linking(b)) \in Nat
    BY <1>6, <2>1, FS_Subset, FS_CardinalityType
  <2> QED
    BY <2>2, SameCardinality
<1> HIDE DEF used, links
<1>8. links * max_linking_row_fraction[2] <= max_linking_row_fraction[1] * S!m
  <2>1. max_linking_row_fraction[1] \in Nat /\ max_linking_row_fraction[2] \in Nat
    BY StructureAssumption
  <2>2. links * max_linking_row_fraction[2] \in Int /\ max_linking_row_fraction[1] * S!m \in Int
    BY <1>6, <1>7, <2>1
  <2> QED
    BY <1>1, <2>2
<1>9. b.next >= min_blocks
  BY <1>1, <1>2, StructureAssumption
<1> QED
  BY <1>5, <1>8, <1>9 DEF used, links

\* The whole of it.
LEMMA ClaimFollows == ASSUME NEW b, Ready(b) PROVE Claim(Classified(b))
BY ColumnsAreClassified, BlocksAreConnected, RowsAreClassified, VerdictIsBacked DEF Claim

(***************************************************************************)
(* The command                                                             *)
(***************************************************************************)

\* The sparse rows that come before a row.
SparseBefore(i) == {k \in SparseRows : k < i}

\* The trees agree with the rows that have been passed.
TreesInv ==
  /\ next_row \in 1..(S!m + 1)
  /\ [parent |-> parent, size |-> size] \in Disjoints(1..S!n)
  /\ Unions(SparseBefore(next_row), parent) /\ Together(SparseBefore(next_row), parent)

\* What is known before a file has been read, after it, in the middle of the
\* detection, and at its end.
InspectInv ==
  /\ outcome # "read" => result.kind = "none" /\ next_row = 0
  /\ outcome = "read" => WellFormed(matrix)
  /\ outcome = "read" /\ result.kind = "none" /\ next_row # 0 => TreesInv
  /\ outcome = "read" /\ result.kind # "none" => Claim(result)

\* Nothing has been read to begin with.
LEMMA InspectInvInit == InspectInit => InspectInv
BY DEF InspectInit, Init, InspectInv, S!Blank

\* Reading a file leaves the detection alone.
LEMMA InspectInvRead == InspectInv /\ Read => InspectInv'
<1> SUFFICES ASSUME InspectInv, Read PROVE InspectInv'
  OBVIOUS
<1>1. outcome = "reading" /\ (outcome' = "read" => WellFormed(matrix)')
  BY ReadStep DEF Read
<1>2. result.kind = "none" /\ next_row = 0 /\ result' = result /\ next_row' = next_row
  BY <1>1 DEF InspectInv, Read, structureVars
<1> QED
  BY <1>1, <1>2 DEF InspectInv

\* What is said of the trees before a step holds of them after it, if it holds
\* of the forest that the step makes.
LEMMA TreesStep ==
  ASSUME matrix' = matrix, next_row' \in 1..(S!m + 1),
         [parent |-> parent', size |-> size'] \in Disjoints(1..S!n),
         Unions(SparseBefore(next_row'), parent'), Together(SparseBefore(next_row'), parent')
  PROVE  TreesInv'
<1>1. /\ S!m' = S!m /\ S!n' = S!n
      /\ \A i : S!Columns(i)' = S!Columns(i)
      /\ \A i : S!IsLocalCandidate(i)' <=> S!IsLocalCandidate(i)
  BY SameMatrix
<1>2. \A i : SparseBefore(i)' = SparseBefore(i)
  BY <1>1 DEF SparseBefore, SparseRows
<1>3. SparseBefore(next_row)' = SparseBefore(next_row')
  BY <1>1 DEF SparseBefore, SparseRows
<1>4. \A v : S!Root(parent, v)' = S!Root(parent', v)
  BY DEF S!Root, S!Visited
<1>5. Unions(SparseBefore(next_row), parent)'
  BY <1>1, <1>3, <1>4 DEF Unions, Cut
<1>6. Together(SparseBefore(next_row), parent)'
  BY <1>1, <1>3, <1>4 DEF Together
<1>7. [parent |-> parent, size |-> size]' \in Disjoints(1..S!n)'
  BY <1>1 DEF Disjoints, IsForest
<1> QED
  BY <1>1, <1>5, <1>6, <1>7 DEF TreesInv

\* Every column begins as a tree of its own.
LEMMA BeginsWithTrees ==
  ASSUME WellFormed(matrix), S!Begin PROVE TreesInv'
<1> DEFINE N == 1..S!n
           p == [j \in N |-> j]
<1>1. /\ matrix' = matrix /\ next_row' = 1 /\ parent' = p /\ size' = [j \in N |-> 1] /\ S!m # 0
  BY DEF S!Begin
<1>2. S!m \in Nat
  BY PointersGrow
<1>3. IsForest(p, N)
  BY DEF IsForest
<1>4. [parent |-> parent', size |-> size'] \in Disjoints(N)
  BY <1>1, <1>3 DEF Disjoints
<1>5. \A v \in N : S!Root(p, v) = v
  <2>1. \A v \in N : p[v] = v
    OBVIOUS
  <2> HIDE DEF p, N
  <2> QED
    BY <1>3, <2>1, RootOfParent
<1>6. Unions(SparseBefore(next_row'), parent')
  BY <1>1, <1>5 DEF Unions
<1>7. Together(SparseBefore(next_row'), parent')
  <2>1. SparseBefore(1) = {}
    BY DEF SparseBefore, SparseRows
  <2> QED
    BY <1>1, <2>1 DEF Together
<1> QED
  BY <1>1, <1>2, <1>4, <1>6, <1>7, TreesStep

\* A sparse row is united, any other one and an empty one are passed.
LEMMA UniteRowKeepsTrees ==
  ASSUME WellFormed(matrix), TreesInv, S!UniteRow PROVE TreesInv'
<1> DEFINE i == next_row
           before == SparseBefore(i)
           after == SparseBefore(i + 1)
<1>1. matrix' = matrix /\ next_row' = i + 1 /\ i \in 1..S!m /\ S!m \in Nat
  BY PointersGrow DEF S!UniteRow
<1>2. after = IF S!IsLocalCandidate(i) THEN before \cup {i} ELSE before
  BY <1>1 DEF SparseBefore, SparseRows
<1>3. CASE S!IsLocalCandidate(i) /\ S!degree(i) > 0
  <2>1. parent' = S!United(i).parent /\ size' = S!United(i).size
    BY <1>3 DEF S!UniteRow
  <2>2. before \in SUBSET (1..S!m)
    BY DEF SparseBefore, SparseRows
  <2>3. /\ S!United(i) \in Disjoints(1..S!n)
        /\ Unions(before \cup {i}, S!United(i).parent) /\ Together(before \cup {i}, S!United(i).parent)
    BY <1>1, <1>3, <2>2, RowJoins DEF TreesInv
  <2>4. [parent |-> parent', size |-> size'] = S!United(i)
    BY <2>1, <2>3 DEF Disjoints
  <2>5. next_row' \in 1..(S!m + 1) /\ SparseBefore(next_row') = before \cup {i}
    BY <1>1, <1>2, <1>3
  <2>6. S!United(i).parent = parent'
    BY <2>1
  <2>7. [parent |-> parent', size |-> size'] \in Disjoints(1..S!n)
    BY <2>3, <2>4
  <2>8. Unions(SparseBefore(next_row'), parent')
    BY <2>3, <2>5, <2>6
  <2>9. Together(SparseBefore(next_row'), parent')
    BY <2>3, <2>5, <2>6
  <2> QED
    BY <1>1, <2>5, <2>7, <2>8, <2>9, TreesStep
<1>4. CASE ~(S!IsLocalCandidate(i) /\ S!degree(i) > 0)
  <2>1. parent' = parent /\ size' = size
    BY <1>4 DEF S!UniteRow
  <2>2. Together(after, parent)
    <3>1. ASSUME S!IsLocalCandidate(i) PROVE S!Columns(i) = {}
      <4>1. matrix.ptr[i + 1] <= matrix.ptr[i] /\ matrix.ptr[i] \in Int /\ matrix.ptr[i + 1] \in Int
        <5>1. i \in 1..(S!m + 1) /\ i + 1 \in 1..(S!m + 1)
          BY <1>1
        <5>2. matrix.ptr[i] \in Int /\ matrix.ptr[i + 1] \in Int
          BY <5>1, PointersGrow
        <5> QED
          BY <1>4, <3>1, <5>2 DEF S!degree
      <4> QED
        BY <4>1 DEF S!Columns, S!Positions
    <3> QED
      BY <1>2, <3>1 DEF TreesInv, Together
  <2>3. Unions(after, parent)
    BY <1>2 DEF TreesInv, Unions
  <2> QED
    BY <1>1, <2>1, <2>2, <2>3, TreesStep DEF TreesInv
<1> QED
  BY <1>3, <1>4

\* The detection begins, passes a row, or has its result.
LEMMA InspectInvDetect == InspectInv /\ Detect => InspectInv'
<1> SUFFICES ASSUME InspectInv, Detect PROVE InspectInv'
  OBVIOUS
<1>1. outcome = "read" /\ outcome' = outcome /\ matrix' = matrix /\ result.kind = "none"
      /\ WellFormed(matrix) /\ S!m \in Nat
  BY PointersGrow DEF Detect, vars, InspectInv, S!Next, S!Refuse, S!Begin, S!UniteRow, S!Classify
<1>2. WellFormed(matrix)'
  BY <1>1 DEF WellFormed, nnz, Positions
<1>3. ASSUME NEW r, result' = r, Claim(r) PROVE Claim(result)'
  <2>1. Claim(r)'
    BY <1>1, <1>3, SameClaim
  <2> QED
    BY <1>3, <2>1 DEF Claim, ColumnsClaim, BlocksClaim, RowsClaim, VerdictClaim
<1>4. CASE S!Refuse
  <2> DEFINE r == [S!Blank EXCEPT !.kind = "Monolithic", !.col_block = [j \in 1..S!n |-> S!None],
                                  !.row_block = [i \in 1..S!m |-> S!None]]
  <2>1. result' = r /\ (S!m = 0 \/ S!n = 0)
    BY <1>4 DEF S!Refuse
  <2>2. /\ r.kind = "Monolithic" /\ r.num_blocks = 0 /\ r.linking_rows = {}
        /\ \A j \in 1..S!n : r.col_block[j] = S!None
    BY DEF S!Blank
  <2>3. \A i \in 1..S!m : S!Columns(i) = {}
    BY <1>1, <2>1, ColumnsOfRow
  <2> HIDE DEF r
  <2>4. 0..(0 - 1) = {}
    OBVIOUS
  <2>5. Claim(r)
    BY <2>2, <2>3, <2>4 DEF Claim, ColumnsClaim, BlocksClaim, RowsClaim, VerdictClaim
  <2> QED
    BY <1>1, <1>2, <1>3, <2>1, <2>2, <2>5 DEF InspectInv
<1>5. CASE S!Begin
  BY <1>1, <1>2, <1>5, BeginsWithTrees DEF InspectInv, S!Begin
<1>6. CASE S!UniteRow
  <2>1. next_row # 0 /\ result' = result
    BY <1>6 DEF S!UniteRow
  <2>2. TreesInv
    BY <1>1, <2>1 DEF InspectInv
  <2> QED
    BY <1>1, <1>2, <1>6, <2>1, <2>2, UniteRowKeepsTrees DEF InspectInv
<1>7. CASE S!Classify
  <2> DEFINE b == S!Numbered
  <2>1. next_row = S!m + 1 /\ next_row # 0 /\ result' = Classified(b)
    <3>1. next_row = S!m + 1
      BY <1>7 DEF S!Classify
    <3>2. result' = Classified(b)
      <4> DEFINE touched == [i \in 1..S!m |-> S!Touched(b.col_block, i)]
                 linking == {i \in 1..S!m : S!Cardinality(touched[i]) > 1}
                 home == [i \in 1..S!m |-> IF S!Cardinality(touched[i]) = 1
                                             THEN CHOOSE c \in touched[i] : TRUE ELSE S!None]
      <4>1. result' = [kind |-> S!Verdict(b.next, S!Cardinality(linking)), num_blocks |-> b.next,
                       col_block |-> b.col_block, row_block |-> home, linking_rows |-> linking]
        BY <1>7 DEF S!Classify
      <4>2. \A i \in 1..S!m : touched[i] = S!Touched(b.col_block, i)
        OBVIOUS
      <4>3. linking = Linking(b)
        BY <4>2 DEF Linking
      <4>4. home = [i \in 1..S!m |-> IF S!Cardinality(S!Touched(b.col_block, i)) = 1
                                      THEN CHOOSE c \in S!Touched(b.col_block, i) : TRUE ELSE S!None]
        BY <4>2
      <4> HIDE DEF touched, linking, home
      <4> QED
        BY <4>1, <4>3, <4>4 DEF Classified
    <3> QED
      BY <1>1, <3>1, <3>2
  <2>2. TreesInv
    BY <1>1, <2>1 DEF InspectInv
  <2>3. SparseBefore(next_row) = SparseRows
    BY <1>1, <2>1 DEF SparseBefore, SparseRows
  <2>4. parent \in [1..S!n -> 1..S!n] /\ IsForest(parent, 1..S!n)
    BY <2>2 DEF TreesInv, Disjoints
  <2>5. Ready(b)
    BY <1>1, <2>2, <2>3, <2>4, NumberedHolds DEF TreesInv, Ready
  <2>6. Claim(Classified(b))
    BY <2>5, ClaimFollows
  <2>7. Classified(b).kind # "none"
    BY DEF Classified, S!Verdict
  <2> QED
    BY <1>1, <1>2, <1>3, <2>1, <2>6, <2>7 DEF InspectInv
<1> QED
  BY <1>4, <1>5, <1>6, <1>7 DEF Detect, S!Next

\* Nothing is said of what a step leaves alone.
LEMMA InspectInvStutters == InspectInv /\ UNCHANGED <<vars, structureVars>> => InspectInv'
<1> SUFFICES ASSUME InspectInv, UNCHANGED <<vars, structureVars>> PROVE InspectInv'
  OBVIOUS
<1>1. /\ outcome' = outcome /\ matrix' = matrix /\ next_row' = next_row /\ parent' = parent
      /\ size' = size /\ result' = result
  BY DEF vars, structureVars
<1>2. WellFormed(matrix)' <=> WellFormed(matrix)
  BY <1>1 DEF WellFormed, nnz, Positions
<1>3. ASSUME TreesInv PROVE TreesInv'
  BY <1>1, <1>3, TreesStep DEF TreesInv
<1>4. ASSUME NEW r, result = r, Claim(r) PROVE Claim(result)'
  <2>1. Claim(r)'
    BY <1>1, <1>4, SameClaim
  <2> QED
    BY <1>1, <1>4, <2>1 DEF Claim, ColumnsClaim, BlocksClaim, RowsClaim, VerdictClaim
<1> QED
  BY <1>1, <1>2, <1>3, <1>4 DEF InspectInv

\* The invariant is inductive.
LEMMA InspectInvHolds == InspectSpec => []InspectInv
<1>1. InspectInv /\ [Read \/ Detect \/ Done]_<<vars, structureVars>> => InspectInv'
  BY InspectInvRead, InspectInvDetect, InspectInvStutters DEF Done
<1> QED
  BY <1>1, InspectInvInit, PTL DEF InspectSpec

\* Whatever file is read, and whatever the thresholds are, the blocks that are
\* reported can be checked on the matrix alone: sparse rows connect the columns
\* of each, no row but a linking one leaves them, and the verdict follows.
THEOREM ClaimCheckable == InspectSpec => []ClaimIsCheckable
<1>1. InspectInv => ClaimIsCheckable
  BY ClaimIsTheClaim DEF InspectInv, ClaimIsCheckable
<1> QED
  BY <1>1, InspectInvHolds, PTL

(***************************************************************************)
(* What is read                                                            *)
(***************************************************************************)

\* As far as the readers are concerned, a command reads and then stutters.
LEMMA InspectReads == InspectSpec => ReadSpec
<1>1. InspectInit => Init
  BY DEF InspectInit
<1>2. [Read \/ Detect \/ Done]_<<vars, structureVars>> => [Reads]_vars
  BY DEF Read, Detect, Done
<1> QED
  BY <1>1, <1>2, PTL DEF InspectSpec, ReadSpec

\* What is proved of reading (ReaderProofs) holds of the commands: structure
\* detection leaves the problem alone that command_structure() hands to it.
THEOREM InspectedAsRead ==
  InspectSpec => /\ []LayoutsAgree /\ []BoundsFollowTheCards
                 /\ []RowsFollowTheTable /\ []WarningsAreExact
BY InspectReads, MatrixHasTwoLayouts, BoundsFollowed, TableFollowed, WarningsFollowed, PTL
===============================================================================
