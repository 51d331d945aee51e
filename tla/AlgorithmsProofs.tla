-------------------------- MODULE AlgorithmsProofs --------------------------
(***************************************************************************)
(* Proofs of AlignmentIsBest, DriftBounded and EveryFrameHeard.            *)
(*                                                                         *)
(* AlignmentIsBest, for nodes and observations of every length: the table  *)
(* of _align_exact (stable_prefix.py 743-811) finds an alignment with the  *)
(* highest score there is.  The recursion of Table has a solution          *)
(* (TableExists), and the sum of a score does not depend on the order it   *)
(* is taken in (SumIs); each entry is then the best of its three           *)
(* neighbours, extended (BestEntry, Split), and the last one the best of   *)
(* all (TableIsBest).                                                      *)
(*                                                                         *)
(* DriftBounded and EveryFrameHeard, for chunks of every number and jitter,*)
(* devices and an output of any sample rates, and every window             *)
(* (audio_capture.py 552-857): the chunks of a device are merged in an     *)
(* order (InOrder), and the segment of any number of them is Sane, a frame *)
(* being off its place by the silences closed less the overlaps before it, *)
(* and EndsWith its last chunk (SegmentsAreWhole).  Cutting it at the      *)
(* window moves it by half a frame (FrameAtIs), laying it out by half a    *)
(* place (PlaceIs), and resampling by what rounding its length makes of it *)
(* (SpreadIs, SpreadCovers): so what is heard is where it was recorded     *)
(* (SoundsAreInPlace), and what was recorded is heard (FramesAreHeard).    *)
(***************************************************************************)
EXTENDS MCAlgorithms, FiniteSetTheorems, WellFoundedInduction, TLAPS

(***************************************************************************)
(* Induction and the table.                                                *)
(***************************************************************************)
\* A set of numbers has a least one.
LEMMA LeastOf ==
  ASSUME NEW T, T \subseteq Nat, T # {}
  PROVE  \E x \in T : \A y \in T : x <= y
<1>1. PICK x \in T : \A y \in T : ~(<<y, x>> \in OpToRel(<, Nat))
  <2>1. IsWellFoundedOn(OpToRel(<, Nat), Nat)
    BY NatLessThanWellFounded
  <2> QED BY <2>1, WFMin
<1>2. \A y \in T : y < x => <<y, x>> \in OpToRel(<, Nat)
  BY DEF OpToRel
<1>3. \A y \in T : ~(y < x)
  BY <1>1, <1>2
<1> QED BY <1>3

\* Induction for a set of numbers.
LEMMA SetInduction ==
  ASSUME NEW S, S \subseteq Nat, 0 \in S, \A n \in S : n + 1 \in S
  PROVE  S = Nat
<1> SUFFICES ASSUME Nat \ S # {} PROVE FALSE
  OBVIOUS
<1> DEFINE T == Nat \ S
<1>1. T \subseteq Nat /\ T # {}
  OBVIOUS
<1> HIDE DEF T
<1>2. PICK x \in T : \A y \in T : x <= y
  BY <1>1, LeastOf
<1> USE DEF T
<1>3. x - 1 \in Nat /\ x - 1 < x
  BY <1>2
<1> QED BY <1>2, <1>3

Cells(m, n)   == (0 .. m) \X (0 .. n)
Agree(f, g, m, n, k) ==
    \A i \in 0 .. m, j \in 0 .. n : i + j < k => f[<<i, j>>] = g[<<i, j>>]

\* An entry depends on its neighbours to the left and above.
LEMMA EntryLocal ==
  ASSUME NEW m \in Nat, NEW n \in Nat,
         NEW i \in 0 .. m, NEW j \in 0 .. n, NEW f, NEW g,
         Agree(f, g, m, n, i + j)
  PROVE  Entry(f, nodes, observations, i, j) = Entry(g, nodes, observations, i, j)
<1>1. CASE i = 0 \/ j = 0
  BY <1>1 DEF Entry
<1>2. CASE i > 0 /\ j > 0
  <2>1. f[<<i - 1, j>>] = g[<<i - 1, j>>]
    BY <1>2 DEF Agree
  <2>2. f[<<i, j - 1>>] = g[<<i, j - 1>>]
    BY <1>2 DEF Agree
  <2>3. f[<<i - 1, j - 1>>] = g[<<i - 1, j - 1>>]
    BY <1>2 DEF Agree
  <2> QED BY <2>1, <2>2, <2>3 DEF Entry
<1> QED BY <1>1, <1>2

\* The recursion of Table has a solution.
LEMMA TableExists ==
  ASSUME NEW m \in Nat, NEW n \in Nat
  PROVE  \E f : f = [ij \in Cells(m, n) |-> Entry(f, nodes, observations, ij[1], ij[2])]
<1> DEFINE Step(f) == [ij \in Cells(m, n) |-> Entry(f, nodes, observations, ij[1], ij[2])]
           S == {k \in Nat : \E f : Agree(f, Step(f), m, n, k)}
<1>1. \A f : \A i \in 0 .. m, j \in 0 .. n :
        Step(f)[<<i, j>>] = Entry(f, nodes, observations, i, j)
  BY DEF Cells
<1> HIDE DEF Step
<1>2. 0 \in S
  <2> DEFINE f == [ij \in {} |-> 0]
  <2>1. Agree(f, Step(f), m, n, 0)
    BY DEF Agree
  <2> QED BY <2>1
<1>3. ASSUME NEW k \in Nat, NEW f, Agree(f, Step(f), m, n, k)
      PROVE  Agree(Step(f), Step(Step(f)), m, n, k + 1)
  <2> SUFFICES ASSUME NEW i \in 0 .. m, NEW j \in 0 .. n, i + j < k + 1
               PROVE  Step(f)[<<i, j>>] = Step(Step(f))[<<i, j>>]
    BY DEF Agree
  <2>1. PICK g : g = Step(f)
    OBVIOUS
  <2>2. Agree(f, g, m, n, i + j)
    BY <1>3, <2>1 DEF Agree
  <2>3. Entry(f, nodes, observations, i, j) = Entry(g, nodes, observations, i, j)
    BY <2>2, EntryLocal
  <2>4. /\ Step(f)[<<i, j>>] = Entry(f, nodes, observations, i, j)
        /\ Step(g)[<<i, j>>] = Entry(g, nodes, observations, i, j)
    BY <1>1
  <2> QED BY <2>1, <2>3, <2>4
<1>4. S = Nat
  <2>1. \A k \in S : k + 1 \in S
    BY <1>3
  <2>2. S \subseteq Nat
    OBVIOUS
  <2> HIDE DEF S
  <2> QED BY <1>2, <2>1, <2>2, SetInduction
<1>5. PICK f : Agree(f, Step(f), m, n, m + n)
  <2>1. m + n \in S
    BY <1>4
  <2> QED BY <2>1
<1>6. Agree(Step(f), Step(Step(f)), m, n, m + n + 1)
  BY <1>3, <1>5
<1>7. Step(f) = Step(Step(f))
  <2>1. \A c \in Cells(m, n) : Step(f)[c] = Step(Step(f))[c]
    <3> TAKE c \in Cells(m, n)
    <3>1. PICK i \in 0 .. m, j \in 0 .. n : c = <<i, j>>
      BY DEF Cells
    <3>2. i + j < m + n + 1
      OBVIOUS
    <3> QED BY <1>6, <3>1, <3>2 DEF Agree
  <2>2. Step(f) = [c \in Cells(m, n) |-> Step(f)[c]] /\ Step(Step(f)) = [c \in Cells(m, n) |-> Step(Step(f))[c]]
    BY DEF Step
  <2> QED BY <2>1, <2>2
<1> QED BY <1>7 DEF Step

(***************************************************************************)
(* Sums.  A sum over the parts of a finite set is additive: it does not    *)
(* matter which element the fold of MapThenSumSet takes first.             *)
(***************************************************************************)
Additive(g, U, w) ==
    /\ g \in [SUBSET U -> Int] /\ g[{}] = 0
    /\ \A S \in SUBSET U : \A x \in S : g[S] = w[x] + g[S \ {x}]

\* A sum over all but one element extends to that element.
LEMMA SumExtends ==
  ASSUME NEW U, NEW w \in [U -> Int], NEW y \in U, NEW f, Additive(f, U \ {y}, w)
  PROVE  \E g : Additive(g, U, w)
<1> DEFINE g == [S \in SUBSET U |-> IF y \in S THEN w[y] + f[S \ {y}] ELSE f[S]]
<1>1. /\ f \in [SUBSET (U \ {y}) -> Int] /\ f[{}] = 0
      /\ \A S \in SUBSET (U \ {y}) : \A x \in S : f[S] = w[x] + f[S \ {x}]
  BY DEF Additive
<1>2. \A S \in SUBSET U : /\ y \in S => S \ {y} \in SUBSET (U \ {y})
                          /\ y \notin S => S \in SUBSET (U \ {y})
  OBVIOUS
<1>3. \A S \in SUBSET U : g[S] \in Int
  <2> TAKE S \in SUBSET U
  <2>1. w[y] \in Int
    OBVIOUS
  <2>2. CASE y \in S
    <3>1. f[S \ {y}] \in Int
      BY <1>1, <1>2, <2>2
    <3>2. g[S] = w[y] + f[S \ {y}]
      BY <2>2
    <3> HIDE DEF g
    <3> QED BY <2>1, <3>1, <3>2
  <2>3. CASE y \notin S
    BY <1>1, <1>2, <2>3
  <2> QED BY <2>2, <2>3
<1>4. g[{}] = 0
  BY <1>1
<1>5. ASSUME NEW S \in SUBSET U, NEW x \in S PROVE g[S] = w[x] + g[S \ {x}]
  <2>1. S \ {x} \in SUBSET U
    OBVIOUS
  <2>2. CASE y \notin S
    <3>1. g[S] = f[S] /\ g[S \ {x}] = f[S \ {x}]
      BY <2>1, <2>2
    <3> QED BY <1>1, <1>2, <2>2, <3>1
  <2>3. CASE x = y
    BY <2>1, <2>3
  <2>4. CASE y \in S /\ x # y
    <3>1. g[S] = w[y] + f[S \ {y}] /\ g[S \ {x}] = w[y] + f[(S \ {x}) \ {y}]
      BY <2>1, <2>4
    <3>2. (S \ {x}) \ {y} = (S \ {y}) \ {x}
      OBVIOUS
    <3>3. S \ {y} \in SUBSET (U \ {y}) /\ x \in S \ {y}
      BY <2>4
    <3>4. f[S \ {y}] = w[x] + f[(S \ {y}) \ {x}]
      BY <1>1, <3>3
    <3>5. (S \ {y}) \ {x} \in SUBSET (U \ {y})
      OBVIOUS
    <3>6. f[(S \ {y}) \ {x}] \in Int /\ w[x] \in Int /\ w[y] \in Int
      BY <1>1, <3>5
    <3>7. w[y] + (w[x] + f[(S \ {y}) \ {x}]) = w[x] + (w[y] + f[(S \ {y}) \ {x}])
      BY <3>6
    <3> HIDE DEF g
    <3> QED BY <3>1, <3>2, <3>4, <3>7
  <2> QED BY <2>2, <2>3, <2>4
<1>6. g \in [SUBSET U -> Int]
  BY <1>3
<1> HIDE DEF g
<1>7. Additive(g, U, w)
  BY <1>4, <1>5, <1>6 DEF Additive
<1> QED BY <1>7

\* Removing an element of a finite set makes it one smaller.
LEMMA OneLess ==
  ASSUME NEW S, IsFiniteSet(S), NEW x \in S, NEW n \in Nat, Cardinality(S) = n + 1
  PROVE  Cardinality(S \ {x}) = n
<1>1. Cardinality(S \ {x}) = Cardinality(S) - 1
  BY FS_RemoveElement, Zenon
<1> QED BY <1>1

\* Every weight has its sums over the subsets of a finite set.
LEMMA SumExists ==
  ASSUME NEW U, IsFiniteSet(U), NEW w \in [U -> Int]
  PROVE  \E g : Additive(g, U, w)
<1> DEFINE Sized(n) == \A V \in SUBSET U : Cardinality(V) = n => \E g : Additive(g, V, w)
           P == {n \in Nat : Sized(n)}
<1>1. Sized(0)
  <2> SUFFICES ASSUME NEW V \in SUBSET U, Cardinality(V) = 0
               PROVE  \E g : Additive(g, V, w)
    OBVIOUS
  <2>1. V = {}
    BY FS_Subset, FS_EmptySet
  <2> DEFINE g == [S \in {{}} |-> 0]
  <2>2. Additive(g, V, w)
    BY <2>1 DEF Additive
  <2> QED BY <2>2
<1>2. ASSUME NEW n \in Nat, Sized(n) PROVE Sized(n + 1)
  <2> SUFFICES ASSUME NEW V \in SUBSET U, Cardinality(V) = n + 1
               PROVE  \E g : Additive(g, V, w)
    OBVIOUS
  <2>1. IsFiniteSet(V)
    BY FS_Subset
  <2>2. PICK y \in V : TRUE
    <3>1. V # {}
      BY <2>1, FS_EmptySet
    <3> QED BY <3>1
  <2>3. Cardinality(V \ {y}) = n
    BY <2>1, OneLess
  <2>4. PICK f : Additive(f, V \ {y}, w)
    BY <1>2, <2>3
  <2> DEFINE v == [x \in V |-> w[x]]
  <2>5. v \in [V -> Int] /\ Additive(f, V \ {y}, v)
    BY <2>4 DEF Additive
  <2>6. PICK g : Additive(g, V, v)
    BY <2>5, SumExtends
  <2>7. Additive(g, V, w)
    BY <2>6 DEF Additive
  <2> QED BY <2>7
<1> HIDE DEF Sized
<1>3. P = Nat
  <2>1. 0 \in P /\ \A n \in P : n + 1 \in P
    BY <1>1, <1>2
  <2>2. P \subseteq Nat
    OBVIOUS
  <2> HIDE DEF P
  <2> QED BY <2>1, <2>2, SetInduction
<1>4. Cardinality(U) \in Nat
  BY FS_CardinalityType
<1>5. Sized(Cardinality(U))
  BY <1>3, <1>4
<1> QED BY <1>5 DEF Sized

Sums(h, v, S) ==
    h = [s \in SUBSET S |->
            IF s = {} THEN 0
            ELSE v[CHOOSE x \in s : TRUE] + h[s \ {CHOOSE x \in s : TRUE}]]

\* SumFunctionOnSet is a fold, if there is one.
LEMMA SumFolds ==
  ASSUME NEW S, NEW v, NEW g, Sums(g, v, S)
  PROVE  \E h : Sums(h, v, S) /\ SumFunctionOnSet(v, S) = h[S]
BY DEF Sums, SumFunctionOnSet, FoldFunctionOnSet, MapThenFoldSet

\* SumFunctionOnSet is the additive sum.
LEMMA SumIs ==
  ASSUME NEW U, IsFiniteSet(U), NEW w \in [U -> Int], NEW g, Additive(g, U, w),
         NEW S \in SUBSET U, NEW v, \A x \in S : v[x] = w[x]
  PROVE  SumFunctionOnSet(v, S) = g[S]
<1> DEFINE f == [s \in SUBSET S |-> g[s]]
           pick(s) == CHOOSE x \in s : TRUE
<1>1. \A s \in SUBSET S : s # {} => pick(s) \in s
  OBVIOUS
<1>2. \A s \in SUBSET S : s # {} => g[s] = v[pick(s)] + g[s \ {pick(s)}]
  <2> SUFFICES ASSUME NEW s \in SUBSET S, s # {}
               PROVE  g[s] = v[pick(s)] + g[s \ {pick(s)}]
    OBVIOUS
  <2>1. pick(s) \in s
    BY <1>1
  <2> HIDE DEF pick
  <2>2. pick(s) \in U /\ s \in SUBSET U
    BY <2>1
  <2> QED BY <2>1, <2>2 DEF Additive
<1>3. Sums(f, v, S)
  <2>1. \A s \in SUBSET S : f[s] = IF s = {} THEN 0 ELSE v[pick(s)] + f[s \ {pick(s)}]
    <3> TAKE s \in SUBSET S
    <3>1. s \ {pick(s)} \in SUBSET S
      OBVIOUS
    <3>2. CASE s = {}
      BY <3>2 DEF Additive
    <3>3. CASE s # {}
      <4>1. f[s] = g[s] /\ f[s \ {pick(s)}] = g[s \ {pick(s)}]
        BY <3>1
      <4> QED BY <1>2, <3>3, <4>1
    <3> QED BY <3>2, <3>3
  <2>2. f = [s \in SUBSET S |-> f[s]]
    OBVIOUS
  <2> HIDE DEF f
  <2>3. f = [s \in SUBSET S |-> IF s = {} THEN 0 ELSE v[pick(s)] + f[s \ {pick(s)}]]
    BY <2>1, <2>2
  <2> QED BY <2>3 DEF Sums
<1>4. PICK h : Sums(h, v, S) /\ SumFunctionOnSet(v, S) = h[S]
  <2> HIDE DEF f
  <2> QED BY <1>3, SumFolds
<1> DEFINE Sized(n) == \A s \in SUBSET S : Cardinality(s) = n => h[s] = g[s]
           P == {n \in Nat : Sized(n)}
<1>5. /\ \A s \in SUBSET S : s # {} => h[s] = v[pick(s)] + h[s \ {pick(s)}]
      /\ h[{}] = 0
  BY <1>4 DEF Sums
<1>6. IsFiniteSet(S) /\ \A s \in SUBSET S : IsFiniteSet(s)
  BY FS_Subset
<1>7. Sized(0)
  <2>1. \A s \in SUBSET S : Cardinality(s) = 0 => s = {}
    BY <1>6, FS_EmptySet
  <2> QED BY <1>5, <2>1 DEF Additive
<1>8. ASSUME NEW n \in Nat, Sized(n) PROVE Sized(n + 1)
  <2> SUFFICES ASSUME NEW s \in SUBSET S, Cardinality(s) = n + 1 PROVE h[s] = g[s]
    OBVIOUS
  <2>1. s # {}
    BY FS_EmptySet
  <2>2. pick(s) \in s
    BY <1>1, <2>1
  <2>3. /\ h[s] = v[pick(s)] + h[s \ {pick(s)}]
        /\ g[s] = v[pick(s)] + g[s \ {pick(s)}]
    BY <1>2, <1>5, <2>1
  <2> HIDE DEF pick
  <2>4. Cardinality(s \ {pick(s)}) = n
    BY <1>6, <2>2, OneLess
  <2>5. h[s \ {pick(s)}] = g[s \ {pick(s)}]
    BY <1>8, <2>4
  <2> QED BY <2>3, <2>5
<1> HIDE DEF Sized
<1>9. P = Nat
  <2>1. 0 \in P /\ \A n \in P : n + 1 \in P
    BY <1>7, <1>8
  <2>2. P \subseteq Nat
    OBVIOUS
  <2> HIDE DEF P
  <2> QED BY <2>1, <2>2, SetInduction
<1>10. Sized(Cardinality(S))
  <2>1. Cardinality(S) \in Nat
    BY <1>6, FS_CardinalityType
  <2> QED BY <1>9, <2>1
<1>11. h[S] = g[S]
  BY <1>10 DEF Sized
<1> QED BY <1>4, <1>11

(***************************************************************************)
(* The best alignment.  Entry <<i, j>> of the table is the best alignment  *)
(* of the first i nodes with the first j observations: an alignment of     *)
(* these leaves out the last node or the last observation, or pairs the    *)
(* two (Split), and the entry takes the best of the three.                 *)
(***************************************************************************)
Weight(p) == MatchScore(nodes[p[1]], observations[p[2]])

Typed ==
    /\ \A i \in DOMAIN nodes : nodes[i].start \in Int /\ nodes[i].end \in Int
    /\ \A j \in DOMAIN observations :
          /\ observations[j].start \in Int /\ observations[j].end \in Int
          /\ observations[j].score \in Int
    /\ Len(nodes) \in Nat /\ DOMAIN nodes = 1 .. Len(nodes)
    /\ Len(observations) \in Nat /\ DOMAIN observations = 1 .. Len(observations)

Pairs(i, j) == (1 .. i) \X (1 .. j)

\* The alignments of the first i nodes with the first j observations.
AlignmentsTo(i, j) ==
    {pairs \in SUBSET Pairs(i, j) :
        /\ \A p \in pairs : Similar(nodes[p[1]], observations[p[2]])
        /\ \A p, q \in pairs : p # q => (p[1] < q[1] <=> p[2] < q[2]) /\ p[1] # q[1]}

Value(g, pairs, i, j) == g[pairs] + (i + j - 2 * Cardinality(pairs)) * Gap

IsBest(entry, g, i, j) ==
    /\ entry.pairs \in AlignmentsTo(i, j)
    /\ entry.score = Value(g, entry.pairs, i, j)
    /\ \A pairs \in AlignmentsTo(i, j) : Value(g, pairs, i, j) <= entry.score

\* Scores are integers.
LEMMA GapType == Gap \in Int /\ Delta \in Nat /\ Full \in Nat
<1>1. Delta \in Nat /\ Full \in Nat
  BY AlignmentAssumption
<1>2. 16 * Delta \in Int
  BY <1>1
<1>3. Gap \in Int
  BY <1>1, <1>2 DEF Gap
<1> QED BY <1>1, <1>3

\* So is the score of a pair.
LEMMA WeightType ==
  ASSUME Typed, NEW p \in Pairs(Len(nodes), Len(observations))
  PROVE  Weight(p) \in Int
<1> DEFINE node == nodes[p[1]]
           obs  == observations[p[2]]
<1>1. /\ node.start \in Int /\ node.end \in Int
      /\ obs.start \in Int /\ obs.end \in Int /\ obs.score \in Int
  BY DEF Typed, Pairs
<1> HIDE DEF node, obs
<1>2. Distance(Center(node), Center(obs)) \in Int
  BY <1>1 DEF Distance, Center
<1> DEFINE d == Distance(Center(node), Center(obs))
<1>3. d \in Int
  BY <1>2
<1> HIDE DEF d
<1>4. 40 * Delta * Full \in Int /\ 10 * (2 * Delta - d) * Full \in Int
      /\ 10 * Delta * obs.score \in Int
  BY <1>1, <1>3, GapType
<1>5. MatchScore(node, obs) \in Int
  BY <1>4 DEF MatchScore, d
<1> QED BY <1>5 DEF Weight, node, obs

\* An alignment is finite.
LEMMA AlignmentSize ==
  ASSUME NEW i \in Nat, NEW j \in Nat, NEW A \in AlignmentsTo(i, j)
  PROVE  IsFiniteSet(A) /\ Cardinality(A) \in Nat
<1>1. IsFiniteSet(Pairs(i, j))
  <2>1. IsFiniteSet(1 .. i) /\ IsFiniteSet(1 .. j)
    BY FS_Interval
  <2> QED BY <2>1, FS_Product DEF Pairs
<1>2. A \in SUBSET Pairs(i, j)
  BY DEF AlignmentsTo
<1>3. IsFiniteSet(A)
  BY <1>1, <1>2, FS_Subset
<1> QED BY <1>3, FS_CardinalityType

\* The value of an alignment is an integer.
LEMMA ValueType ==
  ASSUME Typed, NEW i \in 0 .. Len(nodes), NEW j \in 0 .. Len(observations),
         NEW w, NEW g, Additive(g, Pairs(Len(nodes), Len(observations)), w),
         NEW A \in AlignmentsTo(i, j)
  PROVE  g[A] \in Int /\ Value(g, A, i, j) \in Int
<1>0. Len(nodes) \in Nat /\ Len(observations) \in Nat
  BY DEF Typed
<1>1. A \in SUBSET Pairs(Len(nodes), Len(observations))
  BY <1>0 DEF AlignmentsTo, Pairs
<1>2. g[A] \in Int
  BY <1>1 DEF Additive
<1>3. Cardinality(A) \in Nat
  BY <1>0, AlignmentSize
<1>4. i + j - 2 * Cardinality(A) \in Int
  BY <1>0, <1>3
<1>5. (i + j - 2 * Cardinality(A)) * Gap \in Int
  BY <1>4, GapType
<1> QED BY <1>2, <1>5 DEF Value

\* One gap more.
LEMMA Distributes ==
  ASSUME NEW x \in Int, NEW G \in Int
  PROVE  (x + 1) * G = x * G + G
OBVIOUS

\* Leaving out the last node.
LEMMA LeaveNode ==
  ASSUME NEW i \in Nat \ {0}, NEW j \in Nat, NEW A \in AlignmentsTo(i - 1, j), NEW g,
         g[A] \in Int
  PROVE  A \in AlignmentsTo(i, j) /\ Value(g, A, i, j) = Value(g, A, i - 1, j) + Gap
<1>1. A \in AlignmentsTo(i, j)
  <2>1. Pairs(i - 1, j) \subseteq Pairs(i, j)
    BY DEF Pairs
  <2> QED BY <2>1 DEF AlignmentsTo
<1>2. Cardinality(A) \in Nat
  BY <1>1, AlignmentSize
<1> DEFINE x == (i - 1) + j - 2 * Cardinality(A)
<1>3. x \in Int /\ i + j - 2 * Cardinality(A) = x + 1
  BY <1>2
<1> HIDE DEF x
<1>4. (x + 1) * Gap = x * Gap + Gap /\ x * Gap \in Int
  BY <1>3, GapType, Distributes
<1>5. g[A] + (x * Gap + Gap) = (g[A] + x * Gap) + Gap
  BY <1>4, GapType
<1> QED BY <1>1, <1>3, <1>4, <1>5 DEF Value, x

\* Leaving out the last observation.
LEMMA LeaveObservation ==
  ASSUME NEW i \in Nat, NEW j \in Nat \ {0}, NEW A \in AlignmentsTo(i, j - 1), NEW g,
         g[A] \in Int
  PROVE  A \in AlignmentsTo(i, j) /\ Value(g, A, i, j) = Value(g, A, i, j - 1) + Gap
<1>1. A \in AlignmentsTo(i, j)
  <2>1. Pairs(i, j - 1) \subseteq Pairs(i, j)
    BY DEF Pairs
  <2> QED BY <2>1 DEF AlignmentsTo
<1>2. Cardinality(A) \in Nat
  BY <1>1, AlignmentSize
<1> DEFINE x == i + (j - 1) - 2 * Cardinality(A)
<1>3. x \in Int /\ i + j - 2 * Cardinality(A) = x + 1
  BY <1>2
<1> HIDE DEF x
<1>4. (x + 1) * Gap = x * Gap + Gap /\ x * Gap \in Int
  BY <1>3, GapType, Distributes
<1>5. g[A] + (x * Gap + Gap) = (g[A] + x * Gap) + Gap
  BY <1>4, GapType
<1> QED BY <1>1, <1>3, <1>4, <1>5 DEF Value, x

\* Pairing the last node with the last observation.
LEMMA PairLast ==
  ASSUME Typed, NEW i \in 1 .. Len(nodes), NEW j \in 1 .. Len(observations),
         Similar(nodes[i], observations[j]),
         NEW A \in AlignmentsTo(i - 1, j - 1),
         NEW w, \A p \in Pairs(Len(nodes), Len(observations)) : w[p] = Weight(p),
         NEW g, Additive(g, Pairs(Len(nodes), Len(observations)), w)
  PROVE  /\ A \cup {<<i, j>>} \in AlignmentsTo(i, j)
         /\ Value(g, A \cup {<<i, j>>}, i, j)
              = Value(g, A, i - 1, j - 1) + MatchScore(nodes[i], observations[j])
<1> DEFINE last == <<i, j>>
           B    == A \cup {last}
           m    == Len(nodes)
           n    == Len(observations)
<1>0. m \in Nat /\ n \in Nat /\ i \in Nat /\ j \in Nat /\ i <= m /\ j <= n /\ i > 0 /\ j > 0
  BY DEF Typed
<1>1. \A p \in A : p[1] \in 1 .. i - 1 /\ p[2] \in 1 .. j - 1 /\ p = <<p[1], p[2]>>
  BY DEF AlignmentsTo, Pairs
<1>2. \A p \in A : p[1] < i /\ p[2] < j /\ ~(i < p[1]) /\ ~(j < p[2]) /\ p[1] # i
  BY <1>0, <1>1
<1>3. last \notin A /\ last[1] = i /\ last[2] = j
  BY <1>2
<1>4. B \in SUBSET Pairs(i, j) /\ last \in Pairs(m, n) /\ B \in SUBSET Pairs(m, n)
  BY <1>0, <1>1 DEF Pairs
<1>5. \A p \in B : Similar(nodes[p[1]], observations[p[2]])
  BY DEF AlignmentsTo
<1>6. \A p, q \in B : p # q => (p[1] < q[1] <=> p[2] < q[2]) /\ p[1] # q[1]
  <2> SUFFICES ASSUME NEW p \in B, NEW q \in B, p # q
               PROVE  (p[1] < q[1] <=> p[2] < q[2]) /\ p[1] # q[1]
    OBVIOUS
  <2>1. CASE p \in A /\ q \in A
    BY <2>1 DEF AlignmentsTo
  <2>2. CASE p \in A /\ q = last
    BY <1>2, <1>3, <2>2
  <2>3. CASE p = last /\ q \in A
    BY <1>2, <1>3, <2>3
  <2> QED BY <2>1, <2>2, <2>3
<1>7. B \in AlignmentsTo(i, j)
  BY <1>4, <1>5, <1>6 DEF AlignmentsTo
<1>8. Cardinality(A) \in Nat /\ Cardinality(B) = Cardinality(A) + 1
  <2>1. IsFiniteSet(A) /\ Cardinality(A) \in Nat
    BY <1>0, AlignmentSize
  <2> QED BY <1>3, <2>1, FS_AddElement
<1>9. g[B] = Weight(last) + g[A]
  <2>1. B \ {last} = A
    BY <1>3
  <2>2. last \in B
    OBVIOUS
  <2> HIDE DEF B, last
  <2>3. g[B] = w[last] + g[B \ {last}]
    BY <1>4, <2>2 DEF Additive
  <2> QED BY <1>4, <2>1, <2>3
<1>10. g[A] \in Int /\ Weight(last) \in Int
  <2>1. A \in SUBSET Pairs(m, n)
    BY <1>4
  <2>2. g[A] \in Int
    BY <2>1 DEF Additive
  <2> QED BY <1>4, <2>2, WeightType
<1>11. i + j - 2 * Cardinality(B) = (i - 1) + (j - 1) - 2 * Cardinality(A)
  BY <1>0, <1>8
<1> DEFINE rest == ((i - 1) + (j - 1) - 2 * Cardinality(A)) * Gap
<1>12. rest \in Int
  <2>1. (i - 1) + (j - 1) - 2 * Cardinality(A) \in Int
    BY <1>0, <1>8
  <2> QED BY <2>1, GapType
<1>13. Value(g, B, i, j) = (Weight(last) + g[A]) + rest
  BY <1>9, <1>11 DEF Value
<1>14. Value(g, A, i - 1, j - 1) = g[A] + rest
  BY DEF Value
<1>15. Weight(last) = MatchScore(nodes[i], observations[j])
  BY <1>3 DEF Weight
<1> HIDE DEF rest, B
<1>16. Value(g, B, i, j) = Value(g, A, i - 1, j - 1) + Weight(last)
  BY <1>10, <1>12, <1>13, <1>14
<1> QED BY <1>7, <1>15, <1>16 DEF B

\* There are no other ways to align.
LEMMA Split ==
  ASSUME NEW i \in Nat \ {0}, NEW j \in Nat \ {0}, NEW A \in AlignmentsTo(i, j)
  PROVE  \/ A \in AlignmentsTo(i - 1, j)
         \/ A \in AlignmentsTo(i, j - 1)
         \/ /\ Similar(nodes[i], observations[j]) /\ <<i, j>> \in A
            /\ A \ {<<i, j>>} \in AlignmentsTo(i - 1, j - 1)
<1>1. \A p \in A : /\ p[1] \in 1 .. i /\ p[2] \in 1 .. j /\ p = <<p[1], p[2]>>
                   /\ Similar(nodes[p[1]], observations[p[2]])
  BY DEF AlignmentsTo, Pairs
<1>2. \A p, q \in A : p # q => (p[1] < q[1] <=> p[2] < q[2]) /\ p[1] # q[1]
  BY DEF AlignmentsTo
<1>3. CASE \A p \in A : p[1] # i
  <2>1. \A p \in A : p \in Pairs(i - 1, j)
    <3> TAKE p \in A
    <3>1. p[1] \in 1 .. i - 1
      BY <1>1, <1>3
    <3> QED BY <1>1, <3>1 DEF Pairs
  <2> QED BY <1>1, <1>2, <2>1 DEF AlignmentsTo
<1>4. CASE \A p \in A : p[2] # j
  <2>1. \A p \in A : p \in Pairs(i, j - 1)
    <3> TAKE p \in A
    <3>1. p[2] \in 1 .. j - 1
      BY <1>1, <1>4
    <3> QED BY <1>1, <3>1 DEF Pairs
  <2> QED BY <1>1, <1>2, <2>1 DEF AlignmentsTo
<1>5. CASE \E p, q \in A : p[1] = i /\ q[2] = j
  <2>1. PICK p \in A, q \in A : p[1] = i /\ q[2] = j
    BY <1>5
  <2>2. p = q
    <3> SUFFICES ASSUME p # q PROVE FALSE
      OBVIOUS
    <3>1. q[1] # i
      BY <1>2, <2>1
    <3>2. q[1] < i
      BY <1>1, <3>1
    <3>3. q[2] < p[2]
      BY <1>2, <2>1, <3>2
    <3>4. p[2] <= j /\ p[2] \in Nat
      BY <1>1
    <3> QED BY <2>1, <3>3, <3>4
  <2>3. p = <<i, j>>
    BY <1>1, <2>1, <2>2
  <2>4. <<i, j>> \in A /\ Similar(nodes[i], observations[j])
    BY <1>1, <2>1, <2>2, <2>3
  <2> DEFINE B == A \ {<<i, j>>}
  <2>5. \A r \in B : r \in Pairs(i - 1, j - 1)
    <3> TAKE r \in B
    <3>1. r # p /\ r \in A /\ p[1] = i /\ p[2] = j
      BY <2>1, <2>2, <2>3
    <3>2. r[1] # i
      BY <1>2, <3>1
    <3>3. r[1] \in 1 .. i - 1 /\ r[1] < i
      BY <1>1, <3>1, <3>2
    <3>4. r[2] < j
      BY <1>2, <3>1, <3>3
    <3>5. r[2] \in 1 .. j - 1
      BY <1>1, <3>1, <3>4
    <3> QED BY <1>1, <3>1, <3>3, <3>5 DEF Pairs
  <2>6. B \in AlignmentsTo(i - 1, j - 1)
    BY <1>1, <1>2, <2>5 DEF AlignmentsTo
  <2> QED BY <2>4, <2>6
<1> QED BY <1>3, <1>4, <1>5

\* With no nodes or no observations the one alignment is empty.
LEMMA EmptyIsBest ==
  ASSUME NEW i \in Nat, NEW j \in Nat, i = 0 \/ j = 0, NEW w, NEW U, NEW g, Additive(g, U, w),
         NEW entry, entry.score = (i + j) * Gap, entry.pairs = {}
  PROVE  IsBest(entry, g, i, j)
<1>1. Pairs(i, j) = {}
  BY DEF Pairs
<1>2. AlignmentsTo(i, j) = {{}}
  BY <1>1 DEF AlignmentsTo
<1>3. Cardinality({}) = 0
  BY FS_EmptySet
<1>4. g[{}] = 0
  BY DEF Additive
<1>5. (i + j) * Gap \in Int
  BY GapType
<1>6. i + j - 2 * Cardinality({}) = i + j
  BY <1>3
<1>7. Value(g, {}, i, j) = (i + j) * Gap
  BY <1>4, <1>5, <1>6 DEF Value
<1> QED BY <1>2, <1>5, <1>7 DEF IsBest

\* An entry is the best of the three, given that its neighbours are.
LEMMA BestEntry ==
  ASSUME Typed, NEW i \in 1 .. Len(nodes), NEW j \in 1 .. Len(observations), NEW T,
         NEW w, \A p \in Pairs(Len(nodes), Len(observations)) : w[p] = Weight(p),
         NEW g, Additive(g, Pairs(Len(nodes), Len(observations)), w),
         IsBest(T[<<i - 1, j>>], g, i - 1, j),
         IsBest(T[<<i, j - 1>>], g, i, j - 1),
         IsBest(T[<<i - 1, j - 1>>], g, i - 1, j - 1)
  PROVE  IsBest(Entry(T, nodes, observations, i, j), g, i, j)
<1> DEFINE up      == T[<<i - 1, j>>]
           left    == T[<<i, j - 1>>]
           across  == T[<<i - 1, j - 1>>]
           weight  == MatchScore(nodes[i], observations[j])
           skipUp  == Skip(up)
           skipLeft == Skip(left)
           gap     == Better(skipLeft, skipUp)
           matched == Match(across, nodes[i], observations[j], <<i, j>>)
           entry   == Entry(T, nodes, observations, i, j)
           V(A)    == Value(g, A, i, j)
<1>0. /\ Len(nodes) \in Nat /\ Len(observations) \in Nat
      /\ i \in Nat \ {0} /\ j \in Nat \ {0}
      /\ i - 1 \in 0 .. Len(nodes) /\ j - 1 \in 0 .. Len(observations)
      /\ i \in 0 .. Len(nodes) /\ j \in 0 .. Len(observations)
      /\ i - 1 \in Nat /\ j - 1 \in Nat
  BY DEF Typed
<1>1. /\ skipUp = [score |-> up.score + Gap, pairs |-> up.pairs]
      /\ skipLeft = [score |-> left.score + Gap, pairs |-> left.pairs]
      /\ matched = [score |-> across.score + weight, pairs |-> across.pairs \cup {<<i, j>>}]
  BY DEF Skip, Match
<1>2. /\ skipUp.score = up.score + Gap /\ skipUp.pairs = up.pairs
      /\ skipLeft.score = left.score + Gap /\ skipLeft.pairs = left.pairs
      /\ matched.score = across.score + weight
      /\ matched.pairs = across.pairs \cup {<<i, j>>}
  BY <1>1
<1> HIDE DEF skipUp, skipLeft, matched
<1>3. entry = IF Similar(nodes[i], observations[j]) THEN MatchOrGap(matched, gap) ELSE gap
  BY <1>0 DEF Entry, matched, skipUp, skipLeft
<1> HIDE DEF entry, weight
\* The best alignments of the neighbours have integer values.
<1>4. /\ \A A \in AlignmentsTo(i - 1, j) :
           /\ V(A) = Value(g, A, i - 1, j) + Gap /\ A \in AlignmentsTo(i, j)
           /\ Value(g, A, i - 1, j) \in Int
      /\ \A A \in AlignmentsTo(i, j - 1) :
           /\ V(A) = Value(g, A, i, j - 1) + Gap /\ A \in AlignmentsTo(i, j)
           /\ Value(g, A, i, j - 1) \in Int
  <2>1. ASSUME NEW A \in AlignmentsTo(i - 1, j)
        PROVE  /\ V(A) = Value(g, A, i - 1, j) + Gap /\ A \in AlignmentsTo(i, j)
               /\ Value(g, A, i - 1, j) \in Int
    <3>1. g[A] \in Int /\ Value(g, A, i - 1, j) \in Int
      BY <1>0, ValueType
    <3> QED BY <1>0, <3>1, LeaveNode
  <2>2. ASSUME NEW A \in AlignmentsTo(i, j - 1)
        PROVE  /\ V(A) = Value(g, A, i, j - 1) + Gap /\ A \in AlignmentsTo(i, j)
               /\ Value(g, A, i, j - 1) \in Int
    <3>1. g[A] \in Int /\ Value(g, A, i, j - 1) \in Int
      BY <1>0, ValueType
    <3> QED BY <1>0, <3>1, LeaveObservation
  <2> QED BY <2>1, <2>2
<1>5. ASSUME Similar(nodes[i], observations[j]), NEW A \in AlignmentsTo(i - 1, j - 1)
      PROVE  /\ V(A \cup {<<i, j>>}) = Value(g, A, i - 1, j - 1) + weight
             /\ A \cup {<<i, j>>} \in AlignmentsTo(i, j)
             /\ Value(g, A, i - 1, j - 1) \in Int
  <2>1. Value(g, A, i - 1, j - 1) \in Int
    BY <1>0, ValueType
  <2> QED BY <1>5, <2>1, PairLast DEF weight
<1>6. Gap \in Int /\ weight \in Int
  <2>1. <<i, j>> \in Pairs(Len(nodes), Len(observations))
    BY DEF Pairs
  <2>2. Weight(<<i, j>>) \in Int
    BY <2>1, WeightType
  <2> QED BY <2>2, GapType DEF Weight, weight
<1> HIDE DEF V
<1>7. /\ up.pairs \in AlignmentsTo(i - 1, j) /\ left.pairs \in AlignmentsTo(i, j - 1)
      /\ across.pairs \in AlignmentsTo(i - 1, j - 1)
      /\ up.score = Value(g, up.pairs, i - 1, j)
      /\ left.score = Value(g, left.pairs, i, j - 1)
      /\ across.score = Value(g, across.pairs, i - 1, j - 1)
      /\ \A A \in AlignmentsTo(i - 1, j) : Value(g, A, i - 1, j) <= up.score
      /\ \A A \in AlignmentsTo(i, j - 1) : Value(g, A, i, j - 1) <= left.score
      /\ \A A \in AlignmentsTo(i - 1, j - 1) : Value(g, A, i - 1, j - 1) <= across.score
  BY DEF IsBest
<1> HIDE DEF up, left, across
\* The two that leave something out.
<1>8. /\ skipUp.pairs \in AlignmentsTo(i, j) /\ skipUp.score = V(skipUp.pairs)
      /\ skipUp.score \in Int
      /\ \A A \in AlignmentsTo(i - 1, j) : V(A) <= skipUp.score
  BY <1>2, <1>4, <1>6, <1>7
<1>9. /\ skipLeft.pairs \in AlignmentsTo(i, j) /\ skipLeft.score = V(skipLeft.pairs)
      /\ skipLeft.score \in Int
      /\ \A A \in AlignmentsTo(i, j - 1) : V(A) <= skipLeft.score
  BY <1>2, <1>4, <1>6, <1>7
<1>10. /\ gap \in {skipLeft, skipUp}
       /\ skipLeft.score <= gap.score /\ skipUp.score <= gap.score
  BY <1>8, <1>9 DEF Better
<1> HIDE DEF gap
<1>11. /\ gap.pairs \in AlignmentsTo(i, j) /\ gap.score = V(gap.pairs) /\ gap.score \in Int
       /\ \A A \in AlignmentsTo(i - 1, j) \cup AlignmentsTo(i, j - 1) : V(A) <= gap.score
  <2>1. /\ gap.pairs \in AlignmentsTo(i, j) /\ gap.score = V(gap.pairs) /\ gap.score \in Int
    BY <1>8, <1>9, <1>10
  <2>2. ASSUME NEW A \in AlignmentsTo(i - 1, j) PROVE V(A) <= gap.score
    <3>1. V(A) \in Int /\ V(A) <= skipUp.score
      BY <1>4, <1>6, <1>8
    <3> QED BY <1>8, <1>10, <2>1, <3>1
  <2>3. ASSUME NEW A \in AlignmentsTo(i, j - 1) PROVE V(A) <= gap.score
    <3>1. V(A) \in Int /\ V(A) <= skipLeft.score
      BY <1>4, <1>6, <1>9
    <3> QED BY <1>9, <1>10, <2>1, <3>1
  <2> QED BY <2>1, <2>2, <2>3
\* With the one that pairs the last two, if it can.
<1>12. CASE ~Similar(nodes[i], observations[j])
  <2>1. entry = gap
    BY <1>3, <1>12
  <2>2. \A A \in AlignmentsTo(i, j) : A \in AlignmentsTo(i - 1, j) \cup AlignmentsTo(i, j - 1)
    BY <1>0, <1>12, Split
  <2> QED BY <1>11, <2>1, <2>2 DEF IsBest, V, entry
<1>13. CASE Similar(nodes[i], observations[j])
  <2>1. /\ matched.pairs \in AlignmentsTo(i, j) /\ matched.score = V(matched.pairs)
        /\ matched.score \in Int
    <3>1. across.pairs \in AlignmentsTo(i - 1, j - 1)
      BY <1>7
    <3>2. /\ V(across.pairs \cup {<<i, j>>}) = Value(g, across.pairs, i - 1, j - 1) + weight
          /\ across.pairs \cup {<<i, j>>} \in AlignmentsTo(i, j)
          /\ Value(g, across.pairs, i - 1, j - 1) \in Int
      BY <1>5, <1>13, <3>1
    <3>3. across.score = Value(g, across.pairs, i - 1, j - 1)
      BY <1>7
    <3> QED BY <1>2, <1>6, <3>2, <3>3
  <2>2. ASSUME NEW A \in AlignmentsTo(i, j), <<i, j>> \in A,
               A \ {<<i, j>>} \in AlignmentsTo(i - 1, j - 1)
        PROVE  V(A) <= matched.score
    <3> DEFINE B == A \ {<<i, j>>}
    <3>1. B \cup {<<i, j>>} = A
      BY <2>2
    <3>2. V(A) = Value(g, B, i - 1, j - 1) + weight /\ Value(g, B, i - 1, j - 1) \in Int
      BY <1>5, <1>13, <2>2, <3>1
    <3>3. Value(g, B, i - 1, j - 1) <= across.score /\ across.score \in Int
      BY <1>5, <1>7, <1>13, <2>2
    <3> HIDE DEF B
    <3> QED BY <1>2, <1>6, <3>2, <3>3
  <2>3. entry = IF matched.score > gap.score THEN matched ELSE gap
    BY <1>3, <1>13 DEF MatchOrGap, Better
  <2>4. /\ entry \in {matched, gap} /\ matched.score <= entry.score /\ gap.score <= entry.score
        /\ entry.score \in Int
    BY <1>11, <2>1, <2>3
  <2>5. entry.pairs \in AlignmentsTo(i, j) /\ entry.score = V(entry.pairs)
    BY <1>11, <2>1, <2>4
  <2>6. ASSUME NEW A \in AlignmentsTo(i, j) PROVE V(A) <= entry.score
    <3>1. V(A) \in Int
      BY <1>0, ValueType DEF V
    <3>2. CASE A \in AlignmentsTo(i - 1, j) \cup AlignmentsTo(i, j - 1)
      <4>1. V(A) <= gap.score
        BY <1>11, <3>2
      <4> QED BY <1>11, <2>4, <3>1, <4>1
    <3>3. CASE A \notin AlignmentsTo(i - 1, j) \cup AlignmentsTo(i, j - 1)
      <4>1. V(A) <= matched.score
        BY <1>0, <2>2, <3>3, Split
      <4> QED BY <2>1, <2>4, <3>1, <4>1
    <3> QED BY <3>2, <3>3
  <2> QED BY <2>5, <2>6 DEF IsBest, V, entry
<1> QED BY <1>12, <1>13

\* Every entry of the table is the best alignment up to it.
LEMMA TableIsBest ==
  ASSUME Typed,
         NEW w, \A p \in Pairs(Len(nodes), Len(observations)) : w[p] = Weight(p),
         NEW g, Additive(g, Pairs(Len(nodes), Len(observations)), w)
  PROVE  IsBest(Table(nodes, observations)[<<Len(nodes), Len(observations)>>],
                g, Len(nodes), Len(observations))
<1> DEFINE m == Len(nodes)
           n == Len(observations)
           T == Table(nodes, observations)
           Within(k) == \A i \in 0 .. m, j \in 0 .. n :
                            i + j < k => IsBest(T[<<i, j>>], g, i, j)
           S == {k \in Nat : Within(k)}
<1>0. m \in Nat /\ n \in Nat
  BY DEF Typed
<1>1. T = [ij \in Cells(m, n) |-> Entry(T, nodes, observations, ij[1], ij[2])]
  BY <1>0, TableExists DEF Table, Cells
<1> HIDE DEF T
<1>2. ASSUME NEW i \in 0 .. m, NEW j \in 0 .. n
      PROVE  T[<<i, j>>] = Entry(T, nodes, observations, i, j)
  <2>1. <<i, j>> \in Cells(m, n)
    BY DEF Cells
  <2> HIDE DEF m, n
  <2> QED BY <1>1, <2>1
<1>3. Within(0)
  BY <1>0
<1>4. ASSUME NEW k \in Nat, Within(k) PROVE Within(k + 1)
  <2> SUFFICES ASSUME NEW i \in 0 .. m, NEW j \in 0 .. n, i + j < k + 1
               PROVE  IsBest(Entry(T, nodes, observations, i, j), g, i, j)
    BY <1>2
  <2>1. CASE i = 0 \/ j = 0
    <3>1. /\ Entry(T, nodes, observations, i, j).score = (i + j) * Gap
          /\ Entry(T, nodes, observations, i, j).pairs = {}
      BY <2>1 DEF Entry
    <3> QED BY <1>0, <2>1, <3>1, EmptyIsBest
  <2>2. CASE i > 0 /\ j > 0
    <3>1. /\ i \in 1 .. m /\ j \in 1 .. n
          /\ i - 1 \in 0 .. m /\ j - 1 \in 0 .. n
          /\ i + (j - 1) < k /\ (i - 1) + j < k /\ (i - 1) + (j - 1) < k
      BY <1>0, <2>2
    <3>2. /\ IsBest(T[<<i - 1, j>>], g, i - 1, j)
          /\ IsBest(T[<<i, j - 1>>], g, i, j - 1)
          /\ IsBest(T[<<i - 1, j - 1>>], g, i - 1, j - 1)
      BY <1>4, <3>1
    <3> QED BY <3>1, <3>2, BestEntry
  <2> QED BY <1>0, <2>1, <2>2
<1> HIDE DEF Within
<1>5. S = Nat
  <2>1. 0 \in S /\ \A k \in S : k + 1 \in S
    BY <1>3, <1>4
  <2>2. S \subseteq Nat
    OBVIOUS
  <2> HIDE DEF S
  <2> QED BY <2>1, <2>2, SetInduction
<1>6. Within(m + n + 1)
  BY <1>0, <1>5
<1>7. m \in 0 .. m /\ n \in 0 .. n /\ m + n < m + n + 1
  BY <1>0
<1>8. IsBest(T[<<m, n>>], g, m, n)
  BY <1>6, <1>7 DEF Within
<1> QED BY <1>8 DEF T

\* What TableIsBest says, in the terms of AlignmentIsBest.
LEMMA TypedIsBest == ASSUME Typed PROVE AlignmentIsBest
<1> DEFINE m == Len(nodes)
           n == Len(observations)
           w == [p \in Pairs(m, n) |-> Weight(p)]
           best == Align(nodes, observations)
<1>0. m \in Nat /\ n \in Nat /\ DOMAIN nodes = 1 .. m /\ DOMAIN observations = 1 .. n
  BY DEF Typed
<1>1. IsFiniteSet(Pairs(m, n))
  <2>1. IsFiniteSet(1 .. m) /\ IsFiniteSet(1 .. n)
    BY <1>0, FS_Interval
  <2> QED BY <2>1, FS_Product DEF Pairs
<1>2. w \in [Pairs(m, n) -> Int] /\ \A p \in Pairs(m, n) : w[p] = Weight(p)
  BY WeightType
<1>3. Alignments = AlignmentsTo(m, n)
  BY <1>0 DEF Alignments, AlignmentsTo, Pairs
<1> HIDE DEF w
<1>4. PICK g : Additive(g, Pairs(m, n), w)
  BY <1>1, <1>2, SumExists
<1>5. ASSUME NEW A \in AlignmentsTo(m, n) PROVE Score(A) = Value(g, A, m, n)
  <2>1. A \in SUBSET Pairs(m, n)
    BY DEF AlignmentsTo
  <2> DEFINE v == [p \in A |-> MatchScore(nodes[p[1]], observations[p[2]])]
  <2>2. \A p \in A : v[p] = w[p]
    BY <1>2, <2>1 DEF Weight
  <2> HIDE DEF v
  <2>3. SumFunctionOnSet(v, A) = g[A]
    BY <1>1, <1>2, <1>4, <2>1, <2>2, SumIs
  <2> QED BY <2>3 DEF Score, Value, v
<1>6. IsBest(Table(nodes, observations)[<<m, n>>], g, m, n)
  BY <1>2, <1>4, TableIsBest
<1>7. /\ best \in AlignmentsTo(m, n)
      /\ \A A \in AlignmentsTo(m, n) : Value(g, A, m, n) <= Value(g, best, m, n)
  BY <1>6 DEF IsBest, Align
<1> HIDE DEF best, m, n
<1>8. /\ best \in Alignments
      /\ \A A \in Alignments : Score(A) <= Score(best)
  BY <1>3, <1>5, <1>7
<1> QED BY <1>8 DEF AlignmentIsBest, best

(***************************************************************************)
(* The inputs built.                                                       *)
(***************************************************************************)
NodeType == [norm : Norms, start : Int, end : Int]
ObservationType == [norm : Norms, start : Int, end : Int, score : Int]

InputsTyped == nodes \in Seq(NodeType) /\ observations \in Seq(ObservationType)

\* Whatever the nodes known and the words heard, the alignment the code finds
\* between them scores at least as high as every other (_align_exact).
THEOREM BestAlignment == Spec => []AlignmentIsBest
<1>1. Init => InputsTyped
  BY DEF Init, InputsTyped
<1>2. InputsTyped /\ [Next]_vars => InputsTyped'
  <2> SUFFICES ASSUME InputsTyped, [Next]_vars PROVE InputsTyped'
    OBVIOUS
  <2>1. ASSUME AddNode PROVE InputsTyped'
    <3>1. PICK norm \in Norms, start \in Starts :
            /\ nodes' = Append(nodes, [norm |-> norm, start |-> start, end |-> start + 4])
            /\ UNCHANGED observations
      BY <2>1 DEF AddNode
    <3>2. [norm |-> norm, start |-> start, end |-> start + 4] \in NodeType
      BY StartsAssumption DEF NodeType
    <3> QED BY <3>1, <3>2 DEF InputsTyped
  <2>2. ASSUME AddObservation PROVE InputsTyped'
    <3>1. PICK norm \in Norms, start \in Starts, score \in {0, Full} :
            /\ observations' = Append(observations,
                 [norm |-> norm, start |-> start, end |-> start + 4, score |-> score])
            /\ UNCHANGED nodes
      BY <2>2 DEF AddObservation
    <3>2. [norm |-> norm, start |-> start, end |-> start + 4, score |-> score]
             \in ObservationType
      BY StartsAssumption, AlignmentAssumption DEF ObservationType
    <3> QED BY <3>1, <3>2 DEF InputsTyped
  <2>3. ASSUME AddChunkOfAudio PROVE InputsTyped'
    BY <2>3 DEF AddChunkOfAudio, InputsTyped
  <2>4. CASE UNCHANGED vars
    BY <2>4 DEF vars, InputsTyped
  <2> QED BY <2>1, <2>2, <2>3, <2>4 DEF Next
<1>3. InputsTyped => Typed
  <2> SUFFICES ASSUME InputsTyped PROVE Typed
    OBVIOUS
  <2>1. /\ Len(nodes) \in Nat /\ DOMAIN nodes = 1 .. Len(nodes)
        /\ \A i \in DOMAIN nodes : nodes[i] \in NodeType
    BY DEF InputsTyped
  <2>2. /\ Len(observations) \in Nat /\ DOMAIN observations = 1 .. Len(observations)
        /\ \A j \in DOMAIN observations : observations[j] \in ObservationType
    BY DEF InputsTyped
  <2> QED BY <2>1, <2>2 DEF Typed, NodeType, ObservationType
<1>4. Typed => AlignmentIsBest
  BY TypedIsBest
<1> QED BY <1>1, <1>2, <1>3, <1>4, PTL DEF Spec

(***************************************************************************)
(* Chunks.                                                                 *)
(***************************************************************************)
Generations == DOMAIN Period

ChunkType == [generation : Generations, start_time : Int, frames : {FramesPerBuffer}]

Recorded(U) == U \subseteq ChunkType /\ IsFiniteSet(U)

\* From a frame to the next there is time.
LEMMA Periods ==
  ASSUME NEW g \in Generations
  PROVE  g \in Nat /\ Period[g] \in Nat /\ Period[g] >= 1
<1>1. Period \in Seq(Nat \ {0})
  BY AudioAssumption
<1> QED BY <1>1 DEF Generations

\* Chunks of one generation are equally long.
LEMMA ChunkTypes ==
  ASSUME NEW c \in ChunkType
  PROVE  /\ c.generation \in Generations /\ c.start_time \in Int
         /\ c.frames = FramesPerBuffer /\ FramesPerBuffer \in Nat /\ FramesPerBuffer >= 1
         /\ Duration(c) = FramesPerBuffer * Period[c.generation]
         /\ Duration(c) \in Int /\ Duration(c) >= 1
         /\ ChunkEndTime(c) = c.start_time + Duration(c) /\ ChunkEndTime(c) \in Int
<1>1. /\ c.generation \in Generations /\ c.start_time \in Int
      /\ c.frames = FramesPerBuffer /\ FramesPerBuffer \in Nat /\ FramesPerBuffer >= 1
  BY AudioAssumption DEF ChunkType
<1>2. PICK p \in Nat, n \in Nat :
        p = Period[c.generation] /\ p >= 1 /\ n = FramesPerBuffer /\ n >= 1
  BY <1>1, Periods
<1>3. n * p \in Int /\ n * p >= 1
  BY <1>2
<1>4. Duration(c) = n * p /\ FramesPerBuffer * Period[c.generation] = n * p
  BY <1>1, <1>2 DEF Duration
<1> QED BY <1>1, <1>3, <1>4 DEF ChunkEndTime

\* Sorting leaves no choice.
LEMMA EarlierOrders ==
  ASSUME NEW U, U \subseteq ChunkType
  PROVE  /\ \A c, d \in U : c # d => Earlier(c, d) \/ Earlier(d, c)
         /\ \A c, d \in U : ~(Earlier(c, d) /\ Earlier(d, c))
         /\ \A b, c, d \in U : Earlier(b, c) /\ Earlier(c, d) => Earlier(b, d)
<1>1. \A c \in U : /\ c \in ChunkType /\ c.start_time \in Int /\ c.generation \in Nat
                   /\ c.frames = FramesPerBuffer
  BY ChunkTypes, Periods
<1>2. \A c, d \in U : c # d => c.start_time # d.start_time \/ c.generation # d.generation
  BY <1>1 DEF ChunkType
<1> QED BY <1>1, <1>2 DEF Earlier

Rank(U, c) == Cardinality({d \in U : Earlier(d, c)})

\* An earlier chunk has fewer before it.
LEMMA RankAscends ==
  ASSUME NEW U, Recorded(U), NEW c \in U
  PROVE  /\ Rank(U, c) \in 0 .. Cardinality(U) - 1
         /\ \A d \in U : Earlier(c, d) => Rank(U, c) < Rank(U, d)
<1> DEFINE Before(d) == {b \in U : Earlier(b, d)}
<1>1. \A d \in U : /\ IsFiniteSet(Before(d)) /\ Cardinality(Before(d)) \in Nat
                   /\ Before(d) \subseteq U
  BY FS_Subset, FS_CardinalityType DEF Recorded
<1>2. ASSUME NEW S, S \subseteq U, Before(c) \subseteq S, c \in S
      PROVE  Cardinality(Before(c)) < Cardinality(S)
  <2>1. IsFiniteSet(S) /\ Cardinality(S) \in Nat
    BY <1>2, FS_Subset, FS_CardinalityType DEF Recorded
  <2>2. c \notin Before(c)
    BY EarlierOrders DEF Recorded
  <2>3. Cardinality(Before(c)) <= Cardinality(S) /\ Cardinality(Before(c)) # Cardinality(S)
    BY <1>2, <2>1, <2>2, FS_Subset
  <2> QED BY <1>1, <2>1, <2>3
<1>3. Cardinality(Before(c)) < Cardinality(U) /\ Cardinality(U) \in Nat
  BY <1>1, <1>2, FS_CardinalityType DEF Recorded
<1>4. ASSUME NEW d \in U, Earlier(c, d) PROVE Cardinality(Before(c)) < Cardinality(Before(d))
  <2>1. Before(c) \subseteq Before(d) /\ c \in Before(d)
    BY <1>4, EarlierOrders DEF Recorded
  <2> QED BY <1>1, <1>2, <2>1
<1> QED BY <1>1, <1>3, <1>4 DEF Rank

\* InOrder has each chunk once, the earlier first.
LEMMA InOrderIs ==
  ASSUME NEW U, Recorded(U)
  PROVE  /\ InOrder(U) \in [1 .. Cardinality(U) -> U]
         /\ \A c \in U : \E i \in 1 .. Cardinality(U) : InOrder(U)[i] = c
         /\ \A i, j \in 1 .. Cardinality(U) :
              i < j => Earlier(InOrder(U)[i], InOrder(U)[j])
<1> DEFINE n == Cardinality(U)
           rank == [c \in U |-> Rank(U, c) + 1]
<1>0. n \in Nat
  BY FS_CardinalityType DEF Recorded
<1>1. \A c \in U : Rank(U, c) \in 0 .. n - 1
  BY RankAscends
<1>2. \A c, d \in U : c # d => rank[c] # rank[d]
  <2> SUFFICES ASSUME NEW c \in U, NEW d \in U, c # d PROVE Rank(U, c) # Rank(U, d)
    BY <1>0, <1>1
  <2>1. Earlier(c, d) \/ Earlier(d, c)
    BY EarlierOrders DEF Recorded
  <2>2. Rank(U, c) < Rank(U, d) \/ Rank(U, d) < Rank(U, c)
    BY <2>1, RankAscends
  <2> QED BY <1>0, <1>1, <2>2
<1>3. rank \in Injection(U, 1 .. n)
  BY <1>0, <1>1, <1>2 DEF Injection, IsInjective
<1>4. IsFiniteSet(1 .. n) /\ Cardinality(1 .. n) = n
  BY <1>0, FS_Interval
<1>5. rank \in Surjection(U, 1 .. n)
  BY <1>3, <1>4, FS_Injection DEF Recorded
<1>6. \A i \in 1 .. n : /\ InOrder(U)[i] \in U
                        /\ Rank(U, InOrder(U)[i]) = i - 1
  <2> TAKE i \in 1 .. n
  <2>1. PICK c \in U : rank[c] = i
    BY <1>5 DEF Surjection
  <2>2. Rank(U, c) = i - 1
    BY <1>0, <1>1, <2>1
  <2>3. InOrder(U)[i] = CHOOSE d \in U : Rank(U, d) = i - 1
    BY DEF InOrder, Rank
  <2> QED BY <2>2, <2>3
<1>7. ASSUME NEW c \in U PROVE \E i \in 1 .. n : InOrder(U)[i] = c
  <2>1. PICK i \in 1 .. n : i = rank[c]
    BY <1>3 DEF Injection
  <2>2. Rank(U, InOrder(U)[i]) = i - 1 /\ InOrder(U)[i] \in U
    BY <1>6
  <2>3. rank[InOrder(U)[i]] = rank[c]
    BY <1>0, <1>1, <2>1, <2>2
  <2> QED BY <1>2, <2>2, <2>3
<1>8. ASSUME NEW i \in 1 .. n, NEW j \in 1 .. n, i < j
      PROVE  Earlier(InOrder(U)[i], InOrder(U)[j])
  <2> DEFINE c == InOrder(U)[i]
             d == InOrder(U)[j]
  <2>1. c \in U /\ d \in U /\ Rank(U, c) = i - 1 /\ Rank(U, d) = j - 1
    BY <1>6
  <2> HIDE DEF c, d
  <2>2. c # d /\ ~(Rank(U, d) < Rank(U, c))
    BY <1>8, <2>1
  <2>3. Earlier(c, d)
    BY <2>1, <2>2, EarlierOrders, RankAscends DEF Recorded
  <2> QED BY <2>3 DEF c, d
<1>9. InOrder(U) \in [1 .. n -> U]
  BY <1>6 DEF InOrder
<1> QED BY <1>7, <1>8, <1>9

\* The recursion of SegmentsAfter has a solution.
LEMMA SegmentsExist ==
  ASSUME NEW ordered, NEW n \in Nat
  PROVE  /\ SegmentsAfter(ordered, n)[0] = <<>>
         /\ \A i \in 1 .. n : SegmentsAfter(ordered, n)[i] =
              AddChunk(SegmentsAfter(ordered, n)[i - 1], ordered[Larger(1, i - 1)], ordered[i])
<1> DEFINE At(f, i) == IF i = 0 THEN <<>>
                       ELSE AddChunk(f[i - 1], ordered[Larger(1, i - 1)], ordered[i])
           Solves(f, k) == f = [i \in 0 .. k |-> At(f, i)]
           S == {k \in Nat : \E f : Solves(f, k)}
<1>1. \E f : Solves(f, 0)
  <2> DEFINE f == [i \in 0 .. 0 |-> <<>>]
  <2>1. Solves(f, 0)
    OBVIOUS
  <2> QED BY <2>1
<1>2. ASSUME NEW k \in Nat, NEW f, Solves(f, k) PROVE \E g : Solves(g, k + 1)
  <2> DEFINE g == [i \in 0 .. k + 1 |-> IF i <= k THEN f[i] ELSE At(f, i)]
  <2>1. \A i \in 0 .. k : f[i] = At(f, i)
    BY <1>2
  <2>2. \A i \in 0 .. k + 1 : g[i] = At(f, i)
    BY <2>1
  <2>3. \A i \in 0 .. k : g[i] = f[i]
    OBVIOUS
  <2> HIDE DEF g
  <2>4. ASSUME NEW i \in 0 .. k + 1 PROVE At(f, i) = At(g, i)
    <3>1. CASE i = 0
      BY <3>1
    <3>2. CASE i # 0
      <4>1. i - 1 \in 0 .. k
        BY <3>2
      <4> QED BY <2>3, <3>2, <4>1
    <3> QED BY <3>1, <3>2
  <2>5. g = [i \in 0 .. k + 1 |-> g[i]]
    BY DEF g
  <2> HIDE DEF At
  <2>6. Solves(g, k + 1)
    BY <2>2, <2>4, <2>5
  <2> QED BY <2>6
<1> HIDE DEF Solves
<1>3. S = Nat
  <2>1. S \subseteq Nat /\ 0 \in S /\ \A k \in S : k + 1 \in S
    BY <1>1, <1>2
  <2> HIDE DEF S
  <2> QED BY <2>1, SetInduction
<1>4. \E f : Solves(f, n)
  BY <1>3
<1>5. Solves(SegmentsAfter(ordered, n), n)
  BY <1>4 DEF Solves, SegmentsAfter
<1> DEFINE a == SegmentsAfter(ordered, n)
<1> HIDE DEF a
<1>6. \A i \in 0 .. n : a[i] = At(a, i)
  BY <1>5 DEF Solves, a
<1>7. a[0] = <<>> /\ \A i \in 1 .. n : a[i] =
         AddChunk(a[i - 1], ordered[Larger(1, i - 1)], ordered[i])
  BY <1>6
<1> QED BY <1>7 DEF a

(***************************************************************************)
(* Sums of silences.                                                       *)
(***************************************************************************)
\* A sum takes an element at a time, and a part of it is no more than all.
LEMMA SumsGrow ==
  ASSUME NEW U, IsFiniteSet(U), NEW w \in [U -> Nat]
  PROVE  /\ \A S \in SUBSET U : SumFunctionOnSet(w, S) \in Nat
         /\ \A S \in SUBSET U : \A x \in S :
              SumFunctionOnSet(w, S) = w[x] + SumFunctionOnSet(w, S \ {x})
         /\ \A S, T \in SUBSET U :
              S \subseteq T => SumFunctionOnSet(w, S) <= SumFunctionOnSet(w, T)
<1>1. w \in [U -> Int] /\ \A x \in U : w[x] \in Nat
  OBVIOUS
<1>2. PICK g : Additive(g, U, w)
  BY <1>1, SumExists
<1>3. \A S \in SUBSET U : SumFunctionOnSet(w, S) = g[S]
  BY <1>1, <1>2, SumIs
<1>4. /\ \A S \in SUBSET U : g[S] \in Int
      /\ g[{}] = 0
      /\ \A S \in SUBSET U : \A x \in S : g[S] = w[x] + g[S \ {x}]
  BY <1>2 DEF Additive
<1> DEFINE Grows(n) == \A S, T \in SUBSET U :
                          S \subseteq T /\ Cardinality(T \ S) = n => g[S] <= g[T]
           P == {n \in Nat : Grows(n)}
<1>5. \A S, T \in SUBSET U : IsFiniteSet(T \ S) /\ Cardinality(T \ S) \in Nat
  <2> TAKE S, T \in SUBSET U
  <2>1. T \ S \subseteq U
    OBVIOUS
  <2> QED BY <2>1, FS_Subset, FS_CardinalityType
<1>6. Grows(0)
  <2> SUFFICES ASSUME NEW S \in SUBSET U, NEW T \in SUBSET U,
                      S \subseteq T, Cardinality(T \ S) = 0
               PROVE  g[S] <= g[T]
    OBVIOUS
  <2>1. T \ S = {}
    BY <1>5, FS_EmptySet
  <2>2. S = T
    BY <2>1
  <2> QED BY <1>4, <2>2
<1>7. ASSUME NEW n \in Nat, Grows(n) PROVE Grows(n + 1)
  <2> SUFFICES ASSUME NEW S \in SUBSET U, NEW T \in SUBSET U,
                      S \subseteq T, Cardinality(T \ S) = n + 1
               PROVE  g[S] <= g[T]
    OBVIOUS
  <2>1. PICK x \in T \ S : TRUE
    <3>1. T \ S # {}
      BY FS_EmptySet
    <3> QED BY <3>1
  <2>2. Cardinality((T \ S) \ {x}) = n
    BY <1>5, <2>1, OneLess
  <2>3. (T \ S) \ {x} = (T \ {x}) \ S
    OBVIOUS
  <2>4. T \ {x} \in SUBSET U /\ S \subseteq T \ {x}
    BY <2>1
  <2>5. Cardinality((T \ {x}) \ S) = n
    BY <2>2, <2>3
  <2>6. g[S] <= g[T \ {x}]
    BY <1>7, <2>4, <2>5
  <2>7. g[T] = w[x] + g[T \ {x}] /\ w[x] \in Nat
    BY <1>1, <1>4, <2>1
  <2> QED BY <1>4, <2>4, <2>6, <2>7
<1> HIDE DEF Grows
<1>8. P = Nat
  <2>1. P \subseteq Nat /\ 0 \in P /\ \A n \in P : n + 1 \in P
    BY <1>6, <1>7
  <2> HIDE DEF P
  <2> QED BY <2>1, SetInduction
<1>9. \A S, T \in SUBSET U : S \subseteq T => g[S] <= g[T]
  BY <1>5, <1>8 DEF Grows
<1>10. \A S \in SUBSET U : g[S] \in Nat
  <2> TAKE S \in SUBSET U
  <2>1. g[{}] <= g[S]
    BY <1>9
  <2> QED BY <1>4, <2>1
<1>11. \A S \in SUBSET U : \A x \in S : S \ {x} \in SUBSET U
  OBVIOUS
<1> QED BY <1>3, <1>4, <1>9, <1>10, <1>11

\* The first sound of a chunk.
SoundOf(c) == [generation |-> c.generation, time |-> c.start_time]

\* What was recorded last before a chunk: of its device and directly before it.
Precedes(last, c, U) ==
    /\ last.generation = c.generation /\ last.start_time < c.start_time
    /\ \A d \in U : d.generation = c.generation /\ d.start_time < c.start_time
                      => d.start_time <= last.start_time

\* The silence before a chunk is the time from the end of the one before.
LEMMA SilenceIs ==
  ASSUME NEW U, U \subseteq ChunkType, NEW c \in U, NEW last \in U, Precedes(last, c, U)
  PROVE  Silence(c, U) = c.start_time - ChunkEndTime(last)
<1> DEFINE before == {d \in U : d.generation = c.generation /\ d.start_time < c.start_time}
           ends   == {ChunkEndTime(d) : d \in before}
<1>1. last \in before
  BY DEF Precedes
<1>2. \A d \in before : ChunkEndTime(d) \in Int /\ ChunkEndTime(d) <= ChunkEndTime(last)
  <2> TAKE d \in before
  <2>1. d \in ChunkType /\ last \in ChunkType
    OBVIOUS
  <2>2. d.start_time <= last.start_time /\ d.generation = last.generation
    BY DEF Precedes
  <2>3. Duration(d) = Duration(last)
    BY <2>1, <2>2, ChunkTypes
  <2> QED BY <2>1, <2>2, <2>3, ChunkTypes
<1>3. ChunkEndTime(last) \in ends /\ \A x \in ends : x \in Int /\ ChunkEndTime(last) >= x
  BY <1>1, <1>2
<1> HIDE DEF ends
<1>4. Max(ends) = ChunkEndTime(last)
  <2>1. /\ Max(ends) \in ends /\ \A x \in ends : Max(ends) >= x
    BY <1>3 DEF Max
  <2> QED BY <1>3, <2>1
<1> QED BY <1>1, <1>4 DEF Silence, ends

\* Silences are counted in ticks.
LEMMA SilenceType ==
  ASSUME NEW U, Recorded(U), NEW c \in U
  PROVE  /\ Silence(c, U) \in Int
         /\ Closed(c, U) \in Nat /\ Overlapping(c, U) \in Nat
<1> DEFINE before == {d \in U : d.generation = c.generation /\ d.start_time < c.start_time}
<1>1. Silence(c, U) \in Int
  <2>1. CASE before = {}
    BY <2>1 DEF Silence
  <2>2. CASE before # {}
    <3> DEFINE starts == {c.start_time - d.start_time : d \in before}
    <3>1. \A d \in U : d.start_time \in Int
      BY ChunkTypes DEF Recorded
    <3>2. starts \subseteq Nat /\ starts # {}
      BY <2>2, <3>1
    <3> HIDE DEF starts
    <3>3. PICK x \in starts : \A y \in starts : x <= y
      BY <3>2, LeastOf
    <3>4. PICK last \in before : x = c.start_time - last.start_time
      BY <3>3 DEF starts
    <3>5. \A d \in before : d.start_time <= last.start_time
      <4> TAKE d \in before
      <4>1. x <= c.start_time - d.start_time
        BY <3>3 DEF starts
      <4> QED BY <3>1, <3>4, <4>1
    <3>6. Precedes(last, c, U)
      BY <3>5 DEF Precedes
    <3>7. Silence(c, U) = c.start_time - ChunkEndTime(last)
      BY <3>6, SilenceIs DEF Recorded
    <3> QED BY <3>1, <3>7, ChunkTypes DEF Recorded
  <2> QED BY <2>1, <2>2
<1> QED BY <1>1 DEF Closed, Overlapping, Larger

\* The sums over the silences up to a sound.
LEMMA UpToGrows ==
  ASSUME NEW U, Recorded(U)
  PROVE  /\ \A sound : ClosedUpTo(sound, U) \in Nat /\ OverlappingUpTo(sound, U) \in Nat
         /\ \A c \in U : \A sound :
              sound.generation = c.generation /\ sound.time \in Int /\ c.start_time <= sound.time =>
                /\ ClosedUpTo(SoundOf(c), U) <= ClosedUpTo(sound, U)
                /\ OverlappingUpTo(SoundOf(c), U) <= OverlappingUpTo(sound, U)
<1> DEFINE v == [c \in U |-> Closed(c, U)]
           w == [c \in U |-> Overlapping(c, U)]
<1>1. v \in [U -> Nat] /\ w \in [U -> Nat] /\ IsFiniteSet(U)
  BY SilenceType DEF Recorded
<1>2. \A sound : UpTo(sound, U) \in SUBSET U
  BY DEF UpTo
<1>3. ASSUME NEW c \in U, NEW sound, sound.generation = c.generation,
             sound.time \in Int, c.start_time <= sound.time
      PROVE  UpTo(SoundOf(c), U) \subseteq UpTo(sound, U)
  <2>1. \A d \in U : d.start_time \in Int
    BY ChunkTypes DEF Recorded
  <2> QED BY <1>3, <2>1 DEF UpTo, SoundOf
<1>4. \A sound : /\ ClosedUpTo(sound, U) = SumFunctionOnSet(v, UpTo(sound, U))
                 /\ OverlappingUpTo(sound, U) = SumFunctionOnSet(w, UpTo(sound, U))
  BY DEF ClosedUpTo, OverlappingUpTo
<1> HIDE DEF v, w
<1>5. \A S \in SUBSET U : SumFunctionOnSet(v, S) \in Nat /\ SumFunctionOnSet(w, S) \in Nat
  BY <1>1, SumsGrow
<1>6. \A S, T \in SUBSET U : S \subseteq T => /\ SumFunctionOnSet(v, S) <= SumFunctionOnSet(v, T)
                                             /\ SumFunctionOnSet(w, S) <= SumFunctionOnSet(w, T)
  BY <1>1, SumsGrow
<1> QED BY <1>2, <1>3, <1>4, <1>5, <1>6

\* A chunk that continues the last adds its silence to one of the sums.
LEMMA UpToContinues ==
  ASSUME NEW U, Recorded(U), NEW c \in U, NEW last \in U,
         Precedes(last, c, U), Continues(last, c)
  PROVE  LET silence == c.start_time - ChunkEndTime(last)
         IN  /\ silence \in Int
             /\ ClosedUpTo(SoundOf(last), U) <= ClosedUpTo(SoundOf(c), U)
             /\ OverlappingUpTo(SoundOf(last), U) <= OverlappingUpTo(SoundOf(c), U)
             /\ ClosedUpTo(SoundOf(last), U) + silence <= ClosedUpTo(SoundOf(c), U)
             /\ OverlappingUpTo(SoundOf(last), U) - silence <= OverlappingUpTo(SoundOf(c), U)
<1> DEFINE v == [d \in U |-> Closed(d, U)]
           w == [d \in U |-> Overlapping(d, U)]
           silence == c.start_time - ChunkEndTime(last)
<1>1. v \in [U -> Nat] /\ w \in [U -> Nat] /\ IsFiniteSet(U)
  BY SilenceType DEF Recorded
<1>2. /\ \A d \in U : d.start_time \in Int /\ ChunkEndTime(d) \in Int
      /\ \A d, e \in U : d.generation = e.generation /\ d.start_time = e.start_time => d = e
  BY ChunkTypes DEF Recorded, ChunkType
<1>3. UpTo(SoundOf(c), U) \ {c} = UpTo(SoundOf(last), U) /\ c \in UpTo(SoundOf(c), U)
  <2>1. c \in UpTo(SoundOf(c), U)
    BY <1>2 DEF UpTo, SoundOf
  <2>2. \A d \in U : d.generation = c.generation =>
           ((d.start_time <= c.start_time /\ d # c) <=> d.start_time <= last.start_time)
    BY <1>2 DEF Precedes
  <2>3. \A d : d \in UpTo(SoundOf(c), U) \ {c} <=> d \in UpTo(SoundOf(last), U)
    BY <2>2 DEF UpTo, SoundOf, Precedes
  <2> QED BY <2>1, <2>3
<1>4. silence \in Int /\ Silence(c, U) = silence
  BY <1>2, SilenceIs DEF Recorded
<1>5. 2 * silence <= GapTolerance(c)
  BY DEF Continues
<1> HIDE DEF silence
<1>6. v[c] = (IF silence > 0 THEN silence ELSE 0) /\ w[c] = (IF silence < 0 THEN -silence ELSE 0)
  BY <1>4, <1>5 DEF Closed, Overlapping, Larger
<1>7. \A sound : /\ ClosedUpTo(sound, U) = SumFunctionOnSet(v, UpTo(sound, U))
                 /\ OverlappingUpTo(sound, U) = SumFunctionOnSet(w, UpTo(sound, U))
  BY DEF ClosedUpTo, OverlappingUpTo
<1> HIDE DEF v, w
<1>8. UpTo(SoundOf(c), U) \in SUBSET U
  BY DEF UpTo
<1>9. /\ ClosedUpTo(SoundOf(c), U) = v[c] + ClosedUpTo(SoundOf(last), U)
      /\ OverlappingUpTo(SoundOf(c), U) = w[c] + OverlappingUpTo(SoundOf(last), U)
  BY <1>1, <1>3, <1>7, <1>8, SumsGrow
<1>10. /\ ClosedUpTo(SoundOf(last), U) \in Nat /\ OverlappingUpTo(SoundOf(last), U) \in Nat
  BY UpToGrows
<1> QED BY <1>4, <1>6, <1>9, <1>10 DEF silence

(***************************************************************************)
(* Segments.  A frame was recorded at a tick, and its place in the segment *)
(* stands for another, if silences before it were closed or chunks before  *)
(* it overlap: it is off by the one less the other.                        *)
(***************************************************************************)
SoundType   == [generation : Generations, time : Int]
SegmentType == [generation : Generations, start_time : Int, audio : Seq(SoundType)]

Ticks(generation, k) == k * Period[generation]

Pos(segment, k) == segment.start_time + Ticks(segment.generation, k - 1)
Off(segment, k) == segment.audio[k].time - Pos(segment, k)

\* From a frame to a later one silences are closed and chunks overlap, and the
\* sums up to the later bound what this amounts to.  Only what follows the first
\* chunk is off, and that chunk reaches into the window.
Sane(segment, U, from) ==
    /\ segment \in SegmentType
    /\ Len(segment.audio) >= 1
    /\ \A k \in 1 .. Len(segment.audio) :
          /\ segment.audio[k].generation = segment.generation
          /\ Off(segment, k) = 0 \/ Pos(segment, k) > from
    /\ Off(segment, 1) = 0
    /\ \A j, k \in 1 .. Len(segment.audio) : j <= k =>
          /\ Off(segment, k) - Off(segment, j) <= ClosedUpTo(segment.audio[k], U)
          /\ Off(segment, j) - Off(segment, k) <= OverlappingUpTo(segment.audio[k], U)
    /\ End(segment) > from

\* The last chunk of a segment, and what is off at its end.
EndsWith(segment, last, U) ==
    LET off == ChunkEndTime(last) - End(segment)
    IN  /\ segment.generation = last.generation
        /\ \A j \in 1 .. Len(segment.audio) :
              /\ off - Off(segment, j) <= ClosedUpTo(SoundOf(last), U)
              /\ Off(segment, j) - off <= OverlappingUpTo(SoundOf(last), U)

\* The ticks of k frames are a number.
LEMMA TicksType ==
  ASSUME NEW g \in Generations, NEW k \in Int
  PROVE  Ticks(g, k) \in Int
<1>1. PICK p \in Int : p = Period[g]
  BY Periods
<1>2. k * p \in Int
  OBVIOUS
<1> QED BY <1>1, <1>2 DEF Ticks

\* They grow with k.
LEMMA TicksGrow ==
  ASSUME NEW g \in Generations, NEW a \in Int, NEW b \in Int
  PROVE  /\ Ticks(g, a + b) = Ticks(g, a) + Ticks(g, b)
         /\ a <= b => Ticks(g, a) <= Ticks(g, b)
         /\ Ticks(g, 0) = 0 /\ Ticks(g, 1) = Period[g]
<1>1. PICK p \in Nat : p = Period[g]
  BY Periods
<1>2. (a + b) * p = a * p + b * p /\ 0 * p = 0 /\ 1 * p = p
  OBVIOUS
<1>3. ASSUME a <= b PROVE a * p <= b * p
  <2>1. PICK d \in Nat : d = b - a /\ b = a + d
    BY <1>3
  <2>2. d * p >= 0 /\ (a + d) * p = a * p + d * p /\ d * p \in Int /\ a * p \in Int
    OBVIOUS
  <2> QED BY <2>1, <2>2
<1> QED BY <1>1, <1>2, <1>3 DEF Ticks

\* The frames of a chunk follow each other.
LEMMA FramesAre ==
  ASSUME NEW c \in ChunkType
  PROVE  /\ Frames(c) \in Seq(SoundType) /\ Len(Frames(c)) = FramesPerBuffer
         /\ \A m \in 1 .. FramesPerBuffer :
              Frames(c)[m] = [generation |-> c.generation,
                              time |-> c.start_time + Ticks(c.generation, m - 1)]
<1>1. /\ c.generation \in Generations /\ c.start_time \in Int
      /\ c.frames = FramesPerBuffer /\ FramesPerBuffer \in Nat
  BY ChunkTypes
<1>2. \A m \in 1 .. FramesPerBuffer :
        /\ Frames(c)[m] = [generation |-> c.generation,
                           time |-> c.start_time + Ticks(c.generation, m - 1)]
        /\ c.start_time + Ticks(c.generation, m - 1) \in Int
  BY <1>1, TicksType DEF Frames, RecordedAt, Ticks
<1>3. Frames(c) \in [1 .. FramesPerBuffer -> SoundType]
  <2>0. \A g \in Generations, x \in Int : [generation |-> g, time |-> x] \in SoundType
    BY DEF SoundType
  <2>1. \A m \in 1 .. FramesPerBuffer : Frames(c)[m] \in SoundType
    BY <1>1, <1>2, <2>0
  <2> QED BY <1>1, <2>1 DEF Frames
<1> QED BY <1>1, <1>2, <1>3

\* The positions and offsets of a segment are numbers.
LEMMA SegmentTypes ==
  ASSUME NEW segment \in SegmentType
  PROVE  /\ segment.generation \in Generations /\ segment.start_time \in Int
         /\ segment.audio \in Seq(SoundType) /\ Len(segment.audio) \in Nat
         /\ End(segment) \in Int
         /\ \A k \in Int : Pos(segment, k) \in Int
         /\ \A k \in 1 .. Len(segment.audio) :
              /\ segment.audio[k] \in SoundType /\ segment.audio[k].time \in Int
              /\ Off(segment, k) \in Int
<1>1. /\ segment.generation \in Generations /\ segment.start_time \in Int
      /\ segment.audio \in Seq(SoundType) /\ Len(segment.audio) \in Nat
  BY DEF SegmentType
<1>2. \A k \in 1 .. Len(segment.audio) :
        segment.audio[k] \in SoundType /\ segment.audio[k].time \in Int
  <2>1. \A x \in SoundType : x.time \in Int
    BY DEF SoundType
  <2> QED BY <1>1, <2>1
<1>3. \A k \in Int : Pos(segment, k) \in Int
  <2> TAKE k \in Int
  <2>1. Ticks(segment.generation, k - 1) \in Int
    BY <1>1, TicksType
  <2> QED BY <1>1, <2>1 DEF Pos
<1>4. \A k \in 1 .. Len(segment.audio) : Off(segment, k) \in Int
  <2> TAKE k \in 1 .. Len(segment.audio)
  <2>1. k \in Int
    BY <1>1
  <2>2. segment.audio[k].time \in Int /\ Pos(segment, k) \in Int
    BY <1>2, <1>3, <2>1
  <2> QED BY <2>2 DEF Off
<1>5. End(segment) \in Int
  <2>1. End(segment) = segment.start_time + Ticks(segment.generation, Len(segment.audio))
    BY DEF End, Ticks
  <2> QED BY <1>1, <2>1, TicksType
<1> QED BY <1>1, <1>2, <1>3, <1>4, <1>5

\* A segment of one chunk is not off.
LEMMA NewSegment ==
  ASSUME NEW U, Recorded(U), NEW c \in U, NEW from \in Int, ChunkEndTime(c) > from
  PROVE  Sane(SegmentOf(c), U, from) /\ EndsWith(SegmentOf(c), c, U)
<1> DEFINE segment == SegmentOf(c)
<1>0. c \in ChunkType
  BY DEF Recorded
<1>1. /\ segment.generation = c.generation /\ segment.start_time = c.start_time
      /\ segment.audio = Frames(c) /\ Len(segment.audio) = FramesPerBuffer
      /\ segment = [generation |-> segment.generation, start_time |-> segment.start_time,
                    audio |-> segment.audio]
  BY <1>0, FramesAre DEF SegmentOf
<1> HIDE DEF segment
<1>2. /\ c.generation \in Generations /\ c.start_time \in Int
      /\ FramesPerBuffer \in Nat /\ FramesPerBuffer >= 1
  BY <1>0, ChunkTypes
<1>3. segment \in SegmentType
  BY <1>0, <1>1, <1>2, FramesAre DEF SegmentType
<1>4. \A k \in 1 .. FramesPerBuffer : /\ segment.audio[k].generation = c.generation
                                      /\ Off(segment, k) = 0
  <2> TAKE k \in 1 .. FramesPerBuffer
  <2>1. segment.audio[k] = [generation |-> c.generation, time |-> Pos(segment, k)]
    BY <1>0, <1>1, FramesAre DEF Pos
  <2>2. Pos(segment, k) \in Int
    BY <1>3, SegmentTypes
  <2> QED BY <2>1, <2>2 DEF Off
<1>5. End(segment) = ChunkEndTime(c) /\ ChunkEndTime(c) \in Int
  BY <1>0, <1>1, ChunkTypes DEF End
<1>7. /\ \A sound : ClosedUpTo(sound, U) \in Nat /\ OverlappingUpTo(sound, U) \in Nat
  BY UpToGrows
<1>8. Sane(segment, U, from)
  BY <1>1, <1>2, <1>3, <1>4, <1>5, <1>7 DEF Sane
<1>9. EndsWith(segment, c, U)
  <2>3. ChunkEndTime(c) - End(segment) = 0
    BY <1>5
  <2>4. \A j \in 1 .. Len(segment.audio) :
           /\ 0 - Off(segment, j) <= ClosedUpTo(SoundOf(c), U)
           /\ Off(segment, j) - 0 <= OverlappingUpTo(SoundOf(c), U)
    <3> TAKE j \in 1 .. Len(segment.audio)
    <3>1. Off(segment, j) = 0
      BY <1>1, <1>4
    <3>2. ClosedUpTo(SoundOf(c), U) \in Nat /\ OverlappingUpTo(SoundOf(c), U) \in Nat
      BY <1>7
    <3> QED BY <3>1, <3>2
  <2> QED BY <1>1, <2>3, <2>4 DEF EndsWith
<1> QED BY <1>8, <1>9 DEF segment

Longer(segment, c) == [segment EXCEPT !.audio = @ \o Frames(c)]

\* The frames of a longer segment are its own and those of the chunk.
LEMMA LongerIs ==
  ASSUME NEW segment \in SegmentType, NEW c \in ChunkType,
         segment.generation = c.generation
  PROVE  LET longer == Longer(segment, c)
             n == Len(segment.audio)
         IN  /\ longer \in SegmentType
             /\ longer.generation = segment.generation
             /\ longer.start_time = segment.start_time
             /\ Len(longer.audio) = n + FramesPerBuffer
             /\ End(longer) = End(segment) + Duration(c)
             /\ \A k \in 1 .. n : /\ longer.audio[k] = segment.audio[k]
                                  /\ Off(longer, k) = Off(segment, k)
                                  /\ Pos(longer, k) = Pos(segment, k)
             /\ \A m \in 1 .. FramesPerBuffer :
                  /\ longer.audio[n + m] = Frames(c)[m]
                  /\ Off(longer, n + m) = c.start_time - End(segment)
                  /\ Pos(longer, n + m) >= End(segment)
<1> DEFINE longer == Longer(segment, c)
           n == Len(segment.audio)
<1>1. /\ segment.generation \in Generations /\ segment.start_time \in Int
      /\ segment.audio \in Seq(SoundType) /\ n \in Nat /\ End(segment) \in Int
  BY SegmentTypes
<1>2. /\ Frames(c) \in Seq(SoundType) /\ Len(Frames(c)) = FramesPerBuffer
      /\ FramesPerBuffer \in Nat /\ FramesPerBuffer >= 1 /\ c.start_time \in Int
      /\ Duration(c) = Ticks(segment.generation, FramesPerBuffer)
  BY FramesAre, ChunkTypes DEF Ticks
<1>3. /\ longer.generation = segment.generation /\ longer.start_time = segment.start_time
      /\ longer.audio = segment.audio \o Frames(c)
      /\ \A a \in Seq(SoundType) : [segment EXCEPT !.audio = a] \in SegmentType
      /\ longer = [segment EXCEPT !.audio = segment.audio \o Frames(c)]
  <2> DEFINE a == segment.audio \o Frames(c)
  <2>1. longer = [segment EXCEPT !.audio = a]
    BY DEF Longer
  <2> HIDE DEF longer, a
  <2>2. /\ longer.generation = segment.generation /\ longer.start_time = segment.start_time
        /\ longer.audio = a
    BY <2>1 DEF SegmentType
  <2>3. \A b \in Seq(SoundType) : [segment EXCEPT !.audio = b] \in SegmentType
    BY DEF SegmentType
  <2> QED BY <2>1, <2>2, <2>3 DEF a
<1> HIDE DEF longer
<1>4. /\ longer.audio \in Seq(SoundType) /\ Len(longer.audio) = n + FramesPerBuffer
      /\ \A k \in 1 .. n : longer.audio[k] = segment.audio[k]
      /\ \A m \in 1 .. FramesPerBuffer : longer.audio[n + m] = Frames(c)[m]
  <2>1. PICK a, b : a = segment.audio /\ b = Frames(c)
    OBVIOUS
  <2>2. a \in Seq(SoundType) /\ b \in Seq(SoundType) /\ Len(a) = n /\ Len(b) = FramesPerBuffer
    BY <1>1, <1>2, <2>1 DEF n
  <2>3. /\ a \o b \in Seq(SoundType) /\ Len(a \o b) = Len(a) + Len(b)
        /\ \A k \in 1 .. Len(a) : (a \o b)[k] = a[k]
        /\ \A m \in 1 .. Len(b) : (a \o b)[Len(a) + m] = b[m]
    BY <2>2
  <2>4. longer.audio = a \o b
    BY <1>3, <2>1
  <2> QED BY <2>1, <2>2, <2>3, <2>4
<1>5. longer \in SegmentType
  BY <1>3, <1>4
<1>6. \A k \in Int : Pos(longer, k) = Pos(segment, k)
  BY <1>3 DEF Pos
<1>7. \A k \in 1 .. n : Off(longer, k) = Off(segment, k)
  BY <1>1, <1>4, <1>6 DEF Off
<1>8. /\ End(segment) = segment.start_time + Ticks(segment.generation, n)
      /\ End(longer) = segment.start_time + Ticks(segment.generation, n + FramesPerBuffer)
  BY <1>3, <1>4 DEF End, Ticks, n
<1>9. ASSUME NEW m \in 1 .. FramesPerBuffer
      PROVE  /\ Off(longer, n + m) = c.start_time - End(segment)
             /\ Pos(longer, n + m) >= End(segment)
  <2> DEFINE step == Ticks(segment.generation, m - 1)
  <2>1. m - 1 \in Int /\ n \in Int /\ 0 \in Int /\ n + m - 1 = n + (m - 1) /\ 0 <= m - 1
    BY <1>1, <1>2
  <2>5. PICK l \in Int : l = m - 1
    BY <2>1
  <2>2. /\ Ticks(segment.generation, n + m - 1) = Ticks(segment.generation, n) + step
        /\ Ticks(segment.generation, n) \in Int /\ step \in Int /\ 0 <= step
    <3>1. Ticks(segment.generation, n + l) = Ticks(segment.generation, n) + Ticks(segment.generation, l)
      BY <1>1, <2>1, <2>5, TicksGrow
    <3>2. Ticks(segment.generation, n) \in Int /\ Ticks(segment.generation, l) \in Int
      BY <1>1, <2>1, <2>5, TicksType
    <3>3. Ticks(segment.generation, 0) <= Ticks(segment.generation, l) /\ Ticks(segment.generation, 0) = 0
      BY <1>1, <2>1, <2>5, TicksGrow
    <3> QED BY <2>1, <2>5, <3>1, <3>2, <3>3
  <2>3. longer.audio[n + m].time = c.start_time + step
    <3>1. Frames(c)[m] = [generation |-> c.generation,
                          time |-> c.start_time + Ticks(c.generation, m - 1)]
      BY FramesAre
    <3> QED BY <1>4, <3>1
  <2> HIDE DEF step
  <2>4. Pos(longer, n + m) = End(segment) + step
    <3>1. Pos(longer, n + m) = segment.start_time + Ticks(segment.generation, n + m - 1)
      BY <1>3 DEF Pos
    <3> QED BY <1>1, <1>8, <2>2, <3>1
  <2>6. End(segment) \in Int /\ c.start_time \in Int /\ step \in Int /\ 0 <= step
    BY <1>1, <1>2, <2>2
  <2>7. Off(longer, n + m) = (c.start_time + step) - (End(segment) + step)
    BY <2>3, <2>4 DEF Off
  <2> QED BY <2>4, <2>6, <2>7
<1>11. End(longer) = End(segment) + Duration(c)
  <2>1. n \in Int /\ FramesPerBuffer \in Int
    BY <1>1, <1>2
  <2>2. Ticks(segment.generation, n + FramesPerBuffer)
          = Ticks(segment.generation, n) + Ticks(segment.generation, FramesPerBuffer)
    BY <1>1, <2>1, TicksGrow
  <2>3. Ticks(segment.generation, n) \in Int /\ Ticks(segment.generation, FramesPerBuffer) \in Int
    BY <1>1, <2>1, TicksType
  <2> QED BY <1>1, <1>2, <1>8, <2>2, <2>3
<1>10. \A k \in 1 .. n : Pos(longer, k) = Pos(segment, k)
  BY <1>6
<1> QED BY <1>3, <1>4, <1>5, <1>7, <1>9, <1>10, <1>11 DEF longer, n

\* What a segment is off by grows by the silence before the chunk that extends it.
LEMMA LongerIsSane ==
  ASSUME NEW U, Recorded(U), NEW c \in U, NEW last \in U, NEW from \in Int, NEW segment,
         Sane(segment, U, from), EndsWith(segment, last, U),
         Precedes(last, c, U), Continues(last, c)
  PROVE  Sane(Longer(segment, c), U, from) /\ EndsWith(Longer(segment, c), c, U)
<1> DEFINE longer  == Longer(segment, c)
           n       == Len(segment.audio)
           off     == c.start_time - End(segment)
           silence == c.start_time - ChunkEndTime(last)
<1>1. /\ segment \in SegmentType /\ c \in ChunkType /\ last \in ChunkType
      /\ segment.generation = c.generation
  BY DEF Sane, EndsWith, Recorded, Continues
<1>2. /\ longer \in SegmentType
      /\ longer.generation = segment.generation
      /\ Len(longer.audio) = n + FramesPerBuffer
      /\ End(longer) = End(segment) + Duration(c)
      /\ \A k \in 1 .. n : /\ longer.audio[k] = segment.audio[k]
                           /\ Off(longer, k) = Off(segment, k)
                           /\ Pos(longer, k) = Pos(segment, k)
      /\ \A m \in 1 .. FramesPerBuffer :
           /\ longer.audio[n + m] = Frames(c)[m]
           /\ Off(longer, n + m) = off
           /\ Pos(longer, n + m) >= End(segment)
  BY <1>1, LongerIs
<1>3. /\ n \in Nat /\ End(segment) \in Int
      /\ \A k \in 1 .. n : Off(segment, k) \in Int
  BY <1>1, SegmentTypes
<1>4. /\ c.start_time \in Int /\ FramesPerBuffer \in Nat /\ FramesPerBuffer >= 1
      /\ ChunkEndTime(last) \in Int /\ Duration(c) \in Int /\ Duration(c) >= 1
      /\ ChunkEndTime(c) = c.start_time + Duration(c)
  BY <1>1, ChunkTypes
<1>5. /\ n >= 1 /\ Off(segment, 1) = 0 /\ End(segment) > from
      /\ \A k \in 1 .. n : /\ segment.audio[k].generation = segment.generation
                           /\ Off(segment, k) = 0 \/ Pos(segment, k) > from
      /\ \A j, k \in 1 .. n : j <= k =>
           /\ Off(segment, k) - Off(segment, j) <= ClosedUpTo(segment.audio[k], U)
           /\ Off(segment, j) - Off(segment, k) <= OverlappingUpTo(segment.audio[k], U)
  BY DEF Sane
<1>6. \A j \in 1 .. n :
        /\ ChunkEndTime(last) - End(segment) - Off(segment, j) <= ClosedUpTo(SoundOf(last), U)
        /\ Off(segment, j) - (ChunkEndTime(last) - End(segment))
             <= OverlappingUpTo(SoundOf(last), U)
  BY DEF EndsWith
<1>7. /\ silence \in Int
      /\ ClosedUpTo(SoundOf(last), U) + silence <= ClosedUpTo(SoundOf(c), U)
      /\ OverlappingUpTo(SoundOf(last), U) - silence <= OverlappingUpTo(SoundOf(c), U)
  BY UpToContinues
<1>8. \A sound : ClosedUpTo(sound, U) \in Nat /\ OverlappingUpTo(sound, U) \in Nat
  BY UpToGrows
<1>9. \A m \in 1 .. FramesPerBuffer :
        /\ Frames(c)[m].generation = c.generation
        /\ ClosedUpTo(SoundOf(c), U) <= ClosedUpTo(Frames(c)[m], U)
        /\ OverlappingUpTo(SoundOf(c), U) <= OverlappingUpTo(Frames(c)[m], U)
  <2> TAKE m \in 1 .. FramesPerBuffer
  <2>1. Frames(c)[m] = [generation |-> c.generation,
                        time |-> c.start_time + Ticks(c.generation, m - 1)]
    BY <1>1, FramesAre
  <2>2. Ticks(c.generation, m - 1) \in Int /\ 0 <= Ticks(c.generation, m - 1)
    <3>1. m - 1 \in Int /\ 0 \in Int /\ 0 <= m - 1 /\ c.generation \in Generations
      BY <1>1, ChunkTypes
    <3> QED BY <3>1, TicksType, TicksGrow
  <2>3. /\ Frames(c)[m].generation = c.generation /\ Frames(c)[m].time \in Int
        /\ c.start_time <= Frames(c)[m].time
    BY <1>4, <2>1, <2>2
  <2> QED BY <2>3, UpToGrows
<1> HIDE DEF longer, n
<1>10. off \in Int /\ silence \in Int
  BY <1>3, <1>4
<1>11. \A j \in 1 .. n : /\ off - Off(segment, j) <= ClosedUpTo(SoundOf(c), U)
                         /\ Off(segment, j) - off <= OverlappingUpTo(SoundOf(c), U)
  <2> TAKE j \in 1 .. n
  <2>1. off = (ChunkEndTime(last) - End(segment)) + silence
    BY <1>3, <1>4
  <2>2. /\ Off(segment, j) \in Int /\ ChunkEndTime(last) - End(segment) \in Int
        /\ ClosedUpTo(SoundOf(last), U) \in Nat /\ ClosedUpTo(SoundOf(c), U) \in Nat
        /\ OverlappingUpTo(SoundOf(last), U) \in Nat /\ OverlappingUpTo(SoundOf(c), U) \in Nat
    BY <1>3, <1>4, <1>8
  <2> HIDE DEF off, silence
  <2> QED BY <1>6, <1>7, <1>10, <2>1, <2>2
<1> HIDE DEF off, silence
<1>12. \A k \in 1 .. n + FramesPerBuffer : k \in 1 .. n \/ \E m \in 1 .. FramesPerBuffer : k = n + m
  <2> TAKE k \in 1 .. n + FramesPerBuffer
  <2>1. k <= n \/ (k - n \in 1 .. FramesPerBuffer /\ k = n + (k - n))
    BY <1>3, <1>4
  <2> QED BY <1>3, <2>1
<1>13. ASSUME NEW j \in 1 .. n + FramesPerBuffer, NEW k \in 1 .. n + FramesPerBuffer, j <= k
       PROVE  /\ Off(longer, k) - Off(longer, j) <= ClosedUpTo(longer.audio[k], U)
              /\ Off(longer, j) - Off(longer, k) <= OverlappingUpTo(longer.audio[k], U)
  <2>1. CASE k \in 1 .. n
    <3>1. j \in 1 .. n
      BY <1>3, <1>13, <2>1
    <3> QED BY <1>2, <1>5, <1>13, <2>1, <3>1
  <2>2. ASSUME NEW m \in 1 .. FramesPerBuffer, k = n + m, j \in 1 .. n
        PROVE  /\ Off(longer, k) - Off(longer, j) <= ClosedUpTo(longer.audio[k], U)
               /\ Off(longer, j) - Off(longer, k) <= OverlappingUpTo(longer.audio[k], U)
    <3>1. /\ Off(longer, k) = off /\ Off(longer, j) = Off(segment, j)
          /\ longer.audio[k] = Frames(c)[m] /\ Off(segment, j) \in Int
      BY <1>2, <1>3, <2>2
    <3>2. /\ ClosedUpTo(SoundOf(c), U) \in Nat /\ ClosedUpTo(Frames(c)[m], U) \in Nat
          /\ OverlappingUpTo(SoundOf(c), U) \in Nat /\ OverlappingUpTo(Frames(c)[m], U) \in Nat
      BY <1>8
    <3> QED BY <1>9, <1>10, <1>11, <2>2, <3>1, <3>2
  <2>3. ASSUME NEW m \in 1 .. FramesPerBuffer, k = n + m,
               NEW l \in 1 .. FramesPerBuffer, j = n + l
        PROVE  /\ Off(longer, k) - Off(longer, j) <= ClosedUpTo(longer.audio[k], U)
               /\ Off(longer, j) - Off(longer, k) <= OverlappingUpTo(longer.audio[k], U)
    <3>1. Off(longer, k) = off /\ Off(longer, j) = off
      BY <1>2, <2>3
    <3>2. ClosedUpTo(longer.audio[k], U) \in Nat /\ OverlappingUpTo(longer.audio[k], U) \in Nat
      BY <1>8
    <3> QED BY <1>10, <3>1, <3>2
  <2> QED BY <1>12, <2>1, <2>2, <2>3
<1>14. ASSUME NEW k \in 1 .. n + FramesPerBuffer
       PROVE  /\ longer.audio[k].generation = longer.generation
              /\ Off(longer, k) = 0 \/ Pos(longer, k) > from
  <2>1. CASE k \in 1 .. n
    BY <1>2, <1>5, <2>1
  <2>2. ASSUME NEW m \in 1 .. FramesPerBuffer, k = n + m
        PROVE  /\ longer.audio[k].generation = longer.generation
               /\ Pos(longer, k) > from
    <3>1. Pos(longer, k) \in Int
      BY <1>2, <1>3, SegmentTypes
    <3>2. Pos(longer, k) >= End(segment)
      BY <1>2, <2>2
    <3>3. longer.audio[k].generation = c.generation
      BY <1>2, <1>9, <2>2
    <3> QED BY <1>1, <1>2, <1>3, <1>5, <3>1, <3>2, <3>3
  <2> QED BY <1>12, <2>1, <2>2
<1>15. 1 \in 1 .. n /\ n + FramesPerBuffer >= 1
  BY <1>3, <1>4, <1>5
<1>16. End(longer) > from
  BY <1>2, <1>3, <1>4, <1>5
<1>17. Sane(longer, U, from)
  <2>1. Off(longer, 1) = 0
    BY <1>2, <1>5, <1>15
  <2> QED BY <1>2, <1>13, <1>14, <1>15, <1>16, <2>1 DEF Sane
<1>18. ChunkEndTime(c) - End(longer) = off
  BY <1>2, <1>3, <1>4 DEF off
<1>20. \A j \in 1 .. n + FramesPerBuffer :
         /\ off - Off(longer, j) <= ClosedUpTo(SoundOf(c), U)
         /\ Off(longer, j) - off <= OverlappingUpTo(SoundOf(c), U)
  <2> TAKE j \in 1 .. n + FramesPerBuffer
  <2>1. CASE j \in 1 .. n
    BY <1>2, <1>11, <2>1
  <2>2. ASSUME NEW m \in 1 .. FramesPerBuffer, j = n + m PROVE Off(longer, j) = off
    BY <1>2, <2>2
  <2>3. ClosedUpTo(SoundOf(c), U) \in Nat /\ OverlappingUpTo(SoundOf(c), U) \in Nat
    BY <1>8
  <2> QED BY <1>10, <1>12, <2>1, <2>2, <2>3
<1>21. EndsWith(longer, c, U)
  BY <1>1, <1>2, <1>18, <1>20 DEF EndsWith
<1> QED BY <1>17, <1>21 DEF longer

(***************************************************************************)
(* All segments.                                                           *)
(***************************************************************************)
\* What has been recorded of a window: chunks that reach into it.
Captured(U, from) ==
    /\ Recorded(U)
    /\ \A c \in U : ChunkEndTime(c) > from

Whole(segments, U, from) ==
    /\ segments \in Seq(SegmentType)
    /\ \A s \in 1 .. Len(segments) : Sane(segments[s], U, from)

HasFrame(segments, frame) ==
    \E s \in 1 .. Len(segments) : \E k \in 1 .. Len(segments[s].audio) :
        segments[s].audio[k] = frame

\* A chunk begins a segment.
LEMMA BeginsSegment ==
  ASSUME NEW U, NEW from \in Int, Captured(U, from), NEW c \in U,
         NEW segments, Whole(segments, U, from)
  PROVE  LET more == Append(segments, SegmentOf(c))
         IN  /\ Whole(more, U, from) /\ Len(more) >= 1 /\ EndsWith(more[Len(more)], c, U)
             /\ \A frame : HasFrame(segments, frame) => HasFrame(more, frame)
             /\ \A m \in 1 .. FramesPerBuffer : HasFrame(more, Frames(c)[m])
<1> DEFINE more == Append(segments, SegmentOf(c))
           n    == Len(segments)
<1>1. /\ c \in ChunkType /\ Recorded(U) /\ ChunkEndTime(c) > from
  BY DEF Captured, Recorded
<1>2. Sane(SegmentOf(c), U, from) /\ EndsWith(SegmentOf(c), c, U)
  BY <1>1, NewSegment
<1>3. SegmentOf(c) \in SegmentType
  BY <1>2 DEF Sane
<1>4. /\ more \in Seq(SegmentType) /\ n \in Nat /\ Len(more) = n + 1
      /\ \A s \in 1 .. n : more[s] = segments[s]
      /\ more[n + 1] = SegmentOf(c)
  <2>1. segments \in Seq(SegmentType)
    BY DEF Whole
  <2> QED BY <1>3, <2>1
<1> HIDE DEF more, n
<1>5. \A s \in 1 .. n : Sane(segments[s], U, from)
  BY DEF Whole, n
<1>6. \A s \in 1 .. Len(more) : Sane(more[s], U, from)
  <2> TAKE s \in 1 .. Len(more)
  <2>1. s \in 1 .. n \/ s = n + 1
    BY <1>4
  <2> QED BY <1>2, <1>4, <1>5, <2>1
<1>7. Whole(more, U, from)
  <2>1. more \in Seq(SegmentType)
    BY <1>4
  <2> QED BY <1>6, <2>1 DEF Whole
<1>8. ASSUME NEW frame, HasFrame(segments, frame) PROVE HasFrame(more, frame)
  <2>1. PICK s \in 1 .. n : \E k \in 1 .. Len(segments[s].audio) : segments[s].audio[k] = frame
    BY <1>8 DEF HasFrame, n
  <2>2. s \in 1 .. n + 1 /\ more[s] = segments[s]
    BY <1>4, <2>1
  <2> QED BY <1>4, <2>1, <2>2 DEF HasFrame
<1>9. ASSUME NEW m \in 1 .. FramesPerBuffer PROVE HasFrame(more, Frames(c)[m])
  <2>1. n + 1 \in 1 .. n + 1
    BY <1>4
  <2>2. more[n + 1].audio = Frames(c) /\ Len(Frames(c)) = FramesPerBuffer
    BY <1>1, <1>4, FramesAre DEF SegmentOf
  <2> QED BY <1>4, <2>1, <2>2 DEF HasFrame
<1> QED BY <1>2, <1>4, <1>7, <1>8, <1>9 DEF more

\* A chunk continues a segment.
LEMMA ContinuesSegment ==
  ASSUME NEW U, NEW from \in Int, Captured(U, from), NEW c \in U, NEW last \in U,
         Continues(last, c), Precedes(last, c, U),
         NEW segments, Whole(segments, U, from), Len(segments) >= 1,
         EndsWith(segments[Len(segments)], last, U)
  PROVE  LET more == [segments EXCEPT ![Len(segments)].audio = @ \o Frames(c)]
         IN  /\ Whole(more, U, from) /\ Len(more) >= 1 /\ EndsWith(more[Len(more)], c, U)
             /\ \A frame : HasFrame(segments, frame) => HasFrame(more, frame)
             /\ \A m \in 1 .. FramesPerBuffer : HasFrame(more, Frames(c)[m])
<1> DEFINE n       == Len(segments)
           segment == segments[n]
           more    == [segments EXCEPT ![n].audio = @ \o Frames(c)]
<1>1. /\ segments \in Seq(SegmentType) /\ n \in Nat /\ n \in 1 .. n
      /\ \A s \in 1 .. n : Sane(segments[s], U, from)
  BY DEF Whole
<1>2. /\ Recorded(U) /\ c \in ChunkType /\ ChunkEndTime(c) > from
  BY DEF Captured, Recorded
<1>3. Sane(segment, U, from) /\ EndsWith(segment, last, U)
  BY <1>1
<1>4. segment \in SegmentType /\ segment.generation = c.generation
  BY <1>3 DEF Sane, EndsWith, Continues
<1>5. Sane(Longer(segment, c), U, from) /\ EndsWith(Longer(segment, c), c, U)
  <2> HIDE DEF segment
  <2> QED BY <1>2, <1>3, LongerIsSane
<1>6. Longer(segment, c) \in SegmentType
  BY <1>5 DEF Sane
<1>7. more = [segments EXCEPT ![n] = Longer(segment, c)]
  BY DEF Longer
<1>8. /\ more \in Seq(SegmentType) /\ Len(more) = n
      /\ \A s \in 1 .. n : s # n => more[s] = segments[s]
      /\ more[n] = Longer(segment, c)
  <2>1. PICK x \in SegmentType : x = Longer(segment, c)
    BY <1>6
  <2>2. more = [segments EXCEPT ![n] = x]
    BY <1>7, <2>1
  <2> HIDE DEF more
  <2> QED BY <1>1, <2>1, <2>2
<1>9. LET longer == Longer(segment, c)
      IN  /\ Len(longer.audio) = Len(segment.audio) + FramesPerBuffer
          /\ \A k \in 1 .. Len(segment.audio) : longer.audio[k] = segment.audio[k]
          /\ \A m \in 1 .. FramesPerBuffer :
               longer.audio[Len(segment.audio) + m] = Frames(c)[m]
  <2> HIDE DEF segment
  <2> QED BY <1>2, <1>4, LongerIs
<1>10. Len(segment.audio) \in Nat /\ FramesPerBuffer \in Nat
  BY <1>4, SegmentTypes, AudioAssumption
<1> HIDE DEF more, n, segment
<1>11. Whole(more, U, from)
  <2>1. \A s \in 1 .. n : Sane(more[s], U, from)
    BY <1>1, <1>5, <1>8
  <2> QED BY <1>8, <2>1 DEF Whole
<1>12. ASSUME NEW frame, HasFrame(segments, frame) PROVE HasFrame(more, frame)
  <2>1. PICK s \in 1 .. n : \E k \in 1 .. Len(segments[s].audio) : segments[s].audio[k] = frame
    BY <1>12 DEF HasFrame, n
  <2>2. CASE s # n
    BY <1>8, <2>1, <2>2 DEF HasFrame
  <2>3. CASE s = n
    <3>1. PICK k \in 1 .. Len(segment.audio) : segment.audio[k] = frame
      BY <2>1, <2>3 DEF segment
    <3>2. k \in 1 .. Len(more[n].audio) /\ more[n].audio[k] = frame
      BY <1>8, <1>9, <1>10, <3>1
    <3> QED BY <1>1, <1>8, <3>2 DEF HasFrame
  <2> QED BY <2>2, <2>3
<1>13. ASSUME NEW m \in 1 .. FramesPerBuffer PROVE HasFrame(more, Frames(c)[m])
  <2>1. /\ Len(segment.audio) + m \in 1 .. Len(more[n].audio)
        /\ more[n].audio[Len(segment.audio) + m] = Frames(c)[m]
    <3>1. Len(segment.audio) + m \in 1 .. Len(segment.audio) + FramesPerBuffer
      BY <1>10
    <3>2. /\ Len(more[n].audio) = Len(segment.audio) + FramesPerBuffer
          /\ more[n].audio[Len(segment.audio) + m] = Frames(c)[m]
      BY <1>8, <1>9
    <3> QED BY <3>1, <3>2
  <2>2. n \in 1 .. Len(more)
    BY <1>1, <1>8
  <2> QED BY <2>1, <2>2 DEF HasFrame
<1>14. Len(more) >= 1 /\ EndsWith(more[Len(more)], c, U)
  BY <1>1, <1>5, <1>8
<1> QED BY <1>11, <1>12, <1>13, <1>14 DEF more, n

\* The chunk before one of the same device is directly before it.
LEMMA NextPrecedes ==
  ASSUME NEW U, Recorded(U), NEW i \in Nat, i >= 1, i + 1 <= Cardinality(U),
         InOrder(U)[i].generation = InOrder(U)[i + 1].generation
  PROVE  Precedes(InOrder(U)[i], InOrder(U)[i + 1], U)
<1> DEFINE n == Cardinality(U)
           last == InOrder(U)[i]
           c    == InOrder(U)[i + 1]
<1>1. n \in Nat /\ i \in 1 .. n /\ i + 1 \in 1 .. n /\ i < i + 1
  BY FS_CardinalityType DEF Recorded
<1>2. /\ \A j \in 1 .. n : InOrder(U)[j] \in U
      /\ \A d \in U : \E j \in 1 .. n : InOrder(U)[j] = d
      /\ \A j, k \in 1 .. n : j < k => Earlier(InOrder(U)[j], InOrder(U)[k])
  BY InOrderIs
<1>3. /\ \A d \in U : d.start_time \in Int /\ d.generation \in Nat
      /\ \A d, e \in U : d.generation = e.generation /\ d.start_time = e.start_time => d = e
      /\ \A d, e \in U : ~(Earlier(d, e) /\ Earlier(e, d))
  BY ChunkTypes, Periods, EarlierOrders DEF Recorded, ChunkType
<1>4. last \in U /\ c \in U /\ Earlier(last, c)
  BY <1>1, <1>2
<1>5. last.start_time < c.start_time
  BY <1>3, <1>4 DEF Earlier
<1>6. ASSUME NEW d \in U, d.generation = c.generation, d.start_time < c.start_time
      PROVE  d.start_time <= last.start_time
  <2>1. PICK j \in 1 .. n : InOrder(U)[j] = d
    BY <1>2
  <2>2. Earlier(d, c)
    BY <1>6 DEF Earlier
  <2>3. ~(i + 1 < j) /\ j # i + 1
    <3>1. ~Earlier(c, d)
      BY <1>3, <1>4, <2>2
    <3>2. c # d
      BY <1>3, <1>4, <1>6
    <3> QED BY <1>1, <1>2, <2>1, <3>1, <3>2
  <2>4. j < i \/ j = i
    BY <1>1, <2>3
  <2>5. d = last \/ Earlier(d, last)
    BY <1>1, <1>2, <2>1, <2>4
  <2> QED BY <1>3, <1>4, <2>5 DEF Earlier
<1> QED BY <1>5, <1>6 DEF Precedes

\* The segments of a window hold all its chunks.
LEMMA SegmentsAreWhole ==
  ASSUME NEW U, NEW from \in Int, Captured(U, from)
  PROVE  /\ Whole(ChunksToSegments(U), U, from)
         /\ \A c \in U : \A m \in 1 .. FramesPerBuffer :
              HasFrame(ChunksToSegments(U), Frames(c)[m])
<1> DEFINE n == Cardinality(U)
           O == InOrder(U)
           after == SegmentsAfter(O, n)
           Good(i) ==
              /\ Whole(after[i], U, from)
              /\ i >= 1 => Len(after[i]) >= 1 /\ EndsWith(after[i][Len(after[i])], O[i], U)
              /\ \A j \in 1 .. i : \A m \in 1 .. FramesPerBuffer :
                    HasFrame(after[i], Frames(O[j])[m])
           S == {i \in Nat : i <= n => Good(i)}
<1>1. Recorded(U) /\ n \in Nat
  BY FS_CardinalityType DEF Captured, Recorded
<1>2. /\ after[0] = <<>>
      /\ \A i \in 1 .. n : after[i] = AddChunk(after[i - 1], O[Larger(1, i - 1)], O[i])
  BY <1>1, SegmentsExist
<1>3. /\ \A j \in 1 .. n : O[j] \in U
      /\ \A d \in U : \E j \in 1 .. n : O[j] = d
  BY <1>1, InOrderIs
<1>4. \A i \in Nat : i >= 1 /\ i + 1 <= n /\ O[i].generation = O[i + 1].generation
                       => Precedes(O[i], O[i + 1], U)
  BY <1>1, NextPrecedes
<1> HIDE DEF n, O, after
<1>5. Good(0)
  <2>1. Whole(<<>>, U, from)
    BY DEF Whole
  <2> QED BY <1>2, <2>1
<1>6. ASSUME NEW i \in Nat, i + 1 <= n, Good(i) PROVE Good(i + 1)
  <2>1. i + 1 \in 1 .. n /\ (i + 1) - 1 = i /\ O[i + 1] \in U
    BY <1>1, <1>3, <1>6
  <2> DEFINE last == O[Larger(1, i)]
             c    == O[i + 1]
  <2>2. after[i + 1] = AddChunk(after[i], last, c)
    BY <1>2, <2>1
  <2>3. i >= 1 => last = O[i]
    BY DEF Larger
  <2>4. /\ Whole(after[i + 1], U, from)
        /\ Len(after[i + 1]) >= 1 /\ EndsWith(after[i + 1][Len(after[i + 1])], c, U)
        /\ \A frame : HasFrame(after[i], frame) => HasFrame(after[i + 1], frame)
        /\ \A m \in 1 .. FramesPerBuffer : HasFrame(after[i + 1], Frames(c)[m])
    <3>1. CASE after[i] # <<>> /\ Continues(last, c)
      <4>1. i >= 1
        BY <1>2, <3>1
      <4>2. last = O[i] /\ last \in U /\ Precedes(last, c, U)
        <5>1. last = O[i] /\ i \in 1 .. n
          BY <1>1, <1>6, <2>3, <4>1
        <5> QED BY <1>3, <1>4, <1>6, <3>1, <4>1, <5>1 DEF Continues
      <4>3. after[i + 1] = [after[i] EXCEPT ![Len(after[i])].audio = @ \o Frames(c)]
        BY <2>2, <3>1 DEF AddChunk
      <4>4. Whole(after[i], U, from) /\ Len(after[i]) >= 1
            /\ EndsWith(after[i][Len(after[i])], last, U)
        BY <1>6, <4>1, <4>2
      <4>5. c \in U /\ Continues(last, c)
        BY <2>1, <3>1
      <4> HIDE DEF last, c
      <4>6. PICK segments : segments = after[i]
        OBVIOUS
      <4> DEFINE more == [segments EXCEPT ![Len(segments)].audio = @ \o Frames(c)]
      <4>7. /\ Whole(segments, U, from) /\ Len(segments) >= 1
            /\ EndsWith(segments[Len(segments)], last, U)
        BY <4>4, <4>6
      <4>8. /\ Whole(more, U, from) /\ Len(more) >= 1 /\ EndsWith(more[Len(more)], c, U)
            /\ \A frame : HasFrame(segments, frame) => HasFrame(more, frame)
            /\ \A m \in 1 .. FramesPerBuffer : HasFrame(more, Frames(c)[m])
        BY <4>2, <4>5, <4>7, ContinuesSegment
      <4>9. after[i + 1] = more
        BY <4>3, <4>6
      <4> HIDE DEF more
      <4> QED BY <4>6, <4>8, <4>9
    <3>2. CASE ~(after[i] # <<>> /\ Continues(last, c))
      <4>1. after[i + 1] = Append(after[i], SegmentOf(c))
        BY <2>2, <3>2 DEF AddChunk
      <4>2. Whole(after[i], U, from)
        BY <1>6
      <4> HIDE DEF last, c
      <4> QED BY <2>1, <4>1, <4>2, BeginsSegment DEF c
    <3> QED BY <3>1, <3>2
  <2>5. ASSUME NEW j \in 1 .. i + 1, NEW m \in 1 .. FramesPerBuffer
        PROVE  HasFrame(after[i + 1], Frames(O[j])[m])
    <3>1. j \in 1 .. i \/ j = i + 1
      OBVIOUS
    <3> QED BY <1>6, <2>4, <3>1
  <2> QED BY <2>4, <2>5
<1> HIDE DEF Good
<1>7. S = Nat
  <2>1. \A i \in S : i + 1 \in S
    <3> SUFFICES ASSUME NEW i \in S, i + 1 <= n PROVE Good(i + 1)
      OBVIOUS
    <3>1. i \in Nat /\ Good(i)
      BY <1>1
    <3> QED BY <1>6, <3>1
  <2>2. S \subseteq Nat /\ 0 \in S
    BY <1>5
  <2> HIDE DEF S
  <2> QED BY <2>1, <2>2, SetInduction
<1>8. Good(n)
  BY <1>1, <1>7
<1>9. after[n] = ChunksToSegments(U)
  BY DEF ChunksToSegments, after, O, n
<1>10. \A c \in U : \A m \in 1 .. FramesPerBuffer : HasFrame(after[n], Frames(c)[m])
  BY <1>3, <1>8 DEF Good
<1> QED BY <1>8, <1>9, <1>10 DEF Good

(***************************************************************************)
(* Rounding and resampling.                                                *)
(***************************************************************************)
\* Products keep the order of what is multiplied.
LEMMA Scales ==
  ASSUME NEW q \in Nat, q >= 1, NEW a \in Int, NEW b \in Int
  PROVE  /\ q * a \in Int /\ q * b \in Int
         /\ a <= b => q * a <= q * b
         /\ a < b => q * a + q <= q * b
         /\ q * a <= q * b => a <= b
         /\ q * a < q * b => a < b
<1>1. q * a \in Int /\ q * b \in Int
  OBVIOUS
<1>2. ASSUME NEW x \in Int, NEW y \in Int, x <= y PROVE q * x <= q * y
  <2>1. PICK d \in Nat : d = y - x /\ y = x + d
    BY <1>2
  <2>2. q * d >= 0 /\ q * (x + d) = q * x + q * d /\ q * d \in Int /\ q * x \in Int
    OBVIOUS
  <2> QED BY <2>1, <2>2
<1>3. ASSUME NEW x \in Int, NEW y \in Int, x < y PROVE q * x + q <= q * y
  <2>1. x + 1 <= y /\ x + 1 \in Int
    BY <1>3
  <2>2. q * (x + 1) <= q * y
    BY <1>2, <2>1
  <2>3. q * (x + 1) = q * x + q
    OBVIOUS
  <2> QED BY <2>2, <2>3
<1>4. q * a <= q * b => a <= b
  <2> SUFFICES ASSUME q * a <= q * b, b < a PROVE FALSE
    OBVIOUS
  <2>1. q * b + q <= q * a
    BY <1>3
  <2> QED BY <1>1, <2>1
<1>5. q * a < q * b => a < b
  <2> SUFFICES ASSUME q * a < q * b, b <= a PROVE FALSE
    OBVIOUS
  <2>1. q * b <= q * a
    BY <1>2
  <2> QED BY <1>1, <2>1
<1> QED BY <1>1, <1>2, <1>3, <1>4, <1>5

LEMMA Multiplied ==
  ASSUME NEW q \in Nat, NEW a \in Int, NEW b \in Int, a <= b
  PROVE  q * a <= q * b
<1>1. PICK d \in Nat : d = b - a /\ b = a + d
  OBVIOUS
<1>2. q * d >= 0 /\ q * (a + d) = q * a + q * d /\ q * d \in Int /\ q * a \in Int
  OBVIOUS
<1> QED BY <1>1, <1>2

\* What is rounded to a multiple is off by half of one at most, and a multiple is exact.
LEMMA RoundNear ==
  ASSUME NEW x \in Int, NEW q \in Nat, q >= 1
  PROVE  /\ Round(x, q) \in Int /\ q * Round(x, q) \in Int
         /\ 2 * (q * Round(x, q)) <= 2 * x + q
         /\ 2 * x <= 2 * (q * Round(x, q)) + q
         /\ \A m \in Int : x = q * m => Round(x, q) = m
<1>1. PICK d \in Int, r \in Int : d = x \div q /\ r = x % q /\ r >= 0 /\ r < q /\ x = q * d + r
  <2>1. x \div q \in Int /\ x % q \in 0 .. q - 1 /\ x = q * (x \div q) + (x % q)
    OBVIOUS
  <2> QED BY <2>1
<1>2. Round(x, q) = IF 2 * r > q \/ (2 * r = q /\ d % 2 = 1) THEN d + 1 ELSE d
  BY <1>1 DEF Round
<1>3. PICK R \in Int : R = Round(x, q)
  BY <1>2
<1>4. \/ R = d + 1 /\ 2 * r >= q
      \/ R = d /\ 2 * r <= q
  <2>1. d % 2 \in {0, 1}
    OBVIOUS
  <2>2. CASE 2 * r > q
    BY <1>2, <1>3, <2>2
  <2>3. CASE 2 * r <= q
    BY <1>2, <1>3, <2>3
  <2> QED BY <2>2, <2>3
<1>5. q * (d + 1) = q * d + q /\ q * d \in Int /\ q * R \in Int
  OBVIOUS
<1>6. 2 * (q * R) <= 2 * x + q /\ 2 * x <= 2 * (q * R) + q
  <2>1. PICK y \in Int : y = q * d
    BY <1>5
  <2>2. x = y + r
    BY <1>1, <2>1
  <2>3. CASE R = d + 1 /\ 2 * r >= q
    <3>1. q * R = y + q
      BY <1>5, <2>1, <2>3
    <3> QED BY <1>1, <2>2, <2>3, <3>1
  <2>4. CASE R = d /\ 2 * r <= q
    <3>1. q * R = y
      BY <2>1, <2>4
    <3> QED BY <1>1, <2>2, <2>4, <3>1
  <2> QED BY <1>4, <2>3, <2>4
<1>7. ASSUME NEW m \in Int, x = q * m PROVE R = m
  <2>1. q * m = q * d + r /\ q * m \in Int
    BY <1>1, <1>7
  <2>2. ~(m < d)
    BY <1>1, <1>5, <2>1, Scales
  <2>3. ~(d < m)
    BY <1>1, <1>5, <2>1, Scales
  <2>4. m = d
    BY <2>2, <2>3
  <2>5. r = 0
    BY <1>1, <1>5, <2>1, <2>4
  <2> QED BY <1>4, <2>4, <2>5
<1> QED BY <1>3, <1>5, <1>6, <1>7

\* What division leaves.
LEMMA Divides ==
  ASSUME NEW a \in Nat, NEW q \in Nat, q >= 1
  PROVE  /\ a \div q \in Nat /\ q * (a \div q) \in Nat
         /\ q * (a \div q) <= a /\ a < q * (a \div q) + q
<1>1. /\ a \div q \in Int /\ a = q * (a \div q) + (a % q) /\ a % q \in 0 .. q - 1
  OBVIOUS
<1>2. PICK d \in Int, r \in Int : d = a \div q /\ a = q * d + r /\ r >= 0 /\ r < q
  BY <1>1
<1>3. d >= 0
  <2> SUFFICES ASSUME d < 0 PROVE FALSE
    OBVIOUS
  <2>1. q * d + q <= q * 0 /\ q * 0 = 0 /\ q * d \in Int
    BY Scales
  <2> QED BY <1>2, <2>1
<1>4. q * d >= 0 /\ q * d \in Int
  BY <1>3
<1> QED BY <1>2, <1>3, <1>4

\* L frames of period P are resampled to F of period Q: from the first frame to the
\* last passes the same time, but for the rounding of the length and a frame of each.
LEMMA LengthIs ==
  ASSUME NEW P \in Nat, P >= 1, NEW Q \in Nat, Q >= 1, NEW L \in Nat, L >= 1,
         NEW F, F = Larger(1, Round(L * P, Q))
  PROVE  /\ F \in Nat /\ F >= 1
         /\ 2 * ((L - 1) * P) <= 2 * ((F - 1) * Q) + 3 * Q - 2 * P
         /\ F >= 2 => 2 * ((F - 1) * Q) + Q - 2 * P <= 2 * ((L - 1) * P)
         /\ Q <= P => L <= F
<1>1. PICK x \in Nat : x = L * P
  OBVIOUS
<1>2. PICK R \in Int : R = Round(x, Q)
  <2>1. Round(x, Q) \in Int
    BY RoundNear
  <2> QED BY <2>1
<1>3. Q * R \in Int /\ 2 * (Q * R) <= 2 * x + Q /\ 2 * x <= 2 * (Q * R) + Q
  BY <1>2, RoundNear
<1>4. F = IF 1 > R THEN 1 ELSE R
  BY <1>1, <1>2 DEF Larger
<1>5. F \in Nat /\ F >= 1 /\ R <= F
  BY <1>4
<1>6. (L - 1) * P = x - P /\ (F - 1) * Q = Q * F - Q /\ Q * F \in Int
  BY <1>1, <1>5
<1>7. Q * R <= Q * F
  BY <1>5, Scales
<1>8. 2 * ((L - 1) * P) <= 2 * ((F - 1) * Q) + 3 * Q - 2 * P
  BY <1>3, <1>6, <1>7
<1>9. ASSUME F >= 2 PROVE 2 * ((F - 1) * Q) + Q - 2 * P <= 2 * ((L - 1) * P)
  <2>1. R = F
    BY <1>4, <1>9
  <2>2. Q * R = Q * F
    BY <2>1
  <2>3. 2 * (Q * F) <= 2 * x + Q
    BY <1>3, <2>2
  <2> QED BY <1>6, <2>3
<1>10. ASSUME Q <= P PROVE L <= F
  <2> SUFFICES ASSUME F < L PROVE FALSE
    BY <1>5
  <2>1. Q * F + Q <= Q * L /\ Q * L \in Int
    BY <1>5, Scales
  <2>2. L * Q <= L * P /\ L * Q = Q * L
    BY <1>10, Scales
  <2> QED BY <1>1, <1>3, <1>6, <1>7, <2>1, <2>2
<1> QED BY <1>5, <1>8, <1>9, <1>10

\* The frame taken for the j-th place of the output, from 0.
Spread(L, F, j) == ((j - 1) * (L - 1)) \div Larger(1, F - 1)

\* Twice the time it may be after the place, and before it.
HeardBefore(P, Q) == Larger(0, 3 * Q - 2 * P)
HeardAfter(P, Q) == Larger(2 * P, 4 * P - Q)

\* The places of the output, but the first.
LEMMA SpreadDivides ==
  ASSUME NEW L \in Nat, L >= 1, NEW F \in Nat, NEW N \in Nat, N >= 1, F = N + 1,
         NEW x \in 0 .. N
  PROVE  /\ Spread(L, F, x + 1) \in Nat
         /\ N * Spread(L, F, x + 1) <= x * (L - 1)
         /\ x * (L - 1) < N * Spread(L, F, x + 1) + N
<1>1. PICK a \in Nat : a = x * (L - 1)
  BY Scales
<1>2. Larger(1, F - 1) = N /\ (x + 1) - 1 = x
  BY DEF Larger
<1>3. Spread(L, F, x + 1) = a \div N
  BY <1>1, <1>2 DEF Spread
<1> QED BY <1>1, <1>3, Divides

LEMMA SpreadFirst ==
  ASSUME NEW L \in Nat
  PROVE  Spread(L, 1, 1) = 0
<1>1. (1 - 1) * (L - 1) = 0 /\ 0 \div 1 = 0
  OBVIOUS
<1>2. Larger(1, 1 - 1) = 1
  BY DEF Larger
<1> QED BY <1>1, <1>2 DEF Spread

\* It is no further from it.
LEMMA SpreadIs ==
  ASSUME NEW P \in Nat, P >= 1, NEW Q \in Nat, Q >= 1, NEW L \in Nat, L >= 1,
         NEW F, F = Larger(1, Round(L * P, Q)), NEW j \in 1 .. F
  PROVE  /\ Spread(L, F, j) \in 0 .. L - 1
         /\ 2 * (Spread(L, F, j) * P) <= 2 * ((j - 1) * Q) + HeardBefore(P, Q)
         /\ 2 * ((j - 1) * Q) <= 2 * (Spread(L, F, j) * P) + HeardAfter(P, Q)
<1>1. /\ F \in Nat /\ F >= 1
      /\ 2 * ((L - 1) * P) <= 2 * ((F - 1) * Q) + 3 * Q - 2 * P
      /\ F >= 2 => 2 * ((F - 1) * Q) + Q - 2 * P <= 2 * ((L - 1) * P)
  <2>1. PICK G : G = F /\ G = Larger(1, Round(L * P, Q))
    OBVIOUS
  <2>2. /\ G \in Nat /\ G >= 1
        /\ 2 * ((L - 1) * P) <= 2 * ((G - 1) * Q) + 3 * Q - 2 * P
        /\ G >= 2 => 2 * ((G - 1) * Q) + Q - 2 * P <= 2 * ((L - 1) * P)
    BY <2>1, LengthIs
  <2> QED BY <2>1, <2>2
<1>2. PICK A \in Nat, C \in Nat :
        /\ A = HeardBefore(P, Q) /\ 3 * Q - 2 * P <= A
        /\ HeardAfter(P, Q) = 2 * P + C /\ 2 * P - Q <= C
  <2>1. Larger(0, 3 * Q - 2 * P) \in Nat /\ 3 * Q - 2 * P <= Larger(0, 3 * Q - 2 * P)
    BY DEF Larger
  <2>2. Larger(2 * P, 4 * P - Q) - 2 * P \in Nat
        /\ 2 * P - Q <= Larger(2 * P, 4 * P - Q) - 2 * P
    BY DEF Larger
  <2>3. PICK b \in Int : b = Larger(2 * P, 4 * P - Q)
    <3>1. Larger(2 * P, 4 * P - Q) \in Int
      BY DEF Larger
    <3> QED BY <3>1
  <2>4. b = 2 * P + (b - 2 * P)
    OBVIOUS
  <2> QED BY <2>1, <2>2, <2>3, <2>4 DEF HeardBefore, HeardAfter
<1>3. CASE F = 1
  <2>1. j = 1 /\ (j - 1) * Q = 0 /\ 0 * P = 0
    BY <1>3
  <2>2. Spread(L, F, j) = 0
    BY <1>3, <2>1, SpreadFirst
  <2> QED BY <1>2, <2>1, <2>2
<1>4. CASE F >= 2
  <2>1. PICK M \in Nat, N \in Nat, x \in Nat :
          M = L - 1 /\ N = F - 1 /\ x = j - 1 /\ x <= N /\ N >= 1 /\ F = N + 1 /\ j = x + 1
    <3>1. PICK M \in Nat, N \in Nat, x \in Nat : M = L - 1 /\ N = F - 1 /\ x = j - 1
      <4>1. L - 1 \in Nat /\ F - 1 \in Nat /\ j - 1 \in Nat
        BY <1>1, <1>4
      <4> QED BY <4>1
    <3>2. x <= N /\ N >= 1 /\ F = N + 1 /\ j = x + 1
      BY <1>1, <1>4, <3>1
    <3> QED BY <3>1, <3>2
  <2>2. PICK d \in Nat : d = Spread(L, F, j) /\ N * d <= x * M /\ x * M < N * d + N
    <3>1. x \in 0 .. N
      BY <2>1
    <3>2. /\ Spread(L, F, x + 1) \in Nat
          /\ N * Spread(L, F, x + 1) <= x * (L - 1)
          /\ x * (L - 1) < N * Spread(L, F, x + 1) + N
      BY <1>1, <2>1, <3>1, SpreadDivides
    <3> QED BY <2>1, <3>2
  <2>3. x * M <= N * M
    <3>1. M * x <= M * N
      BY <2>1, Multiplied
    <3> QED BY <3>1
  <2>4. d <= M
    <3>1. N * d <= N * M
      BY <2>2, <2>3
    <3> QED BY <2>1, <3>1, Scales
  <2>5. PICK m \in Nat, n \in Nat : m = M * P /\ n = N * Q
    OBVIOUS
  <2>6. 2 * m <= 2 * n + 3 * Q - 2 * P /\ 2 * n + Q - 2 * P <= 2 * m
    BY <1>1, <1>4, <2>1, <2>5
  <2>7. 2 * (d * P) <= 2 * (x * Q) + A
    <3>1. N * (2 * (d * P)) <= N * (2 * (x * Q) + A)
      <4>1. N * (2 * (d * P)) <= x * (2 * m)
        <5>1. P * (N * d) <= P * (x * M)
          BY <2>2, Multiplied
        <5>2. N * (2 * (d * P)) = 2 * (P * (N * d)) /\ x * (2 * m) = 2 * (P * (x * M))
          BY <2>5
        <5> QED BY <5>1, <5>2
      <4>2. x * (2 * m) <= x * (2 * n + A)
        BY <1>2, <2>6, Multiplied
      <4>3. x * (2 * n + A) = N * (2 * (x * Q)) + x * A
        BY <2>5
      <4>4. A * x <= A * N
        BY <2>1, Multiplied
      <4>5. N * (2 * (x * Q) + A) = N * (2 * (x * Q)) + A * N
        OBVIOUS
      <4>6. x * A = A * x
        OBVIOUS
      <4> QED BY <4>1, <4>2, <4>3, <4>4, <4>5, <4>6
    <3> QED BY <2>1, <3>1, Scales
  <2>8. 2 * (x * Q) <= 2 * (d * P) + 2 * P + C
    <3>1. N * (2 * (x * Q)) <= N * (2 * (d * P) + 2 * P + C)
      <4>1. x * (2 * m) <= N * (2 * (d * P) + 2 * P)
        <5>1. P * (x * M) <= P * (N * d + N)
          BY <2>2, Multiplied
        <5>2. /\ N * (2 * (d * P) + 2 * P) = 2 * (P * (N * d + N))
              /\ x * (2 * m) = 2 * (P * (x * M))
          BY <2>5
        <5> QED BY <5>1, <5>2
      <4>2. x * (2 * n) <= x * (2 * m + C)
        BY <1>2, <2>6, Multiplied
      <4>3. x * (2 * n) = N * (2 * (x * Q)) /\ x * (2 * m + C) = x * (2 * m) + C * x
        BY <2>5
      <4>4. C * x <= C * N
        BY <2>1, Multiplied
      <4>5. N * (2 * (d * P) + 2 * P + C) = N * (2 * (d * P) + 2 * P) + C * N
        OBVIOUS
      <4> QED BY <4>1, <4>2, <4>3, <4>4, <4>5
    <3> QED BY <2>1, <3>1, Scales
  <2> QED BY <1>2, <2>1, <2>2, <2>4, <2>7, <2>8
<1> QED BY <1>1, <1>3, <1>4

\* A frame (from 0) is taken, or one that is no later and close; itself where the
\* output has as many.
Covered(P, Q, L, F, k) ==
    \E j \in 1 .. F :
        /\ Spread(L, F, j) <= k
        /\ 2 * ((k - Spread(L, F, j)) * P) <= Larger(2 * Q, 5 * Q - 4 * P)
        /\ Q <= P => Spread(L, F, j) = k

\* So is every frame.
LEMMA SpreadCovers ==
  ASSUME NEW P \in Nat, P >= 1, NEW Q \in Nat, Q >= 1, NEW L \in Nat, L >= 1,
         NEW F, F = Larger(1, Round(L * P, Q)), NEW k \in 0 .. L - 1
  PROVE  Covered(P, Q, L, F, k)
<1> SUFFICES \E j \in 1 .. F :
                /\ Spread(L, F, j) <= k
                /\ 2 * ((k - Spread(L, F, j)) * P) <= Larger(2 * Q, 5 * Q - 4 * P)
                /\ Q <= P => Spread(L, F, j) = k
  BY DEF Covered
<1>1. /\ F \in Nat /\ F >= 1
      /\ 2 * ((L - 1) * P) <= 2 * ((F - 1) * Q) + 3 * Q - 2 * P
      /\ Q <= P => L <= F
  BY LengthIs
<1>2. PICK E \in Nat : Larger(2 * Q, 5 * Q - 4 * P) = 2 * Q + E /\ 3 * Q - 4 * P <= E
  <2>1. Larger(2 * Q, 5 * Q - 4 * P) - 2 * Q \in Nat
        /\ 3 * Q - 4 * P <= Larger(2 * Q, 5 * Q - 4 * P) - 2 * Q
    BY DEF Larger
  <2>2. PICK b \in Int : b = Larger(2 * Q, 5 * Q - 4 * P)
    <3>1. Larger(2 * Q, 5 * Q - 4 * P) \in Int
      BY DEF Larger
    <3> QED BY <3>1
  <2>3. b = 2 * Q + (b - 2 * Q)
    OBVIOUS
  <2> QED BY <2>1, <2>2, <2>3
<1>3. PICK M \in Nat : M = L - 1 /\ k <= M /\ k \in Nat
  BY LengthIs
<1>4. CASE F = 1
  <2>1. Spread(L, F, 1) = 0 /\ (F - 1) * Q = 0 /\ k - 0 = k
    BY <1>3, <1>4, SpreadFirst
  <2>2. k * P <= M * P
    <3>1. P * k <= P * M
      BY <1>3, Multiplied
    <3> QED BY <1>3, <3>1
  <2>3. 2 * (k * P) <= 2 * Q + E
    <3>1. 2 * (M * P) <= 3 * Q - 2 * P
      BY <1>1, <1>3, <2>1
    <3>2. 3 * Q - 2 * P <= 2 * Q + E
      BY <1>2
    <3>3. k * P \in Int /\ M * P \in Int
      BY <1>3
    <3> QED BY <2>2, <3>1, <3>2, <3>3
  <2>4. Q <= P => k = 0
    BY <1>1, <1>3, <1>4
  <2>5. 1 \in 1 .. F /\ 0 <= k
    BY <1>3, <1>4
  <2> QED BY <1>2, <2>1, <2>3, <2>4, <2>5
<1>5. CASE F >= 2
  <2>1. PICK N \in Nat : N = F - 1 /\ N >= 1 /\ F = N + 1
    <3>1. F - 1 \in Nat
      BY <1>1, <1>5
    <3> QED BY <1>1, <1>5, <3>1
  <2>2. ASSUME NEW x \in 0 .. N, NEW y \in Nat, y = k - Spread(L, F, x + 1),
               2 * (y * P) <= 2 * Q + E, Q <= P => y = 0
        PROVE  \E j \in 1 .. F :
                  /\ Spread(L, F, j) <= k
                  /\ 2 * ((k - Spread(L, F, j)) * P) <= Larger(2 * Q, 5 * Q - 4 * P)
                  /\ Q <= P => Spread(L, F, j) = k
    <3>1. PICK d \in Nat : d = Spread(L, F, x + 1)
      BY <1>1, <2>1, SpreadDivides
    <3>2. PICK j \in 1 .. F : j = x + 1
      BY <2>1
    <3>3. y = k - d /\ Spread(L, F, j) = d
      BY <2>2, <3>1, <3>2
    <3>4. d <= k /\ (y = 0 => d = k)
      BY <1>3, <3>3
    <3> QED BY <1>2, <2>2, <3>2, <3>3, <3>4
  <2>3. CASE k = M
    <3>1. N \in 0 .. N
      OBVIOUS
    <3>2. PICK d \in Nat : d = Spread(L, F, N + 1) /\ N * d <= N * M /\ N * M < N * d + N
      BY <1>1, <1>3, <2>1, <3>1, SpreadDivides
    <3>3. d <= M
      BY <2>1, <3>2, Scales
    <3>4. ~(d < M)
      BY <2>1, <3>2, Scales
    <3>5. PICK y \in Nat : y = 0 /\ y = k - d
      BY <2>3, <3>3, <3>4
    <3>6. 2 * (y * P) <= 2 * Q + E
      BY <3>5
    <3>7. y = k - Spread(L, F, N + 1) /\ (Q <= P => y = 0)
      BY <3>2, <3>5
    <3> QED BY <2>2, <3>1, <3>6, <3>7
  <2>4. CASE k # M
    <3>1. k + 1 <= M /\ M >= 1 /\ k + 1 \in Nat
      BY <1>3, <2>4
    <3>2. PICK b \in Nat : b = N * (k + 1) /\ b >= 1
      <4>1. N * 0 + N <= N * (k + 1) /\ N * 0 = 0
        BY <2>1, <3>1, Scales
      <4>2. N * (k + 1) \in Nat
        BY <3>1
      <4> QED BY <2>1, <4>1, <4>2
    <3>3. PICK x \in Nat : M * x <= b - 1 /\ b - 1 < M * x + M /\ M * x \in Nat
      <4>1. b - 1 \in Nat
        BY <3>2
      <4> QED BY <3>1, <4>1, Divides
    <3>4. x < N
      <4>1. N * (k + 1) <= N * M
        BY <2>1, <3>1, Scales
      <4>2. M * x < M * N
        <5>1. N * M = M * N
          OBVIOUS
        <5> QED BY <3>2, <3>3, <4>1, <5>1
      <4> QED BY <3>1, <4>2, Scales
    <3>5. x \in 0 .. N
      BY <3>4
    <3>6. PICK d \in Nat : d = Spread(L, F, x + 1) /\ N * d <= x * M /\ x * M < N * d + N
      BY <1>1, <1>3, <2>1, <3>5, SpreadDivides
    <3>7. x * M = M * x /\ N * d \in Int
      OBVIOUS
    <3>8. d <= k
      <4>1. N * d < N * (k + 1)
        BY <3>2, <3>3, <3>6, <3>7
      <4>2. d < k + 1
        BY <2>1, <3>1, <4>1, Scales
      <4> QED BY <1>3, <4>2
    <3>9. PICK y \in Nat : y = k - d
      BY <1>3, <3>8
    <3>10. N * y <= M - 1
      <4>1. N * y = N * (k + 1) - N * d - N
        BY <1>3, <3>9
      <4> QED BY <3>2, <3>3, <3>6, <3>7, <4>1
    <3>11. 2 * (y * P) <= 2 * Q + E
      <4>1. N * (2 * (y * P)) <= N * (2 * Q + E)
        <5>1. P * (N * y) <= P * (M - 1)
          BY <3>10, Multiplied
        <5>2. N * (2 * (y * P)) = 2 * (P * (N * y)) /\ P * (M - 1) = M * P - P
              /\ N * (2 * Q + E) = 2 * (N * Q) + E * N
          OBVIOUS
        <5>3. 2 * (M * P) <= 2 * (N * Q) + 3 * Q - 2 * P
          BY <1>1, <1>3, <2>1
        <5>4. E * 1 <= E * N /\ E * 1 = E
          BY <2>1, Multiplied
        <5>5. PICK m \in Int, n \in Int, z \in Int, w \in Int :
                m = M * P /\ n = N * Q /\ z = P * (N * y) /\ w = E * N
          OBVIOUS
        <5>6. z <= m - P /\ 2 * m <= 2 * n + 3 * Q - 2 * P /\ E <= w
          BY <5>1, <5>2, <5>3, <5>4, <5>5
        <5>7. 2 * z <= 2 * n + w
          BY <1>2, <5>6
        <5> QED BY <5>2, <5>5, <5>7
      <4>2. 2 * (y * P) \in Int /\ 2 * Q + E \in Int
        OBVIOUS
      <4> QED BY <2>1, <4>1, <4>2, Scales
    <3>12. ASSUME Q <= P PROVE y = 0
      <4>1. M <= N
        BY <1>1, <1>3, <2>1, <3>12
      <4>2. N * y < N * 1
        <5>1. N * 1 = N /\ N * y \in Int
          OBVIOUS
        <5> QED BY <3>10, <4>1, <5>1
      <4>3. y < 1
        BY <2>1, <4>2, Scales
      <4> QED BY <4>3
    <3>13. y = k - Spread(L, F, x + 1)
      BY <3>6, <3>9
    <3> QED BY <2>2, <3>5, <3>11, <3>12, <3>13
  <2> QED BY <2>3, <2>4
<1> QED BY <1>1, <1>4, <1>5

\* What is heard of a part: its frames, or some of them.
LEMMA ResampleIs ==
  ASSUME NEW g \in Generations, NEW audio \in Seq(SoundType), Len(audio) >= 1
  PROVE  /\ ~Resampled(g) => Resample(g, audio) = audio
         /\ Resampled(g) =>
              LET F == Larger(1, Round(Len(audio) * Period[g], OutPeriod))
              IN  /\ DOMAIN Resample(g, audio) = 1 .. F
                  /\ \A j \in 1 .. F :
                        Resample(g, audio)[j] = audio[1 + Spread(Len(audio), F, j)]
BY DEF Resample, Spread, Resampled

(***************************************************************************)
(* Cutting and rendering.                                                  *)
(***************************************************************************)
\* No more than half of h off.
Within(e, h) == -h <= 2 * e /\ 2 * e <= h

\* The frame a time inside a segment is cut at is off by half a frame, and not
\* at all where the segment begins or ends.
LEMMA FrameAtIs ==
  ASSUME NEW segment \in SegmentType, NEW time \in Int,
         segment.start_time <= time, time <= End(segment)
  PROVE  LET n == Len(segment.audio)
             f == FrameAt(segment, time)
             e == segment.start_time + Ticks(segment.generation, f) - time
         IN  /\ f \in 0 .. n
             /\ Within(e, Period[segment.generation])
             /\ time = segment.start_time => f = 0
             /\ time = End(segment) => f = n
<1>1. /\ segment.generation \in Generations /\ segment.start_time \in Int
      /\ Len(segment.audio) \in Nat /\ End(segment) \in Int
  BY SegmentTypes
<1>2. PICK n \in Nat, s \in Int, x \in Int, p \in Nat :
        /\ n = Len(segment.audio) /\ s = segment.start_time /\ x = time - segment.start_time
        /\ p = Period[segment.generation] /\ p >= 1
  <2>1. PICK p \in Nat : p = Period[segment.generation] /\ p >= 1
    BY <1>1, Periods
  <2>2. PICK n \in Nat, s \in Int : n = Len(segment.audio) /\ s = segment.start_time
    BY <1>1
  <2>3. PICK x \in Int : x = time - segment.start_time
    BY <1>1
  <2> QED BY <2>1, <2>2, <2>3
<1>17. p >= 1
  BY <1>2
<1> DEFINE f == FrameAt(segment, time)
<1>3. PICK r \in Int : r = Round(x, p)
  <2>1. Round(x, p) \in Int
    BY <1>17, RoundNear
  <2> QED BY <2>1
<1>4. f = Larger(0, Smaller(n, r))
  BY <1>2, <1>3 DEF FrameAt
<1>5. PICK y \in Int, z \in Int : y = p * r /\ z = p * n
  OBVIOUS
<1>6. 2 * y <= 2 * x + p /\ 2 * x <= 2 * y + p
  <2>1. /\ 2 * (p * Round(x, p)) <= 2 * x + p
        /\ 2 * x <= 2 * (p * Round(x, p)) + p
    BY <1>17, RoundNear
  <2> QED BY <1>3, <1>5, <2>1
<1>18. \A m \in Int : x = p * m => r = m
  <2>1. \A m \in Int : x = p * m => Round(x, p) = m
    BY <1>17, RoundNear
  <2> QED BY <1>3, <2>1
<1> HIDE DEF f
<1>7. End(segment) = s + z
  <2>1. End(segment) = s + n * p
    BY <1>2 DEF End
  <2>2. n * p = p * n
    OBVIOUS
  <2> QED BY <1>5, <2>1, <2>2
<1>8. x = time - s /\ 0 <= x /\ x <= z
  <2>1. s <= time /\ time <= s + z /\ x = time - s
    BY <1>2, <1>7
  <2> QED BY <1>5, <2>1
<1>9. r >= 0
  <2> SUFFICES ASSUME r < 0 PROVE FALSE
    OBVIOUS
  <2>1. p * r + p <= p * 0
    BY <1>17, Scales
  <2>2. y + p <= 0
    <3>1. p * 0 = 0
      OBVIOUS
    <3> QED BY <1>5, <2>1, <3>1
  <2> QED BY <1>6, <1>8, <1>17, <2>2
<1>10. r <= n
  <2> SUFFICES ASSUME n < r PROVE FALSE
    OBVIOUS
  <2>1. p * n + p <= p * r
    BY <1>17, Scales
  <2>2. z + p <= y
    BY <1>5, <2>1
  <2> QED BY <1>6, <1>8, <1>17, <2>2
<1>11. f = r
  BY <1>4, <1>9, <1>10 DEF Larger, Smaller
<1>12. Ticks(segment.generation, f) = y
  <2>1. r * p = p * r
    OBVIOUS
  <2> QED BY <1>2, <1>5, <1>11, <2>1 DEF Ticks
<1>13. Within(s + y - time, p)
  <2>1. s + y - time = y - x
    BY <1>8
  <2>2. -p <= 2 * (y - x) /\ 2 * (y - x) <= p
    BY <1>6
  <2> QED BY <2>1, <2>2 DEF Within
<1>14. time = s => r = 0
  <2>1. p * 0 = 0
    OBVIOUS
  <2> QED BY <1>8, <1>18, <2>1
<1>15. time = s + z => r = n
  BY <1>5, <1>8, <1>18
<1>16. f \in 0 .. n
  BY <1>9, <1>10, <1>11
<1> QED BY <1>2, <1>7, <1>11, <1>12, <1>13, <1>14, <1>15, <1>16 DEF f

\* The part of a segment in a window: frames f + 1 to t.
LEMMA PartIs ==
  ASSUME NEW segment \in SegmentType, NEW lo \in Int, NEW hi \in Int,
         NEW from \in Int, NEW to \in Int,
         lo = Larger(segment.start_time, from), hi = Smaller(End(segment), to)
  PROVE  LET f    == FrameAt(segment, lo)
             t    == FrameAt(segment, hi)
             part == Part(segment, from, to)
         IN  /\ part.start_time = lo /\ part.generation = segment.generation
             /\ lo < hi =>
                  /\ f \in 0 .. Len(segment.audio) /\ t \in 0 .. Len(segment.audio)
                  /\ Inside(segment, from, to) <=> f < t
                  /\ f < t => /\ part.audio \in Seq(SoundType)
                              /\ Len(part.audio) = t - f
                              /\ \A k \in 1 .. t - f : part.audio[k] = segment.audio[f + k]
<1>1. /\ segment.generation \in Generations /\ segment.start_time \in Int
      /\ segment.audio \in Seq(SoundType) /\ Len(segment.audio) \in Nat
      /\ End(segment) \in Int
  BY SegmentTypes
<1> DEFINE f    == FrameAt(segment, lo)
           t    == FrameAt(segment, hi)
           part == Part(segment, from, to)
<1>2. /\ part.start_time = lo /\ part.generation = segment.generation
      /\ part.audio = SubSeq(segment.audio, f + 1, t)
  BY DEF Part, Cut, SegmentType
<1>3. Inside(segment, from, to) <=> lo < hi /\ part.audio # <<>>
  BY DEF Inside
<1>4. ASSUME lo < hi
      PROVE  /\ f \in 0 .. Len(segment.audio) /\ t \in 0 .. Len(segment.audio)
             /\ Inside(segment, from, to) <=> f < t
             /\ f < t => /\ part.audio \in Seq(SoundType)
                         /\ Len(part.audio) = t - f
                         /\ \A k \in 1 .. t - f : part.audio[k] = segment.audio[f + k]
  <2>1. segment.start_time <= lo /\ lo <= End(segment) /\ segment.start_time <= hi /\ hi <= End(segment)
    BY <1>1, <1>4 DEF Larger, Smaller
  <2>2. f \in 0 .. Len(segment.audio) /\ t \in 0 .. Len(segment.audio)
    BY <2>1, FrameAtIs
  <2> HIDE DEF f, t, part
  <2>3. PICK a \in Seq(SoundType), x \in Nat, y \in Nat : a = segment.audio /\ x = f /\ y = t
    BY <1>1, <2>2
  <2>4. x <= Len(a) /\ y <= Len(a) /\ part.audio = SubSeq(a, x + 1, y)
    BY <1>1, <1>2, <2>2, <2>3
  <2>5. CASE f < t
    <3>1. \A k \in 1 .. y - x : (x + 1) + k - 1 = x + k /\ y - (x + 1) + 1 = y - x
      BY <2>3, <2>5
    <3>2. /\ SubSeq(a, x + 1, y) \in Seq(SoundType)
          /\ Len(SubSeq(a, x + 1, y)) = y - x
          /\ \A k \in 1 .. y - x : SubSeq(a, x + 1, y)[k] = a[x + k]
      BY <2>3, <2>4, <2>5
    <3>3. Len(part.audio) = t - f /\ t - f >= 1
      BY <2>2, <2>3, <2>4, <2>5, <3>2
    <3>4. part.audio # <<>>
      <4>1. Len(<<>>) = 0
        OBVIOUS
      <4>2. \A n \in Nat : n = t - f => n # 0
        BY <2>2, <2>5
      <4>3. t - f \in Nat
        BY <2>2, <2>5
      <4> QED BY <3>3, <4>1, <4>2, <4>3
    <3> QED BY <1>2, <1>3, <1>4, <2>2, <2>3, <2>4, <2>5, <3>2, <3>3, <3>4
  <2>6. CASE ~(f < t)
    <3>1. x + 1 > y
      BY <2>2, <2>3, <2>6
    <3>2. \A b, e \in Int : b > e => SubSeq(a, b, e) = <<>>
      BY <2>3
    <3>3. SubSeq(a, x + 1, y) = <<>>
      BY <2>3, <3>1, <3>2
    <3> QED BY <1>2, <1>3, <1>4, <2>2, <2>4, <2>6, <3>3
  <2> QED BY <2>5, <2>6
<1> QED BY <1>2, <1>4

\* The place a part is heard from, and what is heard there.
First(segment, from, to) ==
    Larger(0, Round(Part(segment, from, to).start_time - from, OutPeriod))
Sounds(segment, from, to) ==
    Resample(Part(segment, from, to).generation, Part(segment, from, to).audio)

HeardFrom(segments, place, sound, from, to) ==
    \E i \in 1 .. Len(segments) :
        /\ Inside(segments[i], from, to)
        /\ place - First(segments[i], from, to) + 1 \in DOMAIN Sounds(segments[i], from, to)
        /\ sound = Sounds(segments[i], from, to)[place - First(segments[i], from, to) + 1]

\* What is heard at a place comes from a part of a segment.
LEMMA HeardIs ==
  ASSUME NEW segments \in Seq(SegmentType), NEW from \in Int, NEW to \in Int
  PROVE  LET heard == Render(TrimToWindow(segments, from, to), from, to)
         IN  /\ DOMAIN heard = 0 .. Round(to - from, OutPeriod) - 1
             /\ \A place \in DOMAIN heard : \A sound :
                  sound \in heard[place] <=> HeardFrom(segments, place, sound, from, to)
<1> DEFINE heard == Render(TrimToWindow(segments, from, to), from, to)
           I     == {i \in DOMAIN segments : Inside(segments[i], from, to)}
           trimmed == TrimToWindow(segments, from, to)
           sounds(i) == Sounds(segments[i], from, to)
           first(i)  == First(segments[i], from, to)
<1>1. DOMAIN segments = 1 .. Len(segments)
  OBVIOUS
<1>2. DOMAIN trimmed = I /\ \A i \in I : trimmed[i] = Part(segments[i], from, to)
  BY DEF TrimToWindow
<1> DEFINE last == Round(to - from, OutPeriod) - 1
           other(i) == Larger(0, Round(trimmed[i].start_time - from, OutPeriod))
           audio == [i \in DOMAIN trimmed |-> Resample(trimmed[i].generation, trimmed[i].audio)]
<1>3. heard = [place \in 0 .. last |->
                 {audio[i][place - other(i) + 1] :
                    i \in {s \in DOMAIN trimmed : place - other(s) + 1 \in DOMAIN audio[s]}}]
  BY DEF Render
<1>4. \A i \in I : other(i) = first(i) /\ audio[i] = sounds(i)
  BY <1>2 DEF First, Sounds
<1> HIDE DEF heard, trimmed, sounds, first, other, audio, last
<1>5. DOMAIN heard = 0 .. last
  BY <1>3
<1>6. ASSUME NEW place \in 0 .. last, NEW sound
      PROVE  sound \in heard[place] <=>
               \E i \in I : /\ place - first(i) + 1 \in DOMAIN sounds(i)
                            /\ sound = sounds(i)[place - first(i) + 1]
  <2>1. heard[place] = {audio[i][place - other(i) + 1] :
                    i \in {s \in DOMAIN trimmed : place - other(s) + 1 \in DOMAIN audio[s]}}
    BY <1>3
  <2>2. sound \in heard[place] <=>
          \E i \in DOMAIN trimmed : /\ place - other(i) + 1 \in DOMAIN audio[i]
                                    /\ sound = audio[i][place - other(i) + 1]
    BY <2>1
  <2> QED BY <1>2, <1>4, <2>2
<1> QED BY <1>1, <1>5, <1>6 DEF heard, sounds, first, last, HeardFrom

\* The n frames of a segment after the first f are heard from a place of the window
\* on, and their position differs from it by e.
Placed(segment, from, to, f, n, e) ==
    /\ f = FrameAt(segment, Larger(segment.start_time, from))
    /\ f + n = FrameAt(segment, Smaller(End(segment), to))
    /\ n >= 1 /\ f + n <= Len(segment.audio) /\ n = Len(Part(segment, from, to).audio)
    /\ \A k \in 1 .. n : Part(segment, from, to).audio[k] = segment.audio[f + k]
    /\ Pos(segment, f + 1) = from + OutPeriod * First(segment, from, to) + e
    /\ Within(e, Rounding(segment.generation))

\* A part is heard from the place of its first frame on, but for a rounding.
LEMMA PlaceIs ==
  ASSUME NEW U, NEW from \in Int, NEW to \in Int, NEW segment, Sane(segment, U, from),
         Inside(segment, from, to)
  PROVE  LET part  == Part(segment, from, to)
         IN  /\ First(segment, from, to) \in Nat /\ part.generation = segment.generation
             /\ part.audio \in Seq(SoundType)
             /\ \E f, n \in Nat, e \in Int : Placed(segment, from, to, f, n, e)
<1>1. /\ segment \in SegmentType
      /\ segment.generation \in Generations /\ segment.start_time \in Int
      /\ Len(segment.audio) \in Nat /\ End(segment) \in Int
  BY SegmentTypes DEF Sane
<1>2. PICK lo \in Int, hi \in Int :
        lo = Larger(segment.start_time, from) /\ hi = Smaller(End(segment), to)
  BY <1>1 DEF Larger, Smaller
<1>3. lo < hi
  BY <1>2 DEF Inside
<1>4. PICK f, t : f = FrameAt(segment, lo) /\ t = FrameAt(segment, hi)
  OBVIOUS
<1> DEFINE part  == Part(segment, from, to)
           first == First(segment, from, to)
<1>5. /\ part.start_time = lo /\ part.generation = segment.generation
      /\ f \in 0 .. Len(segment.audio) /\ t \in 0 .. Len(segment.audio)
      /\ f < t
      /\ part.audio \in Seq(SoundType) /\ Len(part.audio) = t - f
      /\ \A k \in 1 .. t - f : part.audio[k] = segment.audio[f + k]
  <2>1. /\ part.start_time = lo /\ part.generation = segment.generation
        /\ FrameAt(segment, lo) \in 0 .. Len(segment.audio)
        /\ FrameAt(segment, hi) \in 0 .. Len(segment.audio)
        /\ FrameAt(segment, lo) < FrameAt(segment, hi)
    <3>1. part.start_time = lo /\ part.generation = segment.generation
      BY <1>1, <1>2 DEF Part, Cut, SegmentType
    <3>2. /\ FrameAt(segment, lo) \in 0 .. Len(segment.audio)
          /\ FrameAt(segment, hi) \in 0 .. Len(segment.audio)
      BY <1>1, <1>2, <1>3, PartIs
    <3>3. Inside(segment, from, to) <=> FrameAt(segment, lo) < FrameAt(segment, hi)
      BY <1>1, <1>2, <1>3, PartIs
    <3> QED BY <3>1, <3>2, <3>3
  <2>2. /\ part.audio \in Seq(SoundType)
        /\ Len(part.audio) = FrameAt(segment, hi) - FrameAt(segment, lo)
        /\ \A k \in 1 .. FrameAt(segment, hi) - FrameAt(segment, lo) :
              part.audio[k] = segment.audio[FrameAt(segment, lo) + k]
    BY <1>1, <1>2, <1>3, <2>1, PartIs
  <2> QED BY <1>4, <2>1, <2>2
<1>6. segment.start_time <= lo /\ lo <= End(segment) /\ from <= lo
  BY <1>1, <1>2, <1>3 DEF Larger, Smaller
<1>7. /\ Within(segment.start_time + Ticks(segment.generation, f) - lo,
                Period[segment.generation])
      /\ lo = segment.start_time => f = 0
  BY <1>1, <1>4, <1>6, FrameAtIs
<1>8. Ticks(segment.generation, f) \in Int /\ Ticks(segment.generation, 0) = 0
  BY <1>1, <1>5, TicksType, TicksGrow
<1>20. PICK q \in Nat, h \in Nat :
         /\ q = OutPeriod /\ q >= 1 /\ h = Rounding(segment.generation)
         /\ Period[segment.generation] \in Nat /\ Period[segment.generation] <= h /\ q <= h
  <2>1. OutPeriod \in Nat /\ OutPeriod >= 1
    BY AudioAssumption
  <2>2. Period[segment.generation] \in Nat
    BY <1>1, Periods
  <2>3. /\ Rounding(segment.generation) \in Nat
        /\ Period[segment.generation] <= Rounding(segment.generation)
        /\ OutPeriod <= Rounding(segment.generation)
    BY <2>1, <2>2 DEF Rounding, Larger
  <2> QED BY <2>1, <2>2, <2>3
<1>21. q >= 1
  BY <1>20
<1>22. PICK d \in Int : d = lo - from
  OBVIOUS
<1>9. PICK r \in Int, z \in Int : r = Round(lo - from, q) /\ r = Round(d, q) /\ z = q * r
  <2>1. Round(d, q) \in Int /\ q * Round(d, q) \in Int
    BY <1>21, RoundNear
  <2> QED BY <1>22, <2>1
<1>10. /\ 2 * z <= 2 * (lo - from) + q /\ 2 * (lo - from) <= 2 * z + q
       /\ lo = from => r = 0
  <2>1. 2 * (q * Round(d, q)) <= 2 * d + q /\ 2 * d <= 2 * (q * Round(d, q)) + q
    BY <1>21, RoundNear
  <2>2. \A m \in Int : d = q * m => Round(d, q) = m
    BY <1>21, RoundNear
  <2>3. lo = from => d = q * 0
    BY <1>22
  <2>4. lo = from => r = 0
    BY <1>9, <2>2, <2>3
  <2> QED BY <1>9, <1>22, <2>1, <2>4
<1>11. r >= 0
  <2> SUFFICES ASSUME r < 0 PROVE FALSE
    OBVIOUS
  <2>1. q * r + q <= q * 0
    BY <1>21, Scales
  <2>2. z + q <= 0
    <3>1. q * 0 = 0
      OBVIOUS
    <3> QED BY <1>9, <2>1, <3>1
  <2> QED BY <1>6, <1>10, <1>21, <2>2
<1>12. first = r
  BY <1>5, <1>9, <1>11, <1>20 DEF Larger, First
<1>13. Pos(segment, f + 1) = segment.start_time + Ticks(segment.generation, f)
  <2>1. (f + 1) - 1 = f
    BY <1>5
  <2> QED BY <2>1 DEF Pos
<1>14. lo = segment.start_time \/ lo = from
  BY <1>2 DEF Larger
<1>15. PICK p \in Int, w \in Nat :
         /\ p = Pos(segment, f + 1) /\ w = Period[segment.generation] /\ w <= h
         /\ -w <= 2 * (p - lo) /\ 2 * (p - lo) <= w
         /\ lo = segment.start_time => p = lo
  <2>5. PICK w \in Nat : w = Period[segment.generation] /\ w <= h
    BY <1>20
  <2>6. PICK p \in Int : p = segment.start_time + Ticks(segment.generation, f)
    BY <1>1, <1>8
  <2>1. /\ p = segment.start_time + Ticks(segment.generation, f)
        /\ w = Period[segment.generation] /\ w <= h
    BY <2>5, <2>6
  <2>3. -w <= 2 * (p - lo) /\ 2 * (p - lo) <= w
    <3>1. Within(segment.start_time + Ticks(segment.generation, f) - lo,
                 Period[segment.generation])
      BY <1>7
    <3>2. PICK a \in Int, b \in Int :
            a = segment.start_time /\ b = Ticks(segment.generation, f)
      BY <1>1, <1>8
    <3>3. Within(a + b - lo, w)
      BY <2>5, <3>1, <3>2
    <3>4. p = a + b
      BY <2>6, <3>2
    <3> QED BY <3>3, <3>4 DEF Within
  <2>4. lo = segment.start_time => p = lo
    BY <1>1, <1>7, <1>8, <2>1
  <2> QED BY <1>13, <2>1, <2>3, <2>4
<1>16. PICK e \in Int : p = from + z + e /\ Within(e, h)
  <2>1. PICK e \in Int : e = p - (from + z)
    OBVIOUS
  <2>2. -h <= 2 * e /\ 2 * e <= h
    <3>1. CASE lo = from
      <4>1. z = 0
        <5>1. r = 0 /\ q * 0 = 0
          BY <1>10, <3>1
        <5> QED BY <1>9, <5>1
      <4> QED BY <1>15, <2>1, <3>1, <4>1
    <3>2. CASE lo = segment.start_time
      <4>1. p = lo
        BY <1>15, <3>2
      <4> QED BY <1>10, <1>20, <2>1, <4>1
    <3> QED BY <1>14, <3>1, <3>2
  <2>3. p = from + z + e
    BY <2>1
  <2> QED BY <2>2, <2>3 DEF Within
<1>17. PICK n \in Nat : n = t - f /\ n >= 1 /\ f \in Nat /\ f + n <= Len(segment.audio)
  BY <1>1, <1>5
<1>18. Placed(segment, from, to, f, n, e)
  <2>1. f + n = t
    BY <1>5, <1>17
  <2>2. /\ f = FrameAt(segment, Larger(segment.start_time, from))
        /\ f + n = FrameAt(segment, Smaller(End(segment), to))
    BY <1>2, <1>4, <2>1
  <2>3. /\ n >= 1 /\ f + n <= Len(segment.audio) /\ n = Len(part.audio)
        /\ \A k \in 1 .. n : part.audio[k] = segment.audio[f + k]
    BY <1>5, <1>17
  <2>4. Pos(segment, f + 1) = from + OutPeriod * first + e
    BY <1>9, <1>12, <1>15, <1>16, <1>20
  <2>5. Within(e, Rounding(segment.generation))
    BY <1>16, <1>20
  <2> QED BY <2>2, <2>3, <2>4, <2>5 DEF Placed
<1>19. first \in Nat
  BY <1>11, <1>12
<1> QED BY <1>5, <1>17, <1>18, <1>19

\* Of a sane segment every sound is where it was recorded, but for the slack.
LEMMA SoundDrifts ==
  ASSUME NEW U, NEW from \in Int, NEW to \in Int, NEW segment, Sane(segment, U, from),
         Inside(segment, from, to), Recorded(U),
         NEW place \in Int, NEW j,
         j = place - First(segment, from, to) + 1,
         j \in DOMAIN Sounds(segment, from, to),
         NEW sound, sound = Sounds(segment, from, to)[j]
  PROVE  LET drift == sound.time - (from + OutPeriod * place)
         IN  /\ 2 * drift <= 2 * ClosedUpTo(sound, U) + SlackBefore(sound.generation)
             /\ -2 * drift <= 2 * OverlappingUpTo(sound, U) + SlackAfter(sound.generation)
<1> DEFINE part  == Part(segment, from, to)
           first == First(segment, from, to)
<1>2. PICK g : g = segment.generation
  OBVIOUS
<1>3. first \in Nat /\ part.generation = g /\ part.audio \in Seq(SoundType)
  <2>1. first \in Nat /\ part.generation = segment.generation /\ part.audio \in Seq(SoundType)
    BY PlaceIs
  <2> QED BY <1>2, <2>1
<1>4. PICK f, n \in Nat, e \in Int :
        /\ n >= 1 /\ f + n <= Len(segment.audio) /\ n = Len(part.audio)
        /\ \A k \in 1 .. n : part.audio[k] = segment.audio[f + k]
        /\ Pos(segment, f + 1) = from + OutPeriod * first + e
        /\ Within(e, Rounding(g))
  <2>1. PICK f, n \in Nat, e \in Int : Placed(segment, from, to, f, n, e)
    BY PlaceIs
  <2>2. /\ n >= 1 /\ f + n <= Len(segment.audio) /\ n = Len(part.audio)
        /\ \A k \in 1 .. n : part.audio[k] = segment.audio[f + k]
        /\ Pos(segment, f + 1) = from + OutPeriod * first + e
        /\ Within(e, Rounding(g))
    BY <1>2, <2>1 DEF Placed
  <2> QED BY <2>2
<1>5. /\ segment \in SegmentType /\ g \in Generations
      /\ Len(segment.audio) \in Nat /\ Len(segment.audio) >= 1
  BY <1>2, SegmentTypes DEF Sane
<1>6. j = place - first + 1 /\ j \in DOMAIN Resample(g, part.audio)
      /\ sound = Resample(g, part.audio)[j]
  BY <1>3 DEF Sounds
<1> HIDE DEF part, first
<1>25. PICK p \in Nat, q \in Nat, w \in Nat :
         p = Period[g] /\ p >= 1 /\ q = OutPeriod /\ q >= 1 /\ w = Rounding(g)
  <2>1. OutPeriod \in Nat /\ OutPeriod >= 1
    BY AudioAssumption
  <2>2. Period[g] \in Nat /\ Period[g] >= 1
    BY <1>5, Periods
  <2>3. Rounding(g) \in Nat
    BY <2>1, <2>2 DEF Rounding, Larger
  <2> QED BY <2>1, <2>2, <2>3
<1>7. PICK k \in 1 .. n, a \in Nat, b \in Nat, v \in Int :
        /\ sound = segment.audio[f + k] /\ j \in Int
        /\ SlackBefore(g) = w + b /\ SlackAfter(g) = w + a
        /\ v = q * (j - 1)
        /\ 2 * Ticks(g, k - 1) <= 2 * v + b /\ 2 * v <= 2 * Ticks(g, k - 1) + a
  <2>1. CASE ~Resampled(g)
    <3>1. j \in 1 .. n /\ sound = part.audio[j]
      <4>1. Resample(g, part.audio) = part.audio
        BY <1>3, <1>4, <1>5, <2>1, ResampleIs
      <4>2. DOMAIN part.audio = 1 .. n
        BY <1>3, <1>4
      <4> QED BY <1>6, <4>1, <4>2
    <3>2. sound = segment.audio[f + j]
      BY <1>4, <3>1
    <3>3. SlackBefore(g) = w + 0 /\ SlackAfter(g) = w + 0
      BY <1>25, <2>1 DEF SlackBefore, SlackAfter
    <3>4. PICK v \in Int : v = q * (j - 1)
      BY <3>1
    <3>5. Ticks(g, j - 1) = v
      <4>1. p = q
        BY <1>25, <2>1 DEF Resampled
      <4>2. (j - 1) * p = q * (j - 1)
        BY <3>1, <4>1
      <4> QED BY <1>25, <3>4, <4>2 DEF Ticks
    <3>6. 2 * v <= 2 * v + 0
      OBVIOUS
    <3> QED BY <3>1, <3>2, <3>3, <3>4, <3>5, <3>6
  <2>2. CASE Resampled(g)
    <3>1. PICK F : F = Larger(1, Round(n * p, q))
      OBVIOUS
    <3>2. F \in Nat
      <4>1. n \in Nat /\ n >= 1 /\ p >= 1 /\ q >= 1
        BY <1>4, <1>25
      <4> QED BY <3>1, <4>1, LengthIs
    <3>3. j \in 1 .. F /\ sound = part.audio[1 + Spread(n, F, j)]
      <4>1. part.audio \in Seq(SoundType) /\ n = Len(part.audio) /\ n >= 1 /\ g \in Generations
        BY <1>3, <1>4, <1>5
      <4>2. F = Larger(1, Round(Len(part.audio) * Period[g], OutPeriod))
        BY <1>25, <3>1, <4>1
      <4>3. /\ DOMAIN Resample(g, part.audio) = 1 .. F
            /\ \A h \in 1 .. F : Resample(g, part.audio)[h] = part.audio[1 + Spread(n, F, h)]
        BY <2>2, <4>1, <4>2, ResampleIs
      <4> QED BY <1>6, <4>3
    <3>4. PICK d \in 0 .. n - 1 :
            /\ d = Spread(n, F, j)
            /\ 2 * (d * p) <= 2 * ((j - 1) * q) + HeardBefore(p, q)
            /\ 2 * ((j - 1) * q) <= 2 * (d * p) + HeardAfter(p, q)
      <4>1. /\ Spread(n, F, j) \in 0 .. n - 1
            /\ 2 * (Spread(n, F, j) * p) <= 2 * ((j - 1) * q) + HeardBefore(p, q)
            /\ 2 * ((j - 1) * q) <= 2 * (Spread(n, F, j) * p) + HeardAfter(p, q)
        BY <1>4, <1>25, <3>1, <3>3, SpreadIs
      <4> QED BY <4>1
    <3>5. PICK k \in 1 .. n : k = 1 + d /\ k - 1 = d
      <4>1. 1 + d \in 1 .. n /\ (1 + d) - 1 = d
        OBVIOUS
      <4> QED BY <4>1
    <3>6. sound = segment.audio[f + k]
      BY <1>4, <3>3, <3>4, <3>5
    <3>7. PICK a \in Nat, b \in Nat :
            /\ a = HeardAfter(p, q) /\ b = HeardBefore(p, q)
            /\ SlackBefore(g) = w + b /\ SlackAfter(g) = w + a
      <4>1. HeardAfter(p, q) \in Nat /\ HeardBefore(p, q) \in Nat
        BY DEF HeardAfter, HeardBefore, Larger
      <4>2. SlackBefore(g) = w + HeardBefore(p, q) /\ SlackAfter(g) = w + HeardAfter(p, q)
        BY <1>25, <2>2 DEF SlackBefore, SlackAfter, HeardBefore, HeardAfter
      <4> QED BY <4>1, <4>2
    <3>8. j \in Int
      BY <3>2, <3>3
    <3>9. PICK v \in Int : v = q * (j - 1) /\ (j - 1) * q = v
      <4>1. q * (j - 1) \in Int /\ (j - 1) * q = q * (j - 1)
        BY <3>8
      <4> QED BY <4>1
    <3>10. Ticks(g, k - 1) = d * p
      BY <1>25, <3>5 DEF Ticks
    <3>11. 2 * Ticks(g, k - 1) <= 2 * v + b /\ 2 * v <= 2 * Ticks(g, k - 1) + a
      BY <3>4, <3>7, <3>9, <3>10
    <3> QED BY <3>6, <3>7, <3>8, <3>9, <3>11
  <2> QED BY <2>1, <2>2
<1>8. PICK i \in 1 .. Len(segment.audio) : i = f + k /\ sound = segment.audio[i]
  <2>1. f + k \in 1 .. Len(segment.audio)
    <3>1. PICK m \in Nat : m = Len(segment.audio)
      BY <1>5
    <3>2. f + n <= m
      BY <1>4, <3>1
    <3>3. f + k \in 1 .. m
      BY <3>2
    <3> QED BY <3>1, <3>3
  <2> QED BY <1>7, <2>1
<1>9. Pos(segment, i) = Pos(segment, f + 1) + Ticks(g, k - 1)
  <2>1. PICK x \in Int, y \in Int : x = f /\ y = k - 1
    BY <1>4, <1>7
  <2>2. i - 1 = x + y /\ (f + 1) - 1 = x
    BY <1>4, <1>8, <2>1
  <2>3. Ticks(g, x + y) = Ticks(g, x) + Ticks(g, y)
    BY <1>5, <2>1, TicksGrow
  <2>4. Ticks(g, x) \in Int /\ Ticks(g, y) \in Int /\ segment.start_time \in Int
    BY <1>5, <2>1, TicksType, SegmentTypes
  <2>5. Pos(segment, i) = segment.start_time + Ticks(g, x + y)
    BY <1>2, <2>2 DEF Pos
  <2>6. Pos(segment, f + 1) = segment.start_time + Ticks(g, x)
    BY <1>2, <2>2 DEF Pos
  <2> QED BY <2>1, <2>3, <2>4, <2>5, <2>6
<1>10. /\ Off(segment, i) <= ClosedUpTo(sound, U)
       /\ -Off(segment, i) <= OverlappingUpTo(sound, U)
       /\ Off(segment, i) \in Int /\ Pos(segment, i) \in Int
       /\ sound.time = Pos(segment, i) + Off(segment, i)
  <2>1. 1 \in 1 .. Len(segment.audio) /\ 1 <= i
    BY <1>5
  <2>2. Off(segment, 1) = 0
    BY DEF Sane
  <2>3. /\ Off(segment, i) - Off(segment, 1) <= ClosedUpTo(segment.audio[i], U)
        /\ Off(segment, 1) - Off(segment, i) <= OverlappingUpTo(segment.audio[i], U)
    BY <2>1 DEF Sane
  <2>4. Off(segment, i) \in Int /\ Pos(segment, i) \in Int /\ sound.time \in Int
    <3>1. i \in Int
      BY <1>5
    <3> QED BY <1>5, <1>8, <3>1, SegmentTypes
  <2>5. Off(segment, i) = sound.time - Pos(segment, i)
    BY <1>8 DEF Off
  <2>6. PICK o \in Int, x \in Int, y \in Int : o = Off(segment, i) /\ x = Pos(segment, i) /\ y = sound.time
    BY <2>4
  <2>7. y = x + o
    BY <2>5, <2>6
  <2>8. o - 0 <= ClosedUpTo(sound, U) /\ 0 - o <= OverlappingUpTo(sound, U)
    BY <1>8, <2>2, <2>3, <2>6
  <2>9. o - 0 = o /\ 0 - o = -o
    OBVIOUS
  <2> QED BY <2>6, <2>7, <2>8, <2>9
<1>26. sound.generation = g
  BY <1>2, <1>8 DEF Sane
<1>11. PICK c \in Nat, z \in Nat : c = ClosedUpTo(sound, U) /\ z = OverlappingUpTo(sound, U)
  BY UpToGrows
<1>12. PICK o \in Int, u \in Int, x \in Int, y \in Int :
         /\ o = Off(segment, i) /\ u = Ticks(g, k - 1)
         /\ x = Pos(segment, i) /\ y = sound.time
  <2>1. Ticks(g, k - 1) \in Int
    BY <1>5, <1>7, TicksType
  <2>2. sound.time \in Int
    BY <1>5, <1>8, SegmentTypes
  <2> QED BY <1>10, <2>1, <2>2
<1>13. PICK h \in Int, r \in Int, m \in Int : h = first /\ r = q * h /\ m = q * place
  BY <1>3
<1>14. m = r + v
  <2>1. j = place - h + 1 /\ j \in Int
    BY <1>6, <1>7, <1>13
  <2>2. j - 1 = place - h
    BY <2>1
  <2>3. q * (place - h) = q * place - q * h
    OBVIOUS
  <2>4. v = q * (place - h)
    BY <1>7, <2>2
  <2> QED BY <1>13, <2>3, <2>4
<1>15. y = x + o /\ x = from + r + e + u
  <2>1. y = x + o
    BY <1>10, <1>12
  <2>2. Pos(segment, f + 1) = from + r + e
    BY <1>4, <1>13, <1>25
  <2> QED BY <1>9, <1>12, <2>1, <2>2
<1>16. -w <= 2 * e /\ 2 * e <= w
  BY <1>4, <1>25 DEF Within
<1>17. 2 * u <= 2 * v + b /\ 2 * v <= 2 * u + a
  BY <1>7, <1>12
<1>18. o <= c /\ -o <= z
  BY <1>10, <1>11, <1>12
<1>19. /\ 2 * (y - (from + m)) <= 2 * c + (w + b)
       /\ -2 * (y - (from + m)) <= 2 * z + (w + a)
  BY <1>14, <1>15, <1>16, <1>17, <1>18
<1> QED BY <1>7, <1>11, <1>12, <1>13, <1>19, <1>25, <1>26

\* The slack is a number, and a frame fits in it.
LEMMA SlackType ==
  ASSUME NEW g \in Generations
  PROVE  /\ OutPeriod \in Nat /\ OutPeriod >= 1 /\ Period[g] \in Nat /\ Period[g] >= 1
         /\ Rounding(g) \in Nat /\ SlackAfter(g) \in Nat /\ Skipped(g) \in Nat
         /\ Period[g] <= SlackAfter(g)
         /\ ~Resampled(g) => Period[g] = OutPeriod /\ SlackAfter(g) = Rounding(g)
         /\ Resampled(g) =>
              SlackAfter(g) = Rounding(g) + HeardAfter(Period[g], OutPeriod)
<1>1. PICK p \in Nat, q \in Nat : p = Period[g] /\ p >= 1 /\ q = OutPeriod /\ q >= 1
  <2>1. OutPeriod \in Nat /\ OutPeriod >= 1
    BY AudioAssumption
  <2> QED BY <2>1, Periods
<1>2. PICK w \in Nat : w = Rounding(g) /\ p <= w
  <2>1. Larger(p, q) \in Nat /\ p <= Larger(p, q)
    BY DEF Larger
  <2> QED BY <1>1, <2>1 DEF Rounding
<1>3. PICK a \in Nat : a = HeardAfter(p, q)
  <2>1. HeardAfter(p, q) \in Nat
    BY DEF HeardAfter, Larger
  <2> QED BY <2>1
<1>4. Skipped(g) \in Nat
  <2>1. Larger(2 * q, 5 * q - 4 * p) \in Nat
    BY DEF Larger
  <2> QED BY <1>1, <2>1 DEF Skipped
<1>5. CASE Resampled(g)
  <2>1. SlackAfter(g) = w + a
    BY <1>1, <1>2, <1>3, <1>5 DEF SlackAfter, HeardAfter
  <2>2. w + a \in Nat /\ p <= w + a
    BY <1>2
  <2> QED BY <1>1, <1>2, <1>3, <1>4, <1>5, <2>1, <2>2
<1>6. CASE ~Resampled(g)
  <2>1. SlackAfter(g) = w + 0 /\ w + 0 = w
    BY <1>2, <1>6 DEF SlackAfter
  <2> QED BY <1>1, <1>2, <1>4, <1>6, <2>1 DEF Resampled
<1> QED BY <1>5, <1>6

\* A frame that lies in the window, and stays in it.
InWindow(segment, k, U, from, to) ==
    LET frame == segment.audio[k]
    IN  /\ from < frame.time
        /\ 2 * (frame.time + OverlappingUpTo(frame, U))
             + SlackAfter(segment.generation) + OutPeriod < 2 * to

\* Such a frame is in the part of its segment.
LEMMA FrameInside ==
  ASSUME NEW U, NEW from \in Int, NEW to \in Int, NEW segment, Sane(segment, U, from),
         Recorded(U), NEW k \in 1 .. Len(segment.audio),
         InWindow(segment, k, U, from, to)
  PROVE  /\ Inside(segment, from, to)
         /\ 2 * Pos(segment, k) + SlackAfter(segment.generation) + OutPeriod < 2 * to
         /\ FrameAt(segment, Larger(segment.start_time, from)) < k
         /\ k <= FrameAt(segment, Smaller(End(segment), to))
<1>1. /\ segment \in SegmentType
      /\ segment.generation \in Generations /\ segment.start_time \in Int
      /\ Len(segment.audio) \in Nat /\ End(segment) \in Int
  BY SegmentTypes DEF Sane
<1>2. PICK lo \in Int, hi \in Int :
        lo = Larger(segment.start_time, from) /\ hi = Smaller(End(segment), to)
  BY <1>1 DEF Larger, Smaller
<1>3. PICK f, t : f = FrameAt(segment, lo) /\ t = FrameAt(segment, hi)
  OBVIOUS
<1>4. PICK n \in Nat, g \in Generations, s \in Int, y \in Int :
        /\ n = Len(segment.audio) /\ g = segment.generation
        /\ s = segment.start_time /\ y = segment.audio[k].time
  BY <1>1, SegmentTypes
<1>27. PICK p \in Nat, q \in Nat, a \in Nat :
         p = Period[g] /\ p >= 1 /\ q = OutPeriod /\ q >= 1 /\ a = SlackAfter(g) /\ p <= a
  BY SlackType
<1>28. p >= 1 /\ q >= 1 /\ p <= a
  BY <1>27
<1>5. PICK x \in Int, o \in Int : x = Pos(segment, k) /\ o = Off(segment, k)
  <2>1. k \in Int
    BY <1>1
  <2>2. Pos(segment, k) \in Int
    BY <1>1, <2>1, SegmentTypes
  <2>3. Off(segment, k) \in Int
    BY <1>1, SegmentTypes
  <2> QED BY <2>2, <2>3
<1>6. y = x + o
  BY <1>4, <1>5 DEF Off
<1>7. PICK v \in Nat : v = OverlappingUpTo(segment.audio[k], U)
  BY UpToGrows
<1>8. from < y /\ 2 * (y + v) + a + q < 2 * to
  BY <1>4, <1>7, <1>27 DEF InWindow
<1>9. (o = 0 \/ x > from) /\ -o <= v
  <2>1. o = 0 \/ x > from
    BY <1>5 DEF Sane
  <2>2. Off(segment, 1) = 0 /\ 1 \in 1 .. Len(segment.audio) /\ 1 <= k
    BY <1>1 DEF Sane
  <2>3. Off(segment, 1) - Off(segment, k) <= OverlappingUpTo(segment.audio[k], U)
    BY <2>2 DEF Sane
  <2>4. 0 - o <= v
    BY <1>5, <1>7, <2>2, <2>3
  <2> QED BY <2>1, <2>4
<1>10. x > from /\ 2 * x + a + q < 2 * to
  BY <1>6, <1>8, <1>9
<1>29. PICK l \in Nat : l = k - 1 /\ k = l + 1 /\ l + 1 <= n
  BY <1>1, <1>4
<1>11. PICK u \in Int : u = p * l /\ x = s + u /\ u >= 0
  <2>1. PICK u \in Int : u = p * l /\ u >= 0
    <3>1. p * 0 <= p * l /\ p * l \in Int
      BY <1>28, Scales
    <3>2. p * 0 = 0
      OBVIOUS
    <3> QED BY <3>1, <3>2
  <2>2. l * p = p * l
    OBVIOUS
  <2>3. Ticks(g, k - 1) = u
    BY <1>27, <1>29, <2>1, <2>2 DEF Ticks
  <2>4. Pos(segment, k) = s + Ticks(g, k - 1)
    BY <1>4 DEF Pos
  <2> QED BY <1>5, <2>1, <2>3, <2>4
<1>12. PICK z \in Int : z = p * n /\ End(segment) = s + z /\ u + p <= z
  <2>1. l < n
    BY <1>29
  <2>2. p * l + p <= p * n /\ p * n \in Int
    BY <1>28, <2>1, Scales
  <2>3. n * p = p * n
    OBVIOUS
  <2>4. End(segment) = s + n * p
    BY <1>4, <1>27 DEF End
  <2> QED BY <1>11, <2>2, <2>3, <2>4
<1>14. lo = s \/ lo = from
  BY <1>2, <1>4 DEF Larger
<1>15. hi = End(segment) \/ hi = to
  BY <1>2 DEF Smaller
<1>16. lo <= x /\ s <= lo
  <2>1. lo = Larger(s, from)
    BY <1>2, <1>4
  <2>2. s <= lo
    BY <2>1 DEF Larger
  <2>3. s <= x
    BY <1>11
  <2> QED BY <1>10, <1>14, <2>2, <2>3
<1>17. x < hi /\ hi <= End(segment)
  <2>1. hi <= End(segment)
    BY <1>1, <1>2 DEF Smaller
  <2>2. x < End(segment)
    BY <1>11, <1>12, <1>28
  <2>3. x < to
    BY <1>10
  <2> QED BY <1>15, <2>1, <2>2, <2>3
<1>18. lo < hi /\ segment.start_time <= lo /\ lo <= End(segment)
       /\ segment.start_time <= hi /\ hi <= End(segment)
  BY <1>1, <1>4, <1>16, <1>17
<1>19. /\ f \in 0 .. n /\ t \in 0 .. n
       /\ lo = s => f = 0
       /\ hi = End(segment) => t = n
  BY <1>1, <1>3, <1>4, <1>18, FrameAtIs
<1>30. PICK b \in Nat, c \in Nat : b = f /\ c = t
  BY <1>19
<1>20. PICK i \in Int, j \in Int :
         /\ i = p * b /\ j = p * c
         /\ 2 * (s + i - lo) <= p /\ -p <= 2 * (s + j - hi)
  <2>1. /\ Within(segment.start_time + Ticks(segment.generation, f) - lo,
                  Period[segment.generation])
        /\ Within(segment.start_time + Ticks(segment.generation, t) - hi,
                  Period[segment.generation])
    BY <1>1, <1>3, <1>18, FrameAtIs
  <2>2. PICK i \in Int, j \in Int : i = p * b /\ j = p * c
    OBVIOUS
  <2>3. b * p = p * b /\ c * p = p * c
    OBVIOUS
  <2>4. Ticks(g, f) = i /\ Ticks(g, t) = j
    BY <1>27, <1>30, <2>2, <2>3 DEF Ticks
  <2>5. Within(s + i - lo, p) /\ Within(s + j - hi, p)
    BY <1>4, <1>27, <2>1, <2>4
  <2> QED BY <2>2, <2>5 DEF Within
<1>21. f < k
  <2>1. CASE lo = s
    BY <1>19, <1>29, <2>1
  <2>2. CASE lo = from
    <3> SUFFICES ASSUME l < b PROVE FALSE
      BY <1>29, <1>30
    <3>1. p * l + p <= p * b
      BY <1>28, Scales
    <3>2. u + p <= i
      BY <1>11, <1>20, <3>1
    <3>3. lo < s + u
      BY <1>10, <1>11, <2>2
    <3> QED BY <1>20, <1>28, <3>2, <3>3
  <2> QED BY <1>14, <2>1, <2>2
<1>22. k <= t
  <2>1. CASE hi = End(segment)
    BY <1>19, <1>29, <2>1
  <2>2. CASE hi = to
    <3> SUFFICES ASSUME c <= l PROVE FALSE
      BY <1>29, <1>30
    <3>1. p * c <= p * l
      BY <1>28, Scales
    <3>2. j <= u
      BY <1>11, <1>20, <3>1
    <3>3. 2 * (s + u) + a + q < 2 * hi
      BY <1>10, <1>11, <2>2
    <3> QED BY <1>20, <1>28, <3>2, <3>3
  <2> QED BY <1>15, <2>1, <2>2
<1>24. Inside(segment, from, to) <=> f < t
  <2>1. Inside(segment, from, to) <=> FrameAt(segment, lo) < FrameAt(segment, hi)
    BY <1>1, <1>2, <1>18, PartIs
  <2> QED BY <1>3, <2>1
<1>25. f < t
  BY <1>21, <1>22, <1>29, <1>30
<1>26. 2 * Pos(segment, k) + SlackAfter(segment.generation) + OutPeriod < 2 * to
  BY <1>4, <1>5, <1>10, <1>27
<1> QED BY <1>2, <1>3, <1>21, <1>22, <1>24, <1>25, <1>26

\* Of a sane segment, a frame and one no later in it were recorded the ticks between
\* them apart, and the silences closed up to the later, less what overlaps.
LEMMA FramesApart ==
  ASSUME NEW U, NEW from, NEW segment, Sane(segment, U, from), Recorded(U),
         NEW h \in 1 .. Len(segment.audio), NEW k \in 1 .. Len(segment.audio), h <= k,
         NEW g, g = segment.generation
  PROVE  LET x == segment.audio[h].time
             y == segment.audio[k].time
         IN  /\ x \in Int /\ y \in Int
             /\ y - x <= Ticks(g, k - h) + ClosedUpTo(segment.audio[k], U)
             /\ x - y <= OverlappingUpTo(segment.audio[k], U)
<1>1. /\ segment \in SegmentType /\ Len(segment.audio) \in Nat
      /\ segment.start_time \in Int /\ g \in Generations
  BY SegmentTypes DEF Sane
<1>2. PICK c \in Nat, v \in Nat :
        c = ClosedUpTo(segment.audio[k], U) /\ v = OverlappingUpTo(segment.audio[k], U)
  BY UpToGrows
<1>3. PICK x \in Int, y \in Int, o \in Int, w \in Int, s \in Int :
        /\ x = segment.audio[h].time /\ y = segment.audio[k].time
        /\ o = Off(segment, h) /\ w = Off(segment, k) /\ s = segment.start_time
  BY <1>1, SegmentTypes
<1>4. w - o <= c /\ o - w <= v
  BY <1>2, <1>3 DEF Sane
<1>5. PICK i \in Int, d \in Int : i = h - 1 /\ d = k - h /\ k - 1 = i + d /\ 0 <= d
  BY <1>1
<1>6. PICK a \in Int, b \in Int :
        a = Ticks(g, i) /\ b = Ticks(g, d) /\ b >= 0 /\ Ticks(g, i + d) = a + b
  <2>1. 0 <= d /\ 0 \in Int
    BY <1>5
  <2>2. Ticks(g, 0) = 0 /\ Ticks(g, 0) <= Ticks(g, d)
    BY <1>1, <2>1, TicksGrow
  <2>3. Ticks(g, i + d) = Ticks(g, i) + Ticks(g, d)
    BY <1>1, TicksGrow
  <2>4. Ticks(g, i) \in Int /\ Ticks(g, d) \in Int
    BY <1>1, TicksType
  <2> QED BY <2>2, <2>3, <2>4
<1>7. Pos(segment, h) = s + a /\ Pos(segment, k) = s + (a + b)
  BY <1>3, <1>5, <1>6 DEF Pos
<1>8. o = x - (s + a) /\ w = y - (s + (a + b))
  BY <1>3, <1>7 DEF Off
<1>10. b >= 0
  BY <1>6
<1>9. y - x <= b + c /\ x - y <= v
  BY <1>4, <1>8, <1>10
<1> QED BY <1>2, <1>3, <1>5, <1>6, <1>9

\* A sound of the same device stands for a frame.
Near(sound, segment, k, U) ==
    LET frame == segment.audio[k]
        g     == segment.generation
    IN  /\ sound.generation = g
        /\ Period[g] >= OutPeriod => sound.time = frame.time
        /\ 2 * (frame.time - sound.time) <= Skipped(g) + 2 * ClosedUpTo(frame, U)
        /\ sound.time - frame.time <= OverlappingUpTo(frame, U)

HeardNear(segment, k, f, U, from, to) ==
    \E j \in DOMAIN Sounds(segment, from, to) :
        /\ j \in Int /\ j >= 1
        /\ 2 * (OutPeriod * (j - 1)) + Rounding(segment.generation)
             <= 2 * Ticks(segment.generation, k - f - 1) + SlackAfter(segment.generation)
        /\ Near(Sounds(segment, from, to)[j], segment, k, U)

\* A frame that is no later than another, and close to it, stands for it.
LEMMA NearIs ==
  ASSUME NEW U, NEW from, NEW segment, Sane(segment, U, from), Recorded(U),
         NEW h \in 1 .. Len(segment.audio), NEW k \in 1 .. Len(segment.audio), h <= k,
         2 * Ticks(segment.generation, k - h) <= Skipped(segment.generation),
         Period[segment.generation] >= OutPeriod => h = k
  PROVE  Near(segment.audio[h], segment, k, U)
<1>1. /\ segment \in SegmentType /\ Len(segment.audio) \in Nat
      /\ segment.generation \in Generations
  BY SegmentTypes DEF Sane
<1>2. PICK g \in Generations : g = segment.generation
  BY <1>1
<1>3. PICK c \in Nat, v \in Nat :
        c = ClosedUpTo(segment.audio[k], U) /\ v = OverlappingUpTo(segment.audio[k], U)
  BY UpToGrows
<1>4. /\ segment.audio[h].time \in Int /\ segment.audio[k].time \in Int
      /\ segment.audio[k].time - segment.audio[h].time
           <= Ticks(g, k - h) + ClosedUpTo(segment.audio[k], U)
      /\ segment.audio[h].time - segment.audio[k].time
           <= OverlappingUpTo(segment.audio[k], U)
  BY <1>2, FramesApart
<1>5. PICK x \in Int, y \in Int : x = segment.audio[h].time /\ y = segment.audio[k].time
  BY <1>4
<1>6. PICK b \in Int, z \in Nat : b = Ticks(g, k - h) /\ z = Skipped(g)
  <2>1. k - h \in Int
    BY <1>1
  <2>2. Ticks(g, k - h) \in Int
    BY <2>1, TicksType
  <2>3. Skipped(g) \in Nat
    BY SlackType
  <2> QED BY <2>2, <2>3
<1>7. y - x <= b + c /\ x - y <= v
  BY <1>3, <1>4, <1>5, <1>6
<1>8. 2 * b <= z
  BY <1>2, <1>6
<1>9. 2 * (y - x) <= z + 2 * c
  BY <1>7, <1>8
<1>10. segment.audio[h].generation = g
  BY <1>2 DEF Sane
<1>11. Period[g] >= OutPeriod => x = y
  BY <1>2, <1>5
<1> QED BY <1>2, <1>3, <1>5, <1>6, <1>7, <1>9, <1>10, <1>11 DEF Near

\* Of what is heard of a segment, a sound at the place of a frame in the window or
\* before it stands for the frame, but for the slack.
LEMMA SoundNear ==
  ASSUME NEW U, NEW from \in Int, NEW to \in Int, NEW segment, Sane(segment, U, from),
         Recorded(U), NEW k \in 1 .. Len(segment.audio),
         InWindow(segment, k, U, from, to),
         NEW f \in Nat, NEW n \in Nat, NEW e \in Int,
         Placed(segment, from, to, f, n, e)
  PROVE  HeardNear(segment, k, f, U, from, to)
<1> DEFINE part == Part(segment, from, to)
<1>1. /\ segment \in SegmentType /\ segment.generation \in Generations
      /\ Len(segment.audio) \in Nat /\ k \in Int
  BY SegmentTypes DEF Sane
<1>2. PICK g \in Generations : g = segment.generation
  BY <1>1
<1>3. part.generation = g /\ part.audio \in Seq(SoundType)
  <2>1. Inside(segment, from, to)
    BY FrameInside
  <2>2. part.generation = segment.generation /\ part.audio \in Seq(SoundType)
    BY <2>1, PlaceIs
  <2> QED BY <1>2, <2>2
<1>4. /\ n >= 1 /\ f + n <= Len(segment.audio) /\ n = Len(part.audio)
      /\ \A i \in 1 .. n : part.audio[i] = segment.audio[f + i]
  BY DEF Placed
<1>5. f < k /\ k <= f + n
  <2>1. /\ FrameAt(segment, Larger(segment.start_time, from)) < k
        /\ k <= FrameAt(segment, Smaller(End(segment), to))
    BY FrameInside
  <2> QED BY <2>1 DEF Placed
<1>6. Sounds(segment, from, to) = Resample(g, part.audio)
  BY <1>3 DEF Sounds
<1>7. PICK p \in Nat, q \in Nat, w \in Nat, a \in Nat, z \in Nat :
        /\ p = Period[g] /\ p >= 1 /\ q = OutPeriod /\ q >= 1
        /\ w = Rounding(g) /\ a = SlackAfter(g) /\ z = Skipped(g)
  BY SlackType
<1>8. p >= 1 /\ q >= 1
  BY <1>7
<1>9. PICK m \in Int : m = k - f - 1 /\ m >= 0 /\ m <= n - 1 /\ k = f + (1 + m)
  BY <1>1, <1>5
<1> HIDE DEF part
<1>10. CASE ~Resampled(g)
  <2>1. PICK j \in 1 .. n : j = 1 + m
    <3>1. 1 + m \in 1 .. n
      BY <1>9
    <3> QED BY <3>1
  <2>2. j \in DOMAIN Sounds(segment, from, to) /\ Sounds(segment, from, to)[j] = segment.audio[k]
    <3>1. Resample(g, part.audio) = part.audio
      BY <1>3, <1>4, <1>10, ResampleIs
    <3>2. DOMAIN part.audio = 1 .. n
      BY <1>3, <1>4
    <3>3. k = f + j
      BY <1>9, <2>1
    <3> QED BY <1>4, <1>6, <3>1, <3>2, <3>3
  <2>3. 2 * (OutPeriod * (j - 1)) + Rounding(g) <= 2 * Ticks(g, k - f - 1) + SlackAfter(g)
    <3>1. OutPeriod = p /\ SlackAfter(g) = Rounding(g)
      BY <1>7, <1>10, SlackType
    <3>2. PICK u \in Int : u = p * m
      OBVIOUS
    <3>3. m * p = p * m /\ j - 1 = m
      BY <2>1
    <3>4. OutPeriod * (j - 1) = u /\ Ticks(g, k - f - 1) = u
      BY <1>7, <1>9, <3>1, <3>2, <3>3 DEF Ticks
    <3>5. 2 * u + w <= 2 * u + w
      OBVIOUS
    <3> QED BY <1>7, <3>1, <3>4, <3>5
  <2>4. Near(segment.audio[k], segment, k, U)
    <3>1. k - k = 0 /\ k <= k
      BY <1>1
    <3>2. Ticks(g, 0) = 0
      BY TicksGrow
    <3>3. 2 * 0 <= z
      OBVIOUS
    <3>4. 2 * Ticks(segment.generation, k - k) <= Skipped(segment.generation)
      BY <1>2, <1>7, <3>1, <3>2, <3>3
    <3> QED BY <3>1, <3>4, NearIs
  <2>5. j \in Int /\ j >= 1
    OBVIOUS
  <2> QED BY <1>2, <2>2, <2>3, <2>4, <2>5 DEF HeardNear
<1>11. CASE Resampled(g)
  <2>1. PICK F : F = Larger(1, Round(n * p, q))
    OBVIOUS
  <2>2. F \in Nat
    <3>1. n \in Nat /\ n >= 1
      BY <1>4
    <3> QED BY <1>8, <2>1, <3>1, LengthIs
  <2>3. PICK j \in 1 .. F :
          /\ Spread(n, F, j) <= m
          /\ 2 * ((m - Spread(n, F, j)) * p) <= Larger(2 * q, 5 * q - 4 * p)
          /\ q <= p => Spread(n, F, j) = m
    <3>1. n >= 1
      BY <1>4
    <3>2. PICK i \in 0 .. n - 1 : i = m
      BY <1>4, <1>9
    <3>3. Covered(p, q, n, F, i)
      BY <1>8, <2>1, <3>1, SpreadCovers
    <3> QED BY <3>2, <3>3 DEF Covered
  <2>4. PICK d \in Nat : d = Spread(n, F, j) /\ d <= n - 1
    <3>1. n >= 1
      BY <1>4
    <3>2. Spread(n, F, j) \in 0 .. n - 1
      BY <1>8, <2>1, <3>1, SpreadIs
    <3> QED BY <3>2
  <2>5. d <= m /\ (q <= p => d = m)
    BY <2>3, <2>4
  <2>6. 2 * ((m - d) * p) <= z
    BY <1>7, <2>3, <2>4 DEF Skipped
  <2>7. PICK y \in Nat : y = HeardAfter(p, q) /\ a = w + y
    <3>1. HeardAfter(p, q) \in Nat
      BY DEF HeardAfter, Larger
    <3>2. SlackAfter(g) = Rounding(g) + HeardAfter(Period[g], OutPeriod)
      BY <1>11, SlackType
    <3> QED BY <1>7, <3>1, <3>2
  <2>8. 2 * ((j - 1) * q) <= 2 * (d * p) + y
    <3>1. n >= 1
      BY <1>4
    <3>2. 2 * ((j - 1) * q) <= 2 * (Spread(n, F, j) * p) + HeardAfter(p, q)
      BY <1>8, <2>1, <3>1, SpreadIs
    <3> QED BY <2>4, <2>7, <3>2
  <2>9. PICK h \in 1 .. Len(segment.audio) :
          /\ h = f + (1 + d) /\ h <= k /\ k - h = m - d
          /\ (q <= p => h = k)
          /\ j \in DOMAIN Sounds(segment, from, to)
          /\ Sounds(segment, from, to)[j] = segment.audio[h]
    <3>1. n = Len(part.audio) /\ n >= 1
      BY <1>4
    <3>2. F = Larger(1, Round(Len(part.audio) * Period[g], OutPeriod))
      BY <1>7, <2>1, <3>1
    <3>3. /\ DOMAIN Resample(g, part.audio) = 1 .. F
          /\ \A i \in 1 .. F : Resample(g, part.audio)[i] = part.audio[1 + Spread(n, F, i)]
      BY <1>3, <1>11, <3>1, <3>2, ResampleIs
    <3>4. 1 + d \in 1 .. n
      BY <2>4, <3>1
    <3>5. PICK l \in Nat : l = Len(segment.audio)
      BY <1>1
    <3>6. f + n <= l
      BY <1>4, <3>5
    <3>7. f + (1 + d) \in 1 .. l
      BY <3>4, <3>6
    <3>8. part.audio[1 + d] = segment.audio[f + (1 + d)]
      BY <1>4, <3>4
    <3>9. f + (1 + d) <= k /\ k - (f + (1 + d)) = m - d /\ (q <= p => f + (1 + d) = k)
      BY <1>9, <2>5
    <3> QED BY <1>6, <2>4, <3>3, <3>5, <3>7, <3>8, <3>9
  <2>10. 2 * (OutPeriod * (j - 1)) + Rounding(g) <= 2 * Ticks(g, k - f - 1) + SlackAfter(g)
    <3>1. p * d <= p * m
      BY <1>8, <2>5, Scales
    <3>2. PICK x \in Int, u \in Int, b \in Int : x = q * (j - 1) /\ u = p * m /\ b = p * d
      BY <2>2
    <3>3. d * p = b /\ m * p = u /\ (j - 1) * q = x
      BY <2>2, <3>2
    <3>4. 2 * x + w <= 2 * u + (w + y)
      <4>1. 2 * x <= 2 * b + y
        BY <2>8, <3>3
      <4>2. b <= u
        BY <3>1, <3>2
      <4> QED BY <4>1, <4>2
    <3>5. Ticks(g, k - f - 1) = u
      BY <1>7, <1>9, <3>3 DEF Ticks
    <3> QED BY <1>7, <2>7, <3>2, <3>4, <3>5
  <2>11. Near(segment.audio[h], segment, k, U)
    <3>1. Ticks(g, k - h) = (m - d) * p
      BY <1>7, <2>9 DEF Ticks
    <3>2. 2 * Ticks(segment.generation, k - h) <= Skipped(segment.generation)
      BY <1>2, <1>7, <2>6, <3>1
    <3>3. Period[segment.generation] >= OutPeriod => h = k
      BY <1>2, <1>7, <2>9
    <3> QED BY <2>9, <3>2, <3>3, NearIs
  <2>12. j \in Int /\ j >= 1
    BY <2>2
  <2> QED BY <1>2, <2>9, <2>10, <2>11, <2>12 DEF HeardNear
<1> QED BY <1>10, <1>11

\* A frame in the window is heard in it.
LEMMA FrameIsHeard ==
  ASSUME NEW U, NEW from \in Int, NEW to \in Int, NEW segment, Sane(segment, U, from),
         Recorded(U), NEW k \in 1 .. Len(segment.audio),
         InWindow(segment, k, U, from, to)
  PROVE  /\ Inside(segment, from, to)
         /\ \E place \in 0 .. Round(to - from, OutPeriod) - 1 :
              LET j == place - First(segment, from, to) + 1
              IN  /\ j \in DOMAIN Sounds(segment, from, to)
                  /\ Near(Sounds(segment, from, to)[j], segment, k, U)
<1>1. /\ Inside(segment, from, to)
      /\ 2 * Pos(segment, k) + SlackAfter(segment.generation) + OutPeriod < 2 * to
  BY FrameInside
<1>2. PICK f, n \in Nat, e \in Int : Placed(segment, from, to, f, n, e)
  BY <1>1, PlaceIs
<1>3. PICK first \in Nat : first = First(segment, from, to)
  BY <1>1, PlaceIs
<1>4. PICK g \in Generations, s \in Int : g = segment.generation /\ s = segment.start_time
  BY SegmentTypes DEF Sane
<1>18. PICK q \in Nat, w \in Nat, a \in Nat :
         q = OutPeriod /\ q >= 1 /\ w = Rounding(g) /\ a = SlackAfter(g)
  BY SlackType
<1>19. q >= 1
  BY <1>18
<1>6. PICK i \in Int, b \in Int : i = f /\ b = k - f - 1 /\ k - 1 = i + b /\ (f + 1) - 1 = i
  <2>1. f \in Nat /\ k \in Int
    BY SegmentTypes DEF Sane
  <2> QED BY <2>1
<1>7. PICK u \in Int, x \in Int :
        u = Ticks(g, i) /\ x = Ticks(g, b) /\ Ticks(g, i + b) = u + x
  <2>1. Ticks(g, i) \in Int /\ Ticks(g, b) \in Int
    BY TicksType
  <2>2. Ticks(g, i + b) = Ticks(g, i) + Ticks(g, b)
    BY TicksGrow
  <2> QED BY <2>1, <2>2
<1>5. PICK j \in DOMAIN Sounds(segment, from, to) :
        /\ j \in Int /\ j >= 1
        /\ 2 * (q * (j - 1)) + w <= 2 * x + a
        /\ Near(Sounds(segment, from, to)[j], segment, k, U)
  <2>1. HeardNear(segment, k, f, U, from, to)
    BY <1>2, SoundNear
  <2> QED BY <1>4, <1>6, <1>7, <1>18, <2>1 DEF HeardNear
<1>8. Pos(segment, k) = s + (u + x) /\ Pos(segment, f + 1) = s + u
  BY <1>4, <1>6, <1>7 DEF Pos
<1>20. PICK z \in Int, y \in Int, m \in Int :
         z = q * first /\ y = q * (j - 1) /\ m = q * (first + (j - 1)) /\ m = z + y
  <2>1. q * (first + (j - 1)) = q * first + q * (j - 1)
    BY <1>5
  <2>2. q * first \in Int /\ q * (j - 1) \in Int
    BY <1>5
  <2> QED BY <2>1, <2>2
<1>9. s + u = from + z + e /\ -w <= 2 * e
  <2>1. Pos(segment, f + 1) = from + z + e
    BY <1>2, <1>3, <1>18, <1>20 DEF Placed
  <2>2. Within(e, w)
    BY <1>2, <1>4, <1>18 DEF Placed
  <2> QED BY <1>8, <2>1, <2>2 DEF Within
<1>10. 2 * (s + (u + x)) + a + q < 2 * to
  BY <1>1, <1>4, <1>8, <1>18
<1>11. 2 * y + w <= 2 * x + a
  BY <1>5, <1>20
<1>21. m = z + y
  BY <1>20
<1>13. 2 * m < 2 * (to - from) - q
  BY <1>9, <1>10, <1>11, <1>21
<1>12. PICK place \in Int : place = first + (j - 1) /\ place >= 0 /\ place - first + 1 = j
  BY <1>5
<1>14. PICK r \in Int, v \in Int :
         r = Round(to - from, OutPeriod) /\ v = q * r /\ 2 * (to - from) <= 2 * v + q
  <2>1. PICK d \in Int : d = to - from
    OBVIOUS
  <2>2. /\ Round(d, q) \in Int /\ q * Round(d, q) \in Int
        /\ 2 * d <= 2 * (q * Round(d, q)) + q
    BY <1>19, RoundNear
  <2> QED BY <1>18, <2>1, <2>2
<1>22. 2 * (to - from) <= 2 * v + q
  BY <1>14
<1>15. m < v
  BY <1>13, <1>22
<1>16. place < r
  <2>1. q * place < q * r
    BY <1>12, <1>14, <1>15, <1>20
  <2> QED BY <1>19, <2>1, Scales
<1>17. place \in 0 .. r - 1
  BY <1>12, <1>16
<1> QED BY <1>1, <1>3, <1>5, <1>12, <1>14, <1>17

(***************************************************************************)
(* The window.                                                             *)
(***************************************************************************)
\* What is recent of what has been recorded.
LEMMA RecentIsCaptured ==
  ASSUME Recorded(chunks), NEW from, NEW to
  PROVE  Captured(Recent(from, to), from)
<1>1. Recent(from, to) \subseteq chunks
  BY DEF Recent
<1>2. IsFiniteSet(Recent(from, to))
  BY <1>1, FS_Subset DEF Recorded
<1> QED BY <1>1, <1>2 DEF Captured, Recorded, Recent

\* What is heard in the window, by segment.
LEMMA WindowIs ==
  ASSUME Recorded(chunks),
         NEW from \in Int, NEW to \in Int
  PROVE  LET heard    == Window(chunks, from, to)
             segments == ChunksToSegments(Recent(from, to))
         IN  /\ Whole(segments, Recent(from, to), from)
             /\ DOMAIN heard = 0 .. Round(to - from, OutPeriod) - 1
             /\ \A place \in DOMAIN heard : \A sound :
                  sound \in heard[place] <=> HeardFrom(segments, place, sound, from, to)
<1> DEFINE segments == ChunksToSegments(Recent(from, to))
<1>1. Captured(Recent(from, to), from)
  BY RecentIsCaptured
<1>2. Whole(segments, Recent(from, to), from)
  BY <1>1, SegmentsAreWhole
<1>3. segments \in Seq(SegmentType)
  BY <1>2 DEF Whole
<1>4. Window(chunks, from, to) = Render(TrimToWindow(segments, from, to), from, to)
  BY DEF Window, Recent
<1> QED BY <1>2, <1>3, <1>4, HeardIs

\* No sound drifts.
LEMMA WindowDrifts ==
  ASSUME Recorded(chunks)
  PROVE  DriftBounded
<1> SUFFICES ASSUME NEW from \in WindowStarts, NEW to \in WindowEnds,
                    NEW place \in DOMAIN Window(chunks, from, to),
                    NEW sound \in Window(chunks, from, to)[place]
             PROVE  LET drift == sound.time - (from + OutPeriod * place)
                        g     == sound.generation
                    IN  /\ 2 * drift
                             <= 2 * ClosedUpTo(sound, Recent(from, to)) + SlackBefore(g)
                        /\ -2 * drift
                             <= 2 * OverlappingUpTo(sound, Recent(from, to)) + SlackAfter(g)
  BY DEF DriftBounded
<1>1. from \in Int /\ to \in Int
  BY AudioAssumption
<1> DEFINE segments == ChunksToSegments(Recent(from, to))
<1>2. Whole(segments, Recent(from, to), from)
  BY <1>1, WindowIs
<1>3. place \in Int
  <2>1. DOMAIN Window(chunks, from, to) = 0 .. Round(to - from, OutPeriod) - 1
    BY <1>1, WindowIs
  <2> QED BY <2>1
<1>4. PICK i \in 1 .. Len(segments) :
        /\ Inside(segments[i], from, to)
        /\ place - First(segments[i], from, to) + 1 \in DOMAIN Sounds(segments[i], from, to)
        /\ sound = Sounds(segments[i], from, to)[place - First(segments[i], from, to) + 1]
  <2>1. HeardFrom(segments, place, sound, from, to)
    BY <1>1, WindowIs
  <2> QED BY <2>1 DEF HeardFrom
<1>5. Sane(segments[i], Recent(from, to), from)
  BY <1>2 DEF Whole
<1>6. Recorded(Recent(from, to))
  BY RecentIsCaptured DEF Captured
<1>7. PICK j : j = place - First(segments[i], from, to) + 1
  OBVIOUS
<1> HIDE DEF segments
<1> QED BY <1>1, <1>3, <1>4, <1>5, <1>6, <1>7, SoundDrifts

\* No frame is lost.
LEMMA WindowHears ==
  ASSUME Recorded(chunks)
  PROVE  EveryFrameHeard
<1> DEFINE Stands(sound, frame, from, to) ==
             LET g           == frame.generation
                 closed      == ClosedUpTo(frame, Recent(from, to))
                 overlapping == OverlappingUpTo(frame, Recent(from, to))
             IN  /\ sound.generation = g
                 /\ Period[g] >= OutPeriod => sound.time = frame.time
                 /\ 2 * (frame.time - sound.time) <= Skipped(g) + 2 * closed
                 /\ sound.time - frame.time <= overlapping
<1> SUFFICES ASSUME NEW from \in WindowStarts, NEW to \in WindowEnds,
                    NEW chunk \in chunks, NEW frame \in ToSet(Frames(chunk)),
                    from < frame.time,
                    2 * (frame.time + OverlappingUpTo(frame, Recent(from, to)))
                      + SlackAfter(frame.generation) + OutPeriod < 2 * to
             PROVE  \E sound \in UNION {Window(chunks, from, to)[place] :
                                          place \in DOMAIN Window(chunks, from, to)} :
                      Stands(sound, frame, from, to)
  BY DEF EveryFrameHeard
<1> HIDE DEF Stands
<1>1. from \in Int /\ to \in Int
  BY AudioAssumption
<1> DEFINE heard    == Window(chunks, from, to)
           segments == ChunksToSegments(Recent(from, to))
<1>2. /\ chunk \in ChunkType
      /\ chunk.generation \in Generations /\ chunk.start_time \in Int
      /\ FramesPerBuffer \in Nat
      /\ ChunkEndTime(chunk) = chunk.start_time + Duration(chunk)
      /\ Duration(chunk) = FramesPerBuffer * Period[chunk.generation]
  BY ChunkTypes DEF Recorded
<1>3. PICK m \in 1 .. FramesPerBuffer :
        /\ frame = Frames(chunk)[m]
        /\ frame = [generation |-> chunk.generation,
                    time |-> chunk.start_time + Ticks(chunk.generation, m - 1)]
  <2>1. DOMAIN Frames(chunk) = 1 .. FramesPerBuffer
    BY <1>2, FramesAre
  <2>2. \E m \in DOMAIN Frames(chunk) : frame = Frames(chunk)[m]
    BY DEF ToSet
  <2> QED BY <1>2, <2>1, <2>2, FramesAre
<1>4. chunk \in Recent(from, to)
  <2>1. PICK g \in Generations, a \in Int, b \in Int :
          g = chunk.generation /\ a = m - 1 /\ b = FramesPerBuffer
    BY <1>2
  <2>2. 0 <= a /\ a <= b /\ 0 \in Int
    BY <1>2, <2>1
  <2>3. /\ Ticks(g, a) \in Int /\ Ticks(g, b) \in Int
        /\ Ticks(g, 0) = 0
        /\ Ticks(g, 0) <= Ticks(g, a) /\ Ticks(g, a) <= Ticks(g, b)
    BY <2>1, <2>2, TicksType, TicksGrow
  <2>4. frame.time = chunk.start_time + Ticks(g, a)
    BY <1>3, <2>1
  <2>5. ChunkEndTime(chunk) = chunk.start_time + Ticks(g, b)
    BY <1>2, <2>1 DEF Ticks
  <2>6. Recorded(Recent(from, to))
    BY RecentIsCaptured DEF Captured
  <2>7. PICK v \in Nat, x \in Nat, q \in Nat :
          /\ v = OverlappingUpTo(frame, Recent(from, to))
          /\ x = SlackAfter(frame.generation) /\ q = OutPeriod
    <3>1. OverlappingUpTo(frame, Recent(from, to)) \in Nat
      BY <2>6, UpToGrows
    <3>2. frame.generation \in Generations
      BY <1>2, <1>3
    <3> QED BY <3>1, <3>2, SlackType
  <2>10. 2 * (frame.time + v) + x + q < 2 * to
    BY <2>7
  <2>8. chunk.start_time < to
    BY <1>1, <1>2, <2>3, <2>4, <2>10
  <2>9. ChunkEndTime(chunk) > from
    BY <1>1, <1>2, <2>3, <2>4, <2>5
  <2> QED BY <2>8, <2>9 DEF Recent
<1>5. Captured(Recent(from, to), from)
  BY RecentIsCaptured
<1>6. /\ Whole(segments, Recent(from, to), from)
      /\ HasFrame(segments, Frames(chunk)[m])
  BY <1>1, <1>4, <1>5, SegmentsAreWhole
<1>7. PICK i \in 1 .. Len(segments) : \E k \in 1 .. Len(segments[i].audio) :
        segments[i].audio[k] = frame
  BY <1>3, <1>6 DEF HasFrame
<1>8. PICK segment : segment = segments[i]
  OBVIOUS
<1>10. Sane(segment, Recent(from, to), from)
  BY <1>6, <1>8 DEF Whole
<1>9. PICK k \in 1 .. Len(segment.audio) : segment.audio[k] = frame
  BY <1>7, <1>8
<1>19. segment.generation = frame.generation
  BY <1>9, <1>10 DEF Sane
<1>11. InWindow(segment, k, Recent(from, to), from, to)
  BY <1>9, <1>19 DEF InWindow
<1>12. Recorded(Recent(from, to))
  BY <1>5 DEF Captured
<1>13. /\ Inside(segment, from, to)
       /\ \E place \in 0 .. Round(to - from, OutPeriod) - 1 :
            LET j == place - First(segment, from, to) + 1
            IN  /\ j \in DOMAIN Sounds(segment, from, to)
                /\ Near(Sounds(segment, from, to)[j], segment, k, Recent(from, to))
  BY <1>1, <1>9, <1>10, <1>11, <1>12, FrameIsHeard
<1>14. PICK place \in 0 .. Round(to - from, OutPeriod) - 1 :
         /\ place - First(segment, from, to) + 1 \in DOMAIN Sounds(segment, from, to)
         /\ Near(Sounds(segment, from, to)[place - First(segment, from, to) + 1],
                 segment, k, Recent(from, to))
  BY <1>13
<1>15. PICK sound : sound = Sounds(segment, from, to)[place - First(segment, from, to) + 1]
  OBVIOUS
<1>16. place \in DOMAIN heard /\ sound \in heard[place]
  <2>1. DOMAIN heard = 0 .. Round(to - from, OutPeriod) - 1
    BY <1>1, WindowIs
  <2>2. HeardFrom(segments, place, sound, from, to)
    BY <1>8, <1>13, <1>14, <1>15 DEF HeardFrom
  <2> QED BY <1>1, <2>1, <2>2, WindowIs
<1>17. Stands(sound, frame, from, to)
  BY <1>9, <1>14, <1>15, <1>19 DEF Near, Stands
<1> HIDE DEF heard
<1>18. sound \in UNION {heard[x] : x \in DOMAIN heard}
  BY <1>16
<1> QED BY <1>17, <1>18 DEF heard

\* The chunks are of known devices.
LEMMA ChunksAreRecorded ==
  /\ Init => Recorded(chunks)
  /\ Recorded(chunks) /\ [Next]_vars => Recorded(chunks)'
<1>1. Init => Recorded(chunks)
  BY FS_EmptySet DEF Init, Recorded
<1>2. ASSUME Recorded(chunks), [Next]_vars PROVE Recorded(chunks)'
  <2>1. ASSUME AddChunkOfAudio PROVE Recorded(chunks)'
    <3>1. PICK generation \in DOMAIN Period, start \in ChunkStarts :
            chunks' = chunks \cup {[generation |-> generation, start_time |-> start,
                                    frames |-> FramesPerBuffer]}
      BY <2>1 DEF AddChunkOfAudio
    <3>2. [generation |-> generation, start_time |-> start, frames |-> FramesPerBuffer]
             \in ChunkType
      BY AudioAssumption DEF ChunkType, Generations
    <3>3. IsFiniteSet(chunks') /\ chunks' \subseteq ChunkType
      BY <1>2, <3>1, <3>2, FS_AddElement DEF Recorded
    <3> QED BY <3>3 DEF Recorded, ChunkType, Generations
  <2>2. ASSUME UNCHANGED chunks PROVE Recorded(chunks)'
    BY <1>2, <2>2 DEF Recorded, ChunkType, Generations
  <2>3. CASE AddNode
    BY <2>2, <2>3 DEF AddNode
  <2>4. CASE AddObservation
    BY <2>2, <2>4 DEF AddObservation
  <2>5. CASE UNCHANGED vars
    BY <2>2, <2>5 DEF vars
  <2> QED BY <1>2, <2>1, <2>3, <2>4, <2>5 DEF Next
<1> QED BY <1>1, <1>2

\* Whatever the chunks of devices of any number and any sample rates, and wherever the
\* window, a sound is heard where it was recorded, but for rounding and resampling, the
\* silences closed before it and what chunks before it overlap (snapshot_mixed_window).
THEOREM SoundsAreInPlace == Spec => []DriftBounded
<1>1. Recorded(chunks) => DriftBounded
  BY WindowDrifts
<1> QED BY <1>1, ChunksAreRecorded, PTL DEF Spec

\* Whatever the chunks and the sample rates, every frame recorded inside the window is
\* heard in it: itself if its device is no faster than the output, and if it is, itself or
\* a frame at most Skipped before it, less than two and a half places of the output, but
\* for the silences closed and the chunks that overlap (snapshot_mixed_window).
THEOREM FramesAreHeard == Spec => []EveryFrameHeard
<1>1. Recorded(chunks) => EveryFrameHeard
  BY WindowHears
<1> QED BY <1>1, ChunksAreRecorded, PTL DEF Spec
=============================================================================
