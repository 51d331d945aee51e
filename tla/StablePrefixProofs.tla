-------------------------- MODULE StablePrefixProofs --------------------------
(***************************************************************************)
(* Theorems about the aggregator, for any speech, any report of it, any    *)
(* windows and any thresholds: its types, that a client which applies the  *)
(* patches has its text, and that the committed text is never taken back.  *)
(* They need nothing of what the alignment finds: whatever it pairs, the   *)
(* tail is made of tokens that were there and of words just reported.      *)
(*                                                                         *)
(* The last six are about what is heard: a token stands for one word, was  *)
(* heard as often as it counts and is final in its turn, no word reported  *)
(* is lost, none is final twice, and one that every window heard is final  *)
(* once it has left the window.  They need words that cannot be taken for  *)
(* each other, and each names what else it needs of the speech.            *)
(***************************************************************************)
EXTENDS StablePrefix, FiniteSetTheorems, WellFoundedInduction, TLAPS

-----------------------------------------------------------------------------
(***************************************************************************)
(* Kept.  The place of an element among those that are kept is the number  *)
(* of kept elements up to it, which makes the places of a finite set a     *)
(* bijection: Place always finds an element.                               *)
(***************************************************************************)
\* The place of an element is its own.
LEMMA PlaceIsOwn ==
  ASSUME NEW I, I \subseteq Nat, IsFiniteSet(I), NEW i \in I
  PROVE  /\ Cardinality({x \in I : x <= i}) \in 1 .. Cardinality(I)
         /\ \A j \in I : i # j =>
              Cardinality({x \in I : x <= i}) # Cardinality({x \in I : x <= j})
<1> DEFINE Upto(j) == {x \in I : x <= j}
<1>1. \A j \in I : IsFiniteSet(Upto(j)) /\ Cardinality(Upto(j)) <= Cardinality(I)
  <2> TAKE j \in I
  <2> QED BY FS_Subset
<1>2. Cardinality(Upto(i)) \in 1 .. Cardinality(I)
  <2>1. i \in Upto(i)
    BY DEF Upto
  <2>2. Cardinality(Upto(i)) \in Nat /\ Cardinality(Upto(i)) # 0
    BY <1>1, <2>1, FS_CardinalityType, FS_EmptySet
  <2>3. Cardinality(I) \in Nat
    BY FS_CardinalityType
  <2> QED BY <1>1, <2>2, <2>3
<1>3. ASSUME NEW y \in I, NEW z \in I, y < z, Cardinality(Upto(y)) = Cardinality(Upto(z))
      PROVE  FALSE
  <2>1. Upto(y) \in SUBSET Upto(z) /\ z \in Upto(z) /\ z \notin Upto(y)
    <3>1. \A u, v, w \in Nat : u <= v /\ v < w => u <= w /\ ~(w <= v) /\ w <= w
      OBVIOUS
    <3>2. \A x \in I : x <= y => x <= z
      BY <1>3, <3>1
    <3>3. z <= z /\ ~(z <= y)
      BY <1>3, <3>1
    <3> QED BY <3>2, <3>3
  <2>2. Upto(y) = Upto(z)
    BY <1>1, <1>3, <2>1, FS_Subset
  <2> QED BY <2>1, <2>2
<1>4. ASSUME NEW j \in I, i # j PROVE Cardinality(Upto(i)) # Cardinality(Upto(j))
  <2>1. i < j \/ j < i
    BY <1>4
  <2> QED BY <1>3, <2>1
<1> QED BY <1>2, <1>4

\* Every place is taken by an element.
LEMMA PlaceOf ==
  ASSUME NEW I, I \subseteq Nat, IsFiniteSet(I), NEW n \in 1 .. Cardinality(I)
  PROVE  Place(I, n) \in I /\ Cardinality({j \in I : j <= Place(I, n)}) = n
<1> DEFINE Upto(i) == {j \in I : j <= i}
           rank == [i \in I |-> Cardinality(Upto(i))]
<1>1. /\ \A i \in I : rank[i] \in 1 .. Cardinality(I)
      /\ \A i, j \in I : i # j => rank[i] # rank[j]
  <2>1. /\ \A i \in I : Cardinality(Upto(i)) \in 1 .. Cardinality(I)
        /\ \A i, j \in I : i # j => Cardinality(Upto(i)) # Cardinality(Upto(j))
    BY PlaceIsOwn, Zenon
  <2> QED BY <2>1, Zenon
<1>2. rank \in Injection(I, 1 .. Cardinality(I))
  BY <1>1 DEF Injection, IsInjective
<1>3. IsFiniteSet(1 .. Cardinality(I)) /\ Cardinality(1 .. Cardinality(I)) = Cardinality(I)
  BY FS_CardinalityType, FS_Interval
<1>4. rank \in Surjection(I, 1 .. Cardinality(I))
  BY <1>2, <1>3, FS_Injection
<1>5. PICK i \in I : rank[i] = n
  BY <1>4 DEF Surjection
<1> QED BY <1>5 DEF Place

\* The places ascend.
LEMMA PlacesAscend ==
  ASSUME NEW I, I \subseteq Nat, IsFiniteSet(I),
         NEW m \in 1 .. Cardinality(I), NEW n \in 1 .. Cardinality(I), m < n
  PROVE  Place(I, m) < Place(I, n)
<1> DEFINE Upto(i) == {j \in I : j <= i}
<1>1. PICK x, y : x = Place(I, m) /\ y = Place(I, n)
  OBVIOUS
<1>2. x \in I /\ y \in I /\ Cardinality(Upto(x)) = m /\ Cardinality(Upto(y)) = n
  BY <1>1, PlaceOf
<1>3. ASSUME ~(x < y) PROVE FALSE
  <2>1. x \in Nat /\ y \in Nat /\ y <= x
    BY <1>2, <1>3
  <2>2. \A j \in Nat : j <= y => j <= x
    BY <2>1
  <2>3. Upto(y) \subseteq Upto(x) /\ IsFiniteSet(Upto(x))
    BY <2>2, FS_Subset
  <2>4. Cardinality(Upto(y)) <= Cardinality(Upto(x))
    BY <2>3, FS_Subset
  <2> QED BY <1>2, <2>4
<1> QED BY <1>1, <1>3

\* The elements kept of a sequence are elements of it.
LEMMA KeptIsSeq ==
  ASSUME NEW S, NEW s \in Seq(S), NEW I, I \subseteq DOMAIN s
  PROVE  Among(s, I) \in Seq(S) /\ Range(Among(s, I)) \subseteq {s[i] : i \in I}
<1>1. IsFiniteSet(I) /\ I \subseteq Nat
  <2>1. IsFiniteSet(1 .. Len(s))
    BY FS_Interval
  <2> QED BY <2>1, FS_Subset
<1>2. Cardinality(I) \in Nat
  BY <1>1, FS_CardinalityType
<1>3. \A n \in 1 .. Cardinality(I) : Place(I, n) \in I
  BY <1>1, PlaceOf
<1>4. Among(s, I) \in [1 .. Cardinality(I) -> S]
  BY <1>3 DEF Among
<1> QED BY <1>2, <1>3, <1>4 DEF Among, Range


\* A set of numbers has a least one.
LEMMA LeastOf ==
  ASSUME NEW T, T \subseteq Nat, T # {}
  PROVE  Min(T) \in T /\ \A y \in T : Min(T) <= y
<1>1. PICK x \in T : \A y \in T : ~(<<y, x>> \in OpToRel(<, Nat))
  <2>1. IsWellFoundedOn(OpToRel(<, Nat), Nat)
    BY NatLessThanWellFounded
  <2> QED BY <2>1, WFMin
<1>2. \A y \in T : y < x => <<y, x>> \in OpToRel(<, Nat)
  BY DEF OpToRel
<1>3. \A y \in T : ~(y < x)
  BY <1>1, <1>2
<1>4. \A y \in T : x <= y
  BY <1>3
<1> QED BY <1>4 DEF Min

(***************************************************************************)
(* The pairs Align finds.  TLA+ does not promise that the recursion of     *)
(* Table has a solution: it is built diagonal by diagonal.                 *)
(***************************************************************************)
\* Induction for a set of numbers.
LEMMA SetInduction ==
  ASSUME NEW S, S \subseteq Nat, 0 \in S, \A n \in S : n + 1 \in S
  PROVE  S = Nat
<1> SUFFICES ASSUME Nat \ S # {} PROVE FALSE
  OBVIOUS
<1> DEFINE T == Nat \ S
<1>1. T \subseteq Nat /\ T # {}
  OBVIOUS
<1> HIDE DEF T
<1>2. Min(T) \in T /\ \A y \in T : Min(T) <= y
  BY <1>1, LeastOf
<1>3. Min(T) - 1 \in Nat /\ Min(T) - 1 \notin T
  <2>1. Min(T) \in Nat /\ Min(T) # 0
    BY <1>1, <1>2 DEF T
  <2> QED BY <1>2, <2>1
<1> QED BY <1>2, <1>3 DEF T

Cells(m, n) == (0 .. m) \X (0 .. n)

Agree(f, g, m, n, k) ==
    \A i \in 0 .. m, j \in 0 .. n : i + j < k => f[<<i, j>>] = g[<<i, j>>]

\* An entry depends on its neighbours to the left and above.
LEMMA EntryLocal ==
  ASSUME NEW nodes, NEW obs, NEW m \in Nat, NEW n \in Nat,
         NEW i \in 0 .. m, NEW j \in 0 .. n, NEW f, NEW g, Agree(f, g, m, n, i + j)
  PROVE  Entry(f, nodes, obs, i, j) = Entry(g, nodes, obs, i, j)
<1>1. CASE i = 0 \/ j = 0
  BY <1>1 DEF Entry
<1>2. CASE i > 0 /\ j > 0
  <2>1. f[<<i - 1, j>>] = g[<<i - 1, j>>] /\ f[<<i, j - 1>>] = g[<<i, j - 1>>]
    BY <1>2 DEF Agree
  <2>2. f[<<i - 1, j - 1>>] = g[<<i - 1, j - 1>>]
    BY <1>2 DEF Agree
  <2> QED BY <2>1, <2>2 DEF Entry
<1> QED BY <1>1, <1>2

\* The recursion of Table has a solution.
LEMMA TableExists ==
  ASSUME NEW nodes, NEW obs, NEW m \in Nat, NEW n \in Nat
  PROVE  \E f : f = [ij \in Cells(m, n) |-> Entry(f, nodes, obs, ij[1], ij[2])]
<1> DEFINE Step(f) == [ij \in Cells(m, n) |-> Entry(f, nodes, obs, ij[1], ij[2])]
           S == {k \in Nat : \E f : Agree(f, Step(f), m, n, k)}
<1>1. \A f : \A i \in 0 .. m, j \in 0 .. n :
        Step(f)[<<i, j>>] = Entry(f, nodes, obs, i, j)
  BY DEF Cells
<1> HIDE DEF Step
<1>2. 0 \in S
  <2> DEFINE f == [ij \in {} |-> 0]
  <2>1. Agree(f, Step(f), m, n, 0)
    BY DEF Agree
  <2> QED BY <2>1
<1>3. ASSUME NEW k \in Nat, NEW f, Agree(f, Step(f), m, n, k)
      PROVE  Agree(Step(f), Step(Step(f)), m, n, k + 1)
  <2> SUFFICES ASSUME NEW i \in 0 .. m, NEW j \in 0 .. n, i + j < k + 1
               PROVE  Step(f)[<<i, j>>] = Step(Step(f))[<<i, j>>]
    BY DEF Agree
  <2>1. PICK g : g = Step(f)
    OBVIOUS
  <2>2. Agree(f, g, m, n, i + j)
    BY <1>3, <2>1 DEF Agree
  <2>3. Entry(f, nodes, obs, i, j) = Entry(g, nodes, obs, i, j)
    BY <2>2, EntryLocal
  <2>4. /\ Step(f)[<<i, j>>] = Entry(f, nodes, obs, i, j)
        /\ Step(g)[<<i, j>>] = Entry(g, nodes, obs, i, j)
    BY <1>1
  <2> QED BY <2>1, <2>3, <2>4
<1>4. S = Nat
  <2>1. S \subseteq Nat /\ \A k \in S : k + 1 \in S
    BY <1>3
  <2> HIDE DEF S
  <2> QED BY <1>2, <2>1, SetInduction
<1>5. PICK f : Agree(f, Step(f), m, n, m + n)
  <2>1. m + n \in S
    BY <1>4
  <2> QED BY <2>1
<1>6. Agree(Step(f), Step(Step(f)), m, n, m + n + 1)
  BY <1>3, <1>5
<1>7. Step(f) = Step(Step(f))
  <2>1. \A c \in Cells(m, n) : Step(f)[c] = Step(Step(f))[c]
    <3> TAKE c \in Cells(m, n)
    <3>1. PICK i \in 0 .. m, j \in 0 .. n : c = <<i, j>>
      BY DEF Cells
    <3>2. i + j < m + n + 1
      OBVIOUS
    <3> QED BY <1>6, <3>1, <3>2 DEF Agree
  <2>2. /\ Step(f) = [c \in Cells(m, n) |-> Step(f)[c]]
        /\ Step(Step(f)) = [c \in Cells(m, n) |-> Step(Step(f))[c]]
    BY DEF Step
  <2> QED BY <2>1, <2>2
<1> QED BY <1>7 DEF Step

\* What Align pairs is similar.
LEMMA AlignedAreSimilar ==
  ASSUME NEW nodes, NEW obs, Len(nodes) \in Nat, Len(obs) \in Nat
  PROVE  \A p \in Align(nodes, obs) : /\ p[1] \in 1 .. Len(nodes) /\ p[2] \in 1 .. Len(obs)
                                      /\ Similar(nodes[p[1]], obs[p[2]])
<1> DEFINE m == Len(nodes)
           n == Len(obs)
           T == Table(nodes, obs)
           Alike(pairs) == \A p \in pairs : /\ p[1] \in 1 .. m /\ p[2] \in 1 .. n
                                            /\ Similar(nodes[p[1]], obs[p[2]])
           S == {k \in Nat : \A i \in 0 .. m, j \in 0 .. n :
                                i + j < k => Alike(T[<<i, j>>].pairs)}
<1>1. T = [ij \in Cells(m, n) |-> Entry(T, nodes, obs, ij[1], ij[2])]
  BY TableExists DEF Table, Cells
<1> HIDE DEF T
<1>2. \A i \in 0 .. m, j \in 0 .. n : T[<<i, j>>] = Entry(T, nodes, obs, i, j)
  <2>1. \A i \in 0 .. m, j \in 0 .. n : <<i, j>> \in Cells(m, n)
    BY DEF Cells
  <2> HIDE DEF m, n
  <2> QED BY <1>1, <2>1
<1>3. ASSUME NEW k \in S PROVE k + 1 \in S
  <2> SUFFICES ASSUME NEW i \in 0 .. m, NEW j \in 0 .. n, i + j < k + 1
               PROVE  Alike(Entry(T, nodes, obs, i, j).pairs)
    BY <1>2
  <2>1. CASE i = 0 \/ j = 0
    BY <2>1 DEF Entry
  <2>2. CASE i > 0 /\ j > 0
    <3>1. /\ Alike(T[<<i - 1, j>>].pairs) /\ Alike(T[<<i, j - 1>>].pairs)
          /\ Alike(T[<<i - 1, j - 1>>].pairs)
      <4>1. /\ i - 1 \in 0 .. m /\ j - 1 \in 0 .. n
            /\ (i - 1) + j < k /\ i + (j - 1) < k /\ (i - 1) + (j - 1) < k
        BY <2>2
      <4>2. \A x \in 0 .. m, y \in 0 .. n : x + y < k => Alike(T[<<x, y>>].pairs)
        BY <1>3
      <4> HIDE DEF Alike, m, n, S
      <4> QED BY <4>1, <4>2
    <3>2. \/ Entry(T, nodes, obs, i, j).pairs \in
               {T[<<i - 1, j>>].pairs, T[<<i, j - 1>>].pairs}
          \/ /\ Similar(nodes[i], obs[j])
             /\ Entry(T, nodes, obs, i, j).pairs = T[<<i - 1, j - 1>>].pairs \cup {<<i, j>>}
      <4> DEFINE gap     == Better(Skip(T[<<i, j - 1>>]), Skip(T[<<i - 1, j>>]))
                 matched == Match(T[<<i - 1, j - 1>>], nodes[i], obs[j], <<i, j>>)
      <4>1. Entry(T, nodes, obs, i, j) =
              IF Similar(nodes[i], obs[j]) THEN MatchOrGap(matched, gap) ELSE gap
        BY <2>2 DEF Entry
      <4>2. gap.pairs \in {T[<<i - 1, j>>].pairs, T[<<i, j - 1>>].pairs}
        BY DEF Better, Skip
      <4>3. matched.pairs = T[<<i - 1, j - 1>>].pairs \cup {<<i, j>>}
        BY DEF Match
      <4> HIDE DEF gap, matched
      <4> QED BY <4>1, <4>2, <4>3 DEF MatchOrGap, Better
    <3>3. \A e : \/ e.pairs \in {T[<<i - 1, j>>].pairs, T[<<i, j - 1>>].pairs}
                 \/ /\ Similar(nodes[i], obs[j])
                    /\ e.pairs = T[<<i - 1, j - 1>>].pairs \cup {<<i, j>>}
                 => Alike(e.pairs)
      <4>1. /\ <<i, j>>[1] = i /\ <<i, j>>[2] = j
            /\ i \in 1 .. m /\ j \in 1 .. n
        BY <2>2
      <4> HIDE DEF m, n
      <4> QED BY <3>1, <4>1
    <3> QED BY <3>2, <3>3
  <2> QED BY <2>1, <2>2
<1>4. S = Nat
  <2>1. S \subseteq Nat /\ 0 \in S
    OBVIOUS
  <2> HIDE DEF S
  <2> QED BY <1>3, <2>1, SetInduction
<1>5. /\ m + n + 1 \in Nat /\ m \in 0 .. m /\ n \in 0 .. n /\ m + n < m + n + 1
  <2>1. m \in Nat /\ n \in Nat
    OBVIOUS
  <2> HIDE DEF m, n
  <2> QED BY <2>1
<1>6. Alike(T[<<m, n>>].pairs)
  BY <1>4, <1>5
<1>7. T[<<m, n>>].pairs = Align(nodes, obs)
  BY DEF Align, T
<1> HIDE DEF S
<1> QED BY <1>6, <1>7

(***************************************************************************)
(* What can be paired is paired, if no two pairs of similar tokens cross   *)
(* or share an end: the table then has no choice to make.  A pair is worth *)
(* more than leaving out its two ends, so an entry exceeds the one above   *)
(* it by more than a gap just when its last node has a partner (GoodAt).   *)
(***************************************************************************)
Unambiguous(nodes, obs) ==
    \A x1, x2 \in 1 .. Len(nodes), y1, y2 \in 1 .. Len(obs) :
        Similar(nodes[x1], obs[y1]) /\ Similar(nodes[x2], obs[y2]) =>
            /\ x1 = x2 <=> y1 = y2
            /\ x1 < x2 => y1 < y2

SimilarPairs(nodes, obs, i, j) ==
    {p \in (1 .. i) \X (1 .. j) : Similar(nodes[p[1]], obs[p[2]])}

NodeTaken(nodes, obs, i, j) == \E y \in 1 .. j : Similar(nodes[i], obs[y])
ObsTaken(nodes, obs, i, j)  == \E x \in 1 .. i : Similar(nodes[x], obs[j])

GoodAt(T, nodes, obs, i, j) ==
    /\ T[<<i, j>>].pairs = SimilarPairs(nodes, obs, i, j)
    /\ T[<<i, j>>].score \in Int
    /\ i > 0 => IF NodeTaken(nodes, obs, i, j)
                THEN T[<<i, j>>].score > T[<<i - 1, j>>].score + Gap
                ELSE T[<<i, j>>].score = T[<<i - 1, j>>].score + Gap
    /\ j > 0 => IF ObsTaken(nodes, obs, i, j)
                THEN T[<<i, j>>].score > T[<<i, j - 1>>].score + Gap
                ELSE T[<<i, j>>].score = T[<<i, j - 1>>].score + Gap

\* A pair is worth more than two gaps.
LEMMA MatchGains ==
  ASSUME NEW node, NEW obs, Similar(node, obs),
         node.start \in Int, node.end \in Int, obs.start \in Int, obs.end \in Int,
         obs.score \in Nat
  PROVE  Gap \in Int /\ MatchScore(node, obs) \in Int /\ MatchScore(node, obs) > 2 * Gap
<1> DEFINE d == Distance(Center(node), Center(obs))
<1>1. Delta \in Nat \ {0} /\ Full \in Nat \ {0}
  BY AlignmentAssumption
<1>2. d \in Nat /\ 2 * Delta - d \in Nat
  <2>1. d \in Int /\ d >= 0
    BY DEF Distance, Center
  <2>2. d <= 2 * Delta
    BY DEF Similar
  <2> HIDE DEF d
  <2> QED BY <1>1, <2>1, <2>2
<1> HIDE DEF d
<1>3. \A a, b \in Nat : a * b \in Nat
  OBVIOUS
<1>4. \A a, b \in Nat \ {0} : a * b \in Nat \ {0}
  OBVIOUS
<1>5. Delta * Full \in Nat \ {0} /\ (2 * Delta - d) * Full \in Nat /\ Delta * obs.score \in Nat
  BY <1>1, <1>2, <1>3, <1>4
<1>6. /\ MatchScore(node, obs) = 40 * (Delta * Full) + 10 * ((2 * Delta - d) * Full)
                                 + 10 * (Delta * obs.score)
      /\ Gap = -(16 * (Delta * Full))
  <2>1. \A a, b, c, e \in Int : /\ 40 * a * b = 40 * (a * b) /\ 10 * c * b = 10 * (c * b)
                                /\ 10 * a * e = 10 * (a * e) /\ -16 * a * b = -(16 * (a * b))
    OBVIOUS
  <2>2. Delta \in Int /\ Full \in Int /\ 2 * Delta - d \in Int /\ obs.score \in Int
    BY <1>1, <1>2
  <2> QED BY <2>1, <2>2 DEF MatchScore, Gap, d
<1> QED BY <1>5, <1>6

\* The pairs of a table's corner.
LEMMA SimilarPairsAre ==
  ASSUME NEW nodes, NEW obs, NEW m, NEW n, NEW p
  PROVE  p \in SimilarPairs(nodes, obs, m, n) <=>
           \E x \in 1 .. m, y \in 1 .. n : p = <<x, y>> /\ Similar(nodes[x], obs[y])
  BY DEF SimilarPairs

\* A row or a column without a pair adds none.
LEMMA PairsGrow ==
  ASSUME NEW nodes, NEW obs, NEW i \in Nat \ {0}, NEW j \in Nat \ {0}
  PROVE  LET All(x, y) == SimilarPairs(nodes, obs, x, y)
             NodeFree  == ~NodeTaken(nodes, obs, i, j - 1)
             ObsFree   == ~ObsTaken(nodes, obs, i - 1, j)
         IN  /\ ~Similar(nodes[i], obs[j]) /\ NodeFree => All(i, j) = All(i - 1, j)
             /\ ~Similar(nodes[i], obs[j]) /\ ObsFree => All(i, j) = All(i, j - 1)
             /\ Similar(nodes[i], obs[j]) /\ NodeFree /\ ObsFree =>
                  All(i, j) = All(i - 1, j - 1) \cup {<<i, j>>}
<1> DEFINE All(x, y) == SimilarPairs(nodes, obs, x, y)
           NodeFree  == ~NodeTaken(nodes, obs, i, j - 1)
           ObsFree   == ~ObsTaken(nodes, obs, i - 1, j)
<1>1. 1 .. j = (1 .. j - 1) \cup {j} /\ 1 .. i = (1 .. i - 1) \cup {i}
  OBVIOUS
<1>2. \A p : p \in All(i, j) <=>
         \E x \in 1 .. i, y \in 1 .. j : p = <<x, y>> /\ Similar(nodes[x], obs[y])
  BY SimilarPairsAre
<1>3. \A p : p \in All(i - 1, j) <=>
         \E x \in 1 .. i - 1, y \in 1 .. j : p = <<x, y>> /\ Similar(nodes[x], obs[y])
  BY SimilarPairsAre
<1>4. \A p : p \in All(i, j - 1) <=>
         \E x \in 1 .. i, y \in 1 .. j - 1 : p = <<x, y>> /\ Similar(nodes[x], obs[y])
  BY SimilarPairsAre
<1>5. \A p : p \in All(i - 1, j - 1) <=>
         \E x \in 1 .. i - 1, y \in 1 .. j - 1 : p = <<x, y>> /\ Similar(nodes[x], obs[y])
  BY SimilarPairsAre
<1> HIDE DEF All
<1>6. ASSUME ~Similar(nodes[i], obs[j]), NodeFree PROVE All(i, j) = All(i - 1, j)
  BY <1>1, <1>2, <1>3, <1>6 DEF NodeTaken
<1>7. ASSUME ~Similar(nodes[i], obs[j]), ObsFree PROVE All(i, j) = All(i, j - 1)
  BY <1>1, <1>2, <1>4, <1>7 DEF ObsTaken
<1>8. ASSUME Similar(nodes[i], obs[j]), NodeFree, ObsFree
      PROVE  All(i, j) = All(i - 1, j - 1) \cup {<<i, j>>}
  <2>1. \A p : p \in All(i, j) => p \in All(i - 1, j - 1) \cup {<<i, j>>}
    <3> TAKE p
    <3> HAVE p \in All(i, j)
    <3>1. PICK x \in 1 .. i, y \in 1 .. j : p = <<x, y>> /\ Similar(nodes[x], obs[y])
      BY <1>2
    <3>2. CASE x = i
      <4>1. y = j
        BY <1>1, <1>8, <3>1, <3>2 DEF NodeTaken
      <4> QED BY <3>1, <3>2, <4>1
    <3>3. CASE x # i
      <4>1. y # j /\ x \in 1 .. i - 1
        BY <1>1, <1>8, <3>1, <3>3 DEF ObsTaken
      <4>2. y \in 1 .. j - 1
        BY <1>1, <4>1
      <4> QED BY <1>5, <3>1, <4>1, <4>2
    <3> QED BY <3>2, <3>3
  <2>2. \A p : p \in All(i - 1, j - 1) => p \in All(i, j)
    BY <1>1, <1>2, <1>5
  <2>3. <<i, j>> \in All(i, j)
    BY <1>2, <1>8
  <2> QED BY <2>1, <2>2, <2>3
<1> QED BY <1>6, <1>7, <1>8 DEF All

\* Adding the same to both keeps the order.
LEMMA AddKeepsOrder ==
  ASSUME NEW a \in Int, NEW b \in Int, NEW g \in Int, a > b
  PROVE  a + g \in Int /\ a + g > b + g /\ ~(b + g > a + g)
  OBVIOUS

\* An entry is good if its neighbours are.
LEMMA GoodEntry ==
  ASSUME NEW nodes, NEW obs, Len(nodes) \in Nat, Len(obs) \in Nat,
         Unambiguous(nodes, obs),
         NEW i \in 1 .. Len(nodes), NEW j \in 1 .. Len(obs),
         nodes[i].start \in Int, nodes[i].end \in Int,
         obs[j].start \in Int, obs[j].end \in Int, obs[j].score \in Nat,
         NEW T, T[<<i, j>>] = Entry(T, nodes, obs, i, j),
         GoodAt(T, nodes, obs, i - 1, j), GoodAt(T, nodes, obs, i, j - 1),
         GoodAt(T, nodes, obs, i - 1, j - 1)
  PROVE  GoodAt(T, nodes, obs, i, j)
<1> DEFINE up      == T[<<i - 1, j>>]
           left    == T[<<i, j - 1>>]
           across  == T[<<i - 1, j - 1>>]
           here    == T[<<i, j>>]
           All(x, y) == SimilarPairs(nodes, obs, x, y)
           NodeFree == ~NodeTaken(nodes, obs, i, j - 1)
           ObsFree  == ~ObsTaken(nodes, obs, i - 1, j)
           gap     == Better(Skip(left), Skip(up))
           matched == Match(across, nodes[i], obs[j], <<i, j>>)
           weight  == MatchScore(nodes[i], obs[j])
<1>1. /\ i \in Nat \ {0} /\ j \in Nat \ {0} /\ i - 1 \in Nat /\ j - 1 \in Nat
      /\ (i = 1 => i - 1 = 0) /\ (j = 1 => j - 1 = 0)
  OBVIOUS
<1>2. Gap \in Int
  <2>1. Delta \in Int /\ Full \in Int
    BY AlignmentAssumption
  <2>2. 16 * Delta \in Int
    BY <2>1
  <2> QED BY <2>1, <2>2 DEF Gap
<1>3. /\ up.pairs = All(i - 1, j) /\ left.pairs = All(i, j - 1)
      /\ across.pairs = All(i - 1, j - 1)
      /\ up.score \in Int /\ left.score \in Int /\ across.score \in Int
      /\ IF NodeFree THEN left.score = across.score + Gap ELSE left.score > across.score + Gap
      /\ IF ObsFree THEN up.score = across.score + Gap ELSE up.score > across.score + Gap
  BY <1>1 DEF GoodAt
<1>4. /\ left.score + Gap > up.score + Gap =>
           gap.score = left.score + Gap /\ gap.pairs = left.pairs
      /\ ~(left.score + Gap > up.score + Gap) =>
           gap.score = up.score + Gap /\ gap.pairs = up.pairs
      /\ matched.score = across.score + weight
      /\ matched.pairs = across.pairs \cup {<<i, j>>}
  <2>1. \A e : Skip(e).score = e.score + Gap /\ Skip(e).pairs = e.pairs
    BY DEF Skip
  <2>2. gap = IF Skip(left).score > Skip(up).score THEN Skip(left) ELSE Skip(up)
    BY DEF Better
  <2>3. matched.score = across.score + weight /\ matched.pairs = across.pairs \cup {<<i, j>>}
    BY DEF Match
  <2> HIDE DEF gap, matched
  <2> QED BY <2>1, <2>2, <2>3
<1>5. here = IF Similar(nodes[i], obs[j]) THEN MatchOrGap(matched, gap) ELSE gap
  BY <1>1 DEF Entry
<1>6. /\ NodeTaken(nodes, obs, i, j) <=> ~NodeFree \/ Similar(nodes[i], obs[j])
      /\ ObsTaken(nodes, obs, i, j) <=> ~ObsFree \/ Similar(nodes[i], obs[j])
  <2>1. 1 .. j = (1 .. j - 1) \cup {j} /\ 1 .. i = (1 .. i - 1) \cup {i}
    OBVIOUS
  <2> QED BY <2>1 DEF NodeTaken, ObsTaken
<1>7. /\ ~Similar(nodes[i], obs[j]) /\ NodeFree => All(i, j) = All(i - 1, j)
      /\ ~Similar(nodes[i], obs[j]) /\ ObsFree => All(i, j) = All(i, j - 1)
      /\ Similar(nodes[i], obs[j]) /\ NodeFree /\ ObsFree =>
           All(i, j) = All(i - 1, j - 1) \cup {<<i, j>>}
  BY <1>1, PairsGrow
\* No pair crosses another or shares an end with it.
<1>8. Similar(nodes[i], obs[j]) => NodeFree /\ ObsFree
  <2>1. ASSUME Similar(nodes[i], obs[j]), NEW y \in 1 .. j - 1, Similar(nodes[i], obs[y])
        PROVE  FALSE
    <3>1. y \in 1 .. Len(obs) /\ y # j
      OBVIOUS
    <3> QED BY <2>1, <3>1 DEF Unambiguous
  <2>2. ASSUME Similar(nodes[i], obs[j]), NEW x \in 1 .. i - 1, Similar(nodes[x], obs[j])
        PROVE  FALSE
    <3>1. x \in 1 .. Len(nodes) /\ x # i
      OBVIOUS
    <3> QED BY <2>2, <3>1 DEF Unambiguous
  <2> QED BY <2>1, <2>2 DEF NodeTaken, ObsTaken
<1>9. NodeFree \/ ObsFree
  <2>1. ASSUME NEW y \in 1 .. j - 1, Similar(nodes[i], obs[y]),
               NEW x \in 1 .. i - 1, Similar(nodes[x], obs[j])
        PROVE  FALSE
    <3>1. y \in 1 .. Len(obs) /\ x \in 1 .. Len(nodes) /\ x < i /\ ~(j < y)
      OBVIOUS
    <3> QED BY <2>1, <3>1 DEF Unambiguous
  <2> QED BY <2>1 DEF NodeTaken, ObsTaken
<1> HIDE DEF up, left, across, here, NodeFree, ObsFree, gap, matched, weight, All
<1>10. /\ here.pairs = All(i, j) /\ here.score \in Int
       /\ IF ~NodeFree \/ Similar(nodes[i], obs[j])
          THEN here.score > up.score + Gap ELSE here.score = up.score + Gap
       /\ IF ~ObsFree \/ Similar(nodes[i], obs[j])
          THEN here.score > left.score + Gap ELSE here.score = left.score + Gap
  <2>1. CASE Similar(nodes[i], obs[j])
    <3>1. weight \in Int /\ weight > 2 * Gap
      BY <2>1, MatchGains DEF weight
    <3>2. NodeFree /\ ObsFree
      BY <1>8, <2>1
    <3>3. /\ left.score = across.score + Gap /\ up.score = across.score + Gap
      BY <1>3, <3>2
    <3>4. matched.score > gap.score
      BY <1>2, <1>3, <1>4, <3>1, <3>3
    <3>5. here = matched
      BY <1>5, <2>1, <3>4 DEF MatchOrGap, Better
    <3>6. here.pairs = All(i, j)
      BY <1>3, <1>4, <1>7, <2>1, <3>2, <3>5
    <3>7. here.score = across.score + weight
      BY <1>4, <3>5
    <3>8. /\ here.score \in Int
          /\ here.score > up.score + Gap /\ here.score > left.score + Gap
      <4>1. across.score \in Int
        BY <1>3
      <4>2. \A a, g, w \in Int : w > 2 * g => a + w \in Int /\ a + w > (a + g) + g
        OBVIOUS
      <4>3. /\ across.score + weight \in Int
            /\ across.score + weight > (across.score + Gap) + Gap
        BY <1>2, <3>1, <4>1, <4>2
      <4> QED BY <3>3, <3>7, <4>3
    <3> QED BY <2>1, <3>6, <3>8
  <2>2. CASE ~Similar(nodes[i], obs[j]) /\ NodeFree /\ ObsFree
    <3>1. left.score = up.score
      BY <1>3, <2>2
    <3>2. gap.score = up.score + Gap /\ gap.pairs = up.pairs
      BY <1>2, <1>3, <1>4, <3>1
    <3>3. here.pairs = All(i, j)
      BY <1>3, <1>5, <1>7, <2>2, <3>2
    <3>4. /\ here.score \in Int
          /\ here.score = up.score + Gap /\ here.score = left.score + Gap
      <4>1. here.score = gap.score
        BY <1>5, <2>2
      <4>2. up.score \in Int /\ Gap \in Int
        BY <1>2, <1>3
      <4> QED BY <3>1, <3>2, <4>1, <4>2
    <3> QED BY <2>2, <3>3, <3>4
  <2>3. CASE ~Similar(nodes[i], obs[j]) /\ ~NodeFree
    <3>1. ObsFree
      BY <1>9, <2>3
    <3>2. left.score > up.score
      BY <1>2, <1>3, <2>3, <3>1
    <3>3. left.score + Gap \in Int /\ left.score + Gap > up.score + Gap
      <4>1. left.score \in Int /\ up.score \in Int
        BY <1>3
      <4> QED BY <1>2, <3>2, <4>1, AddKeepsOrder
    <3>4. gap.score = left.score + Gap /\ gap.pairs = left.pairs
      BY <1>4, <3>3
    <3>5. here.pairs = All(i, j)
      BY <1>3, <1>5, <1>7, <2>3, <3>1, <3>4
    <3>6. /\ here.score \in Int
          /\ here.score > up.score + Gap /\ here.score = left.score + Gap
      BY <1>5, <2>3, <3>3, <3>4
    <3> QED BY <2>3, <3>1, <3>5, <3>6
  <2>4. CASE ~Similar(nodes[i], obs[j]) /\ ~ObsFree
    <3>1. NodeFree
      BY <1>9, <2>4
    <3>2. up.score > left.score
      BY <1>2, <1>3, <2>4, <3>1
    <3>3. /\ up.score + Gap \in Int /\ up.score + Gap > left.score + Gap
          /\ ~(left.score + Gap > up.score + Gap)
      <4>1. left.score \in Int /\ up.score \in Int
        BY <1>3
      <4> QED BY <1>2, <3>2, <4>1, AddKeepsOrder
    <3>4. gap.score = up.score + Gap /\ gap.pairs = up.pairs
      BY <1>4, <3>3
    <3>5. here.pairs = All(i, j)
      BY <1>3, <1>5, <1>7, <2>4, <3>1, <3>4
    <3>6. /\ here.score \in Int
          /\ here.score = up.score + Gap /\ here.score > left.score + Gap
      BY <1>5, <2>4, <3>3, <3>4
    <3> QED BY <2>4, <3>1, <3>5, <3>6
  <2> QED BY <2>1, <2>2, <2>3, <2>4
<1> QED BY <1>6, <1>10 DEF GoodAt, here, up, left, All

\* So all that can be paired is.
LEMMA SimilarAreAligned ==
  ASSUME NEW nodes, NEW obs, Len(nodes) \in Nat, Len(obs) \in Nat,
         Unambiguous(nodes, obs),
         \A i \in 1 .. Len(nodes) : nodes[i].start \in Int /\ nodes[i].end \in Int,
         \A j \in 1 .. Len(obs) : /\ obs[j].start \in Int /\ obs[j].end \in Int
                                  /\ obs[j].score \in Nat
  PROVE  \A i \in 1 .. Len(nodes), j \in 1 .. Len(obs) :
            Similar(nodes[i], obs[j]) => <<i, j>> \in Align(nodes, obs)
<1> DEFINE m == Len(nodes)
           n == Len(obs)
           T == Table(nodes, obs)
           Good(i, j) == GoodAt(T, nodes, obs, i, j)
           S == {k \in Nat : \A i \in 0 .. m, j \in 0 .. n : i + j < k => Good(i, j)}
<1>1. T = [ij \in Cells(m, n) |-> Entry(T, nodes, obs, ij[1], ij[2])]
  BY TableExists DEF Table, Cells
<1> HIDE DEF T
<1>2. \A i \in 0 .. m, j \in 0 .. n : T[<<i, j>>] = Entry(T, nodes, obs, i, j)
  <2>1. \A i \in 0 .. m, j \in 0 .. n : <<i, j>> \in Cells(m, n)
    BY DEF Cells
  <2> HIDE DEF m, n
  <2> QED BY <1>1, <2>1
<1>3. Gap \in Int
  <2>1. Delta \in Int /\ Full \in Int
    BY AlignmentAssumption
  <2>2. 16 * Delta \in Int
    BY <2>1
  <2> QED BY <2>1, <2>2 DEF Gap
<1>4. ASSUME NEW i \in 0 .. m, NEW j \in 0 .. n, i = 0 \/ j = 0 PROVE Good(i, j)
  <2>1. \A x \in 0 .. m, y \in 0 .. n : x = 0 \/ y = 0 =>
           T[<<x, y>>].score = (x + y) * Gap /\ T[<<x, y>>].pairs = {}
    <3> SUFFICES ASSUME NEW x \in 0 .. m, NEW y \in 0 .. n, x = 0 \/ y = 0
                 PROVE  T[<<x, y>>].score = (x + y) * Gap /\ T[<<x, y>>].pairs = {}
      OBVIOUS
    <3>1. Entry(T, nodes, obs, x, y) = [score |-> (x + y) * Gap, pairs |-> {}]
      BY DEF Entry
    <3>2. T[<<x, y>>] = Entry(T, nodes, obs, x, y)
      BY <1>2
    <3> QED BY <3>1, <3>2
  <2>2. SimilarPairs(nodes, obs, i, j) = {}
    BY <1>4 DEF SimilarPairs
  <2>3. (i = 0 => ~ObsTaken(nodes, obs, i, j)) /\ (j = 0 => ~NodeTaken(nodes, obs, i, j))
    BY DEF ObsTaken, NodeTaken
  <2>4. \A a \in Nat : a * Gap \in Int /\ (a > 0 => a * Gap = (a - 1) * Gap + Gap)
    BY <1>3
  <2>5. i + j \in Nat /\ i \in Nat /\ j \in Nat
    OBVIOUS
  <2>6. T[<<i, j>>].pairs = {} /\ T[<<i, j>>].score = (i + j) * Gap /\ T[<<i, j>>].score \in Int
    BY <1>4, <2>1, <2>4, <2>5
  <2>7. ASSUME i > 0 PROVE j = 0 /\ T[<<i, j>>].score = T[<<i - 1, j>>].score + Gap
    <3>1. j = 0 /\ i - 1 \in 0 .. m /\ (i - 1) + j = (i + j) - 1 /\ i + j > 0
      BY <1>4, <2>7
    <3>2. T[<<i - 1, j>>].score = ((i + j) - 1) * Gap
      BY <2>1, <3>1
    <3> QED BY <2>4, <2>5, <2>6, <3>1, <3>2
  <2>8. ASSUME j > 0 PROVE i = 0 /\ T[<<i, j>>].score = T[<<i, j - 1>>].score + Gap
    <3>1. i = 0 /\ j - 1 \in 0 .. n /\ i + (j - 1) = (i + j) - 1 /\ i + j > 0
      BY <1>4, <2>8
    <3>2. T[<<i, j - 1>>].score = ((i + j) - 1) * Gap
      BY <2>1, <3>1
    <3> QED BY <2>4, <2>5, <2>6, <3>1, <3>2
  <2> QED BY <2>2, <2>3, <2>6, <2>7, <2>8 DEF GoodAt
<1> HIDE DEF Good
<1>5. ASSUME NEW k \in S PROVE k + 1 \in S
  <2>1. k \in Nat /\ \A x \in 0 .. m, y \in 0 .. n : x + y < k => Good(x, y)
    BY <1>5
  <2> HIDE DEF S
  <2>2. ASSUME NEW i \in 0 .. m, NEW j \in 0 .. n, i + j < k + 1 PROVE Good(i, j)
    <3>1. CASE i > 0 /\ j > 0
      <4>1. /\ i \in 1 .. m /\ j \in 1 .. n /\ i - 1 \in 0 .. m /\ j - 1 \in 0 .. n
            /\ (i - 1) + j < k /\ i + (j - 1) < k /\ (i - 1) + (j - 1) < k
        BY <2>1, <2>2, <3>1
      <4>2. Good(i - 1, j) /\ Good(i, j - 1) /\ Good(i - 1, j - 1)
        BY <2>1, <4>1
      <4>3. T[<<i, j>>] = Entry(T, nodes, obs, i, j)
        BY <1>2
      <4> QED BY <4>1, <4>2, <4>3, GoodEntry DEF Good
    <3>2. CASE i = 0 \/ j = 0
      BY <1>4, <3>2
    <3> QED BY <3>1, <3>2
  <2>3. k + 1 \in Nat
    BY <2>1
  <2> QED BY <2>2, <2>3 DEF S
<1>6. S = Nat
  <2>1. S \subseteq Nat /\ 0 \in S
    OBVIOUS
  <2> HIDE DEF S
  <2> QED BY <1>5, <2>1, SetInduction
<1>7. /\ m + n + 1 \in Nat /\ m \in 0 .. m /\ n \in 0 .. n /\ m + n < m + n + 1
  <2>1. m \in Nat /\ n \in Nat
    OBVIOUS
  <2> HIDE DEF m, n
  <2> QED BY <2>1
<1>8. Good(m, n)
  BY <1>6, <1>7
<1> HIDE DEF S
<1>9. Align(nodes, obs) = SimilarPairs(nodes, obs, m, n)
  BY <1>8 DEF Align, T, Good, GoodAt
<1> QED BY <1>9 DEF SimilarPairs

(***************************************************************************)
(* Sequences, by their elements.                                           *)
(***************************************************************************)
Sequence(s) == s \in Seq(Range(s))

\* A sequence of members of S is one, whatever S is taken for.
LEMMA IsSequence ==
  ASSUME NEW S, NEW s \in Seq(S)
  PROVE  Sequence(s) /\ Range(s) \subseteq S
BY DEF Sequence, Range

\* KeptIsSeq, for a sequence of whatever elements.
LEMMA KeptElements ==
  ASSUME NEW s, Sequence(s), NEW I, I \subseteq DOMAIN s
  PROVE  /\ Sequence(Among(s, I))
         /\ Range(Among(s, I)) \subseteq {s[i] : i \in I}
<1>1. s \in Seq(Range(s))
  BY DEF Sequence
<1> QED BY <1>1, KeptIsSeq, IsSequence

\* They are in its order.
Picks(r, s, I) == \A i, j \in DOMAIN r : i < j =>
                      \E x, y \in I : x < y /\ r[i] = s[x] /\ r[j] = s[y]

LEMMA KeptInOrder ==
  ASSUME NEW s, Sequence(s), NEW I, I \subseteq DOMAIN s
  PROVE  Picks(Among(s, I), s, I)
<1> SUFFICES ASSUME NEW i \in DOMAIN Among(s, I), NEW j \in DOMAIN Among(s, I), i < j
             PROVE  \E x, y \in I : x < y /\ Among(s, I)[i] = s[x] /\ Among(s, I)[j] = s[y]
  BY DEF Picks
<1>1. IsFiniteSet(I) /\ I \subseteq Nat
  <2>1. DOMAIN s = 1 .. Len(s) /\ Len(s) \in Nat
    BY DEF Sequence
  <2>2. IsFiniteSet(1 .. Len(s)) /\ 1 .. Len(s) \subseteq Nat
    BY <2>1, FS_Interval
  <2> QED BY <2>1, <2>2, FS_Subset
<1>2. i \in 1 .. Cardinality(I) /\ j \in 1 .. Cardinality(I)
  BY DEF Among
<1>3. /\ Place(I, i) \in I /\ Place(I, j) \in I
      /\ Among(s, I)[i] = s[Place(I, i)] /\ Among(s, I)[j] = s[Place(I, j)]
  BY <1>1, <1>2, PlaceOf DEF Among
<1>4. Place(I, i) < Place(I, j)
  BY <1>1, <1>2, PlacesAscend
<1> QED BY <1>3, <1>4

\* None that is kept is lost.
LEMMA KeptAll ==
  ASSUME NEW s, Sequence(s), NEW I, I \subseteq DOMAIN s, NEW i \in I
  PROVE  s[i] \in Range(Among(s, I))
<1>1. IsFiniteSet(I) /\ I \subseteq Nat
  <2>1. DOMAIN s = 1 .. Len(s) /\ Len(s) \in Nat
    BY DEF Sequence
  <2>2. IsFiniteSet(1 .. Len(s)) /\ 1 .. Len(s) \subseteq Nat
    BY <2>1, FS_Interval
  <2> QED BY <2>1, <2>2, FS_Subset
<1>2. PICK n : n = Cardinality({j \in I : j <= i})
  OBVIOUS
<1>3. n \in 1 .. Cardinality(I)
  BY <1>1, <1>2, PlaceIsOwn
<1>4. Place(I, n) \in I /\ Cardinality({j \in I : j <= Place(I, n)}) = n
  BY <1>1, <1>3, PlaceOf
<1>5. Place(I, n) = i
  BY <1>1, <1>2, <1>4, PlaceIsOwn
<1> QED BY <1>3, <1>5 DEF Among, Range

\* A sequence made from another, element by element.
LEMMA MapElements ==
  ASSUME NEW s, Sequence(s), NEW f, f = [i \in DOMAIN s |-> f[i]]
  PROVE  Sequence(f) /\ Range(f) = {f[i] : i \in DOMAIN s} /\ Len(f) = Len(s)
<1>1. Len(s) \in Nat /\ DOMAIN s = 1 .. Len(s)
  BY DEF Sequence
<1>2. f = [i \in 1 .. Len(s) |-> f[i]]
  BY <1>1
<1>3. f \in [1 .. Len(s) -> Range(f)]
  BY <1>1, <1>2 DEF Range
<1> QED BY <1>1, <1>2, <1>3 DEF Sequence, Range

\* Two sequences joined.
LEMMA JoinElements ==
  ASSUME NEW s, Sequence(s), NEW t, Sequence(t)
  PROVE  Sequence(s \o t) /\ Range(s \o t) = Range(s) \cup Range(t) /\ Len(s \o t) = Len(s) + Len(t)
<1>1. s \in Seq(Range(s) \cup Range(t)) /\ t \in Seq(Range(s) \cup Range(t))
  BY DEF Sequence
<1>2. s \o t \in Seq(Range(s) \cup Range(t))
  BY <1>1
<1>3. /\ Len(s \o t) = Len(s) + Len(t)
      /\ \A i \in 1 .. Len(s) : (s \o t)[i] = s[i]
      /\ \A i \in 1 .. Len(t) : (s \o t)[i + Len(s)] = t[i]
  BY <1>1
<1>4. Range(s) \cup Range(t) \subseteq Range(s \o t)
  <2>1. DOMAIN s = 1 .. Len(s) /\ DOMAIN t = 1 .. Len(t) /\ Len(s) \in Nat /\ Len(t) \in Nat
    BY <1>1
  <2>2. DOMAIN (s \o t) = 1 .. Len(s) + Len(t)
    BY <1>2, <1>3
  <2>3. \A i \in 1 .. Len(s) : i \in DOMAIN (s \o t)
    BY <2>1, <2>2
  <2>4. \A i \in 1 .. Len(t) : i + Len(s) \in DOMAIN (s \o t)
    BY <2>1, <2>2
  <2> QED BY <1>3, <2>1, <2>3, <2>4 DEF Range
<1>5. Sequence(s \o t) /\ Range(s \o t) \subseteq Range(s) \cup Range(t)
  BY <1>2, IsSequence
<1> QED BY <1>3, <1>4, <1>5

\* A part of a sequence.
LEMMA PartElements ==
  ASSUME NEW s, Sequence(s), NEW m \in Nat, NEW n \in Nat, 1 <= m, n <= Len(s)
  PROVE  /\ Sequence(SubSeq(s, m, n)) /\ Range(SubSeq(s, m, n)) \subseteq Range(s)
<1>1. s \in Seq(Range(s))
  BY DEF Sequence
<1>2. SubSeq(s, m, n) \in Seq(Range(s))
  BY <1>1
<1> QED BY <1>2, IsSequence

\* Of a sequence made of two, any two elements are of the first in turn, of the
\* second in turn, or one of each.
LEMMA JoinInTurn ==
  ASSUME NEW s, Sequence(s), NEW t, Sequence(t),
         NEW i \in DOMAIN (s \o t), NEW j \in DOMAIN (s \o t), i < j
  PROVE  LET a == (s \o t)[i]
             b == (s \o t)[j]
         IN  \/ \E x, y \in DOMAIN s : x < y /\ a = s[x] /\ b = s[y]
             \/ \E x, y \in DOMAIN t : x < y /\ a = t[x] /\ b = t[y]
             \/ a \in Range(s) /\ b \in Range(t)
<1>1. /\ s \in Seq(Range(s) \cup Range(t)) /\ t \in Seq(Range(s) \cup Range(t))
      /\ Len(s) \in Nat /\ Len(t) \in Nat /\ DOMAIN s = 1 .. Len(s) /\ DOMAIN t = 1 .. Len(t)
  BY DEF Sequence
<1>2. /\ DOMAIN (s \o t) = 1 .. Len(s) + Len(t)
      /\ \A x \in 1 .. Len(s) : (s \o t)[x] = s[x]
      /\ \A x \in 1 .. Len(s) + Len(t) : x > Len(s) => (s \o t)[x] = t[x - Len(s)]
  BY <1>1
<1>3. i \in 1 .. Len(s) + Len(t) /\ j \in 1 .. Len(s) + Len(t)
  BY <1>2
<1>4. CASE j <= Len(s)
  <2>1. i \in DOMAIN s /\ j \in DOMAIN s /\ (s \o t)[i] = s[i] /\ (s \o t)[j] = s[j]
    BY <1>1, <1>2, <1>3, <1>4
  <2> QED BY <2>1
<1>5. CASE i <= Len(s) /\ j > Len(s)
  <2>1. /\ i \in DOMAIN s /\ j - Len(s) \in DOMAIN t
        /\ (s \o t)[i] = s[i] /\ (s \o t)[j] = t[j - Len(s)]
    BY <1>1, <1>2, <1>3, <1>5
  <2> QED BY <2>1 DEF Range
<1>6. CASE i > Len(s)
  <2>1. /\ i - Len(s) \in DOMAIN t /\ j - Len(s) \in DOMAIN t /\ i - Len(s) < j - Len(s)
        /\ (s \o t)[i] = t[i - Len(s)] /\ (s \o t)[j] = t[j - Len(s)]
    BY <1>1, <1>2, <1>3, <1>6
  <2> QED BY <2>1
<1>7. j <= Len(s) \/ (i <= Len(s) /\ j > Len(s)) \/ i > Len(s)
  BY <1>1, <1>3
<1> QED BY <1>4, <1>5, <1>6, <1>7

\* Every element of a comes before every element of b in s.
InFront(a, b, s) ==
    \A u \in Range(a), v \in Range(b) :
        \E x, y \in DOMAIN s : x < y /\ u = s[x] /\ v = s[y]

\* The two ends of a sequence.
LEMMA PartsInTurn ==
  ASSUME NEW s, Sequence(s), NEW n \in 0 .. Len(s)
  PROVE  /\ Picks(SubSeq(s, 1, n), s, DOMAIN s)
         /\ Picks(SubSeq(s, n + 1, Len(s)), s, DOMAIN s)
         /\ InFront(SubSeq(s, 1, n), SubSeq(s, n + 1, Len(s)), s)
<1> DEFINE a == SubSeq(s, 1, n)
           b == SubSeq(s, n + 1, Len(s))
<1>1. s \in Seq(Range(s)) /\ Len(s) \in Nat /\ DOMAIN s = 1 .. Len(s)
  BY DEF Sequence
<1>2. DOMAIN a = 1 .. n /\ \A i \in 1 .. n : a[i] = s[i] /\ i \in DOMAIN s
  BY <1>1
<1>3. /\ DOMAIN b = 1 .. Len(s) - n
      /\ \A i \in 1 .. Len(s) - n : b[i] = s[n + i] /\ n + i \in DOMAIN s
  BY <1>1
<1> HIDE DEF a, b
<1>4. Picks(a, s, DOMAIN s)
  BY <1>2 DEF Picks
<1>5. Picks(b, s, DOMAIN s)
  <2>1. \A i, j \in 1 .. Len(s) - n : i < j => n + i < n + j
    BY <1>1
  <2> QED BY <1>3, <2>1 DEF Picks
<1>6. InFront(a, b, s)
  <2> SUFFICES ASSUME NEW i \in 1 .. n, NEW j \in 1 .. Len(s) - n
               PROVE  \E x, y \in DOMAIN s : x < y /\ a[i] = s[x] /\ b[j] = s[y]
    BY <1>2, <1>3 DEF InFront, Range
  <2>1. i < n + j
    BY <1>1
  <2> QED BY <1>2, <1>3, <2>1
<1> QED BY <1>4, <1>5, <1>6 DEF a, b

\* Some numbers and one more have a greatest.
LEMMA GreatestOf ==
  ASSUME NEW lo \in Int, NEW N \in Nat, NEW f \in [1 .. N -> Int]
  PROVE  /\ Max({lo} \cup {f[j] : j \in 1 .. N}) \in Int
         /\ \A i \in 1 .. N : f[i] <= Max({lo} \cup {f[j] : j \in 1 .. N})
<1> DEFINE T(n) == {lo} \cup {f[i] : i \in 1 .. n}
           S    == {n \in Nat : n <= N => \E m \in T(n) : \A y \in T(n) : m >= y}
<1>1. 0 \in S
  OBVIOUS
<1>2. ASSUME NEW n \in S PROVE n + 1 \in S
  <2> SUFFICES ASSUME n + 1 <= N
               PROVE  \E m \in T(n + 1) : \A y \in T(n + 1) : m >= y
    OBVIOUS
  <2>1. PICK m \in T(n) : \A y \in T(n) : m >= y
    BY <1>2
  <2>2. T(n + 1) = T(n) \cup {f[n + 1]} /\ T(n) \subseteq Int /\ f[n + 1] \in Int
    <3>1. 1 .. n + 1 = (1 .. n) \cup {n + 1} /\ 1 .. n \subseteq 1 .. N /\ n + 1 \in 1 .. N
      <4>1. n \in Nat
        BY <1>2
      <4> HIDE DEF S
      <4> QED BY <4>1
    <3> QED BY <3>1
  <2> HIDE DEF T
  <2>3. CASE m >= f[n + 1]
    BY <2>1, <2>2, <2>3
  <2>4. CASE ~(m >= f[n + 1])
    <3>1. \A y \in T(n + 1) : f[n + 1] >= y
      BY <2>1, <2>2, <2>4
    <3> QED BY <2>2, <3>1
  <2> QED BY <2>3, <2>4
<1>3. S = Nat
  <2>1. S \subseteq Nat
    OBVIOUS
  <2> HIDE DEF S
  <2> QED BY <1>1, <1>2, <2>1, SetInduction
<1>4. \E m \in T(N) : \A y \in T(N) : m >= y
  <2>1. N \in S => (N <= N => \E m \in T(N) : \A y \in T(N) : m >= y)
    OBVIOUS
  <2>2. N \in S /\ N <= N
    <3> HIDE DEF S
    <3> QED BY <1>3
  <2> QED BY <2>1, <2>2
<1>5. \A i \in 1 .. N : f[i] \in T(N)
  OBVIOUS
<1>6. T(N) \subseteq Int
  OBVIOUS
<1> HIDE DEF T
<1>7. Max(T(N)) \in T(N) /\ \A y \in T(N) : Max(T(N)) >= y
  BY <1>4 DEF Max
<1>8. \A i \in 1 .. N : f[i] <= Max(T(N))
  BY <1>5, <1>6, <1>7
<1> QED BY <1>6, <1>7, <1>8 DEF T

(***************************************************************************)
(* The order of what tokens stand for.                                     *)
(***************************************************************************)
InOrder(t, u) == \A v \in t.of, w \in u.of : v <= w

Ordered(s)    == \A i, j \in DOMAIN s : i < j => InOrder(s[i], s[j])
Follows(s, t) == \A a \in Range(s), b \in Range(t) : InOrder(a, b)

\* Two sequences in order, one after the other.
LEMMA OrderedJoin ==
  ASSUME NEW s, Sequence(s), NEW t, Sequence(t), Ordered(s), Ordered(t), Follows(s, t)
  PROVE  Ordered(s \o t)
<1> SUFFICES ASSUME NEW i \in DOMAIN (s \o t), NEW j \in DOMAIN (s \o t), i < j
             PROVE  InOrder((s \o t)[i], (s \o t)[j])
  BY DEF Ordered
<1> QED BY JoinInTurn DEF Ordered, Follows

\* Tokens that stand for the same words are in the same order.
LEMMA OrderedAlike ==
  ASSUME NEW s, NEW t, DOMAIN s = DOMAIN t, \A i \in DOMAIN s : s[i].of = t[i].of, Ordered(s)
  PROVE  Ordered(t)
BY DEF Ordered, InOrder

\* No more tokens are committed than there are.
LEMMA ReadyCountRange ==
  ASSUME NEW tokens, Sequence(tokens), NEW k
  PROVE  /\ ReadyCount(tokens, k) \in 0 .. Len(tokens)
         /\ \A i \in 1 .. ReadyCount(tokens, k) : Ready(tokens[i], k)
<1> DEFINE stuck == {i \in DOMAIN tokens : ~Ready(tokens[i], k)}
           T     == stuck \cup {Len(tokens) + 1}
<1>1. Len(tokens) \in Nat /\ DOMAIN tokens = 1 .. Len(tokens)
  BY DEF Sequence
<1>2. T \subseteq Nat /\ T # {} /\ Len(tokens) + 1 \in T /\ \A x \in T : x >= 1
  BY <1>1
<1> HIDE DEF T
<1>3. Min(T) \in T /\ \A x \in T : Min(T) <= x
  BY <1>2, LeastOf
<1>4. Min(T) \in Nat /\ Min(T) >= 1 /\ Min(T) <= Len(tokens) + 1
  BY <1>2, <1>3
<1>5. Min(T) - 1 \in 0 .. Len(tokens)
  BY <1>1, <1>4
<1>6. \A i \in 1 .. Min(T) - 1 : Ready(tokens[i], k)
  <2> TAKE i \in 1 .. Min(T) - 1
  <2>1. i \notin T /\ i \in DOMAIN tokens
    BY <1>1, <1>3, <1>4
  <2> QED BY <2>1 DEF T
<1>7. ReadyCount(tokens, k) \in {0, Min(T) - 1}
  BY DEF ReadyCount, T
<1> QED BY <1>1, <1>5, <1>6, <1>7

(***************************************************************************)
(* Tokens.  A token has all its fields (Shaped), its word was spoken or is *)
(* the one words are taken for (Words), and after k windows its counters   *)
(* are those of TypeOK (Counted).                                          *)
(***************************************************************************)
Words == {Speech[w].norm : w \in DOMAIN Speech} \cup {Wrong}

Shaped(t) ==
    t = [norm |-> t.norm, start |-> t.start, end |-> t.end, total |-> t.total,
         best |-> t.best, support |-> t.support, center |-> t.center,
         low |-> t.low, full |-> t.full, seen |-> t.seen, miss |-> t.miss,
         of |-> t.of]

Counted(t, k) ==
    /\ t.seen \in 0 .. k - 1 /\ t.support \in 1 .. t.seen + 1
    /\ t.seen + t.miss = k - 1
    /\ t.miss <= CarryGrace \/ CanCommitAlone(t)

Token(t, k) == Shaped(t) /\ t.norm \in Words /\ t.miss \in Nat /\ Counted(t, k)

\* A token that is not reported once more.
LEMMA CarryToken ==
  ASSUME NEW k \in Nat, NEW t, Token(t, k), t.miss + 1 <= CarryGrace \/ CanCommitAlone(t)
  PROVE  Token(Carry(t), k + 1)
<1>1. Carry(t) = [norm |-> t.norm, start |-> t.start, end |-> t.end, total |-> t.total,
         best |-> t.best, support |-> t.support, center |-> t.center,
         low |-> t.low, full |-> t.full, seen |-> t.seen, miss |-> t.miss + 1,
         of |-> t.of]
  BY DEF Token, Shaped, Carry
<1>2. /\ Carry(t).norm = t.norm /\ Carry(t).support = t.support /\ Carry(t).seen = t.seen
      /\ Carry(t).miss = t.miss + 1 /\ Carry(t).center = t.center
      /\ Carry(t).low = t.low /\ Carry(t).full = t.full /\ Carry(t).total = t.total
  BY <1>1
<1>3. Shaped(Carry(t))
  BY <1>1 DEF Shaped
<1>4. CanCommitAlone(Carry(t)) <=> CanCommitAlone(t)
  BY <1>2 DEF CanCommitAlone, EvidenceReady
<1>5. Counted(Carry(t), k + 1)
  <2>1. /\ t.seen \in 0 .. k - 1 /\ t.support \in 1 .. t.seen + 1 /\ t.seen + t.miss = k - 1
    BY DEF Token, Counted
  <2>2. t.miss \in Nat
    BY DEF Token
  <2>3. /\ Carry(t).seen \in 0 .. (k + 1) - 1
        /\ Carry(t).support \in 1 .. Carry(t).seen + 1
        /\ Carry(t).seen + Carry(t).miss = (k + 1) - 1
    <3>1. /\ Carry(t).seen = t.seen /\ Carry(t).miss = t.miss + 1
          /\ Carry(t).support = t.support
      BY <1>2
    <3>2. t.seen \in Nat /\ t.support \in Nat
      BY <2>1
    <3> QED BY <2>1, <2>2, <3>1, <3>2
  <2>4. Carry(t).miss <= CarryGrace \/ CanCommitAlone(Carry(t))
    <3>1. CASE CanCommitAlone(t)
      BY <1>4, <3>1
    <3>2. CASE t.miss + 1 <= CarryGrace
      BY <1>2, <3>2
    <3> QED BY <3>1, <3>2
  <2> QED BY <2>3, <2>4 DEF Counted
<1>6. Carry(t).miss \in Nat
  BY <1>2 DEF Token
<1> QED BY <1>2, <1>3, <1>5, <1>6 DEF Token

\* A word seen for the first time.
LEMMA NewTokenIs ==
  ASSUME tick \in Nat, NEW obs, obs.norm \in Words
  PROVE  Token(NewToken(obs), tick + 1)
<1>1. Shaped(NewToken(obs)) /\ NewToken(obs).norm = obs.norm
  BY DEF NewToken, Shaped
<1>2. NewToken(obs).seen = tick /\ NewToken(obs).miss = 0 /\ NewToken(obs).support = 1
  BY DEF NewToken
<1>3. Counted(NewToken(obs), tick + 1)
  BY <1>2, PrefixAssumption DEF Counted
<1> QED BY <1>1, <1>2, <1>3 DEF Token

\* A token that is reported again.
LEMMA MergeToken ==
  ASSUME tick \in Nat, NEW t, Token(t, tick), NEW obs
  PROVE  Token(Merge(t, obs), tick + 1)
<1> DEFINE m == Merge(t, obs)
<1>1. Shaped(m) /\ m.norm = t.norm
  BY DEF Shaped, Merge
<1>2. m.seen = tick /\ m.miss = 0 /\ m.support \in {t.support, t.support + 1}
  BY DEF Merge
<1> HIDE DEF m
<1>3. Counted(m, tick + 1)
  <2>1. t.support \in 1 .. tick
    BY DEF Token, Counted
  <2>2. m.support \in 1 .. tick + 1 /\ m.seen \in 0 .. (tick + 1) - 1
    BY <1>2, <2>1
  <2>3. m.seen + m.miss = (tick + 1) - 1 /\ m.miss <= CarryGrace
    BY <1>2, PrefixAssumption
  <2> QED BY <1>2, <2>2, <2>3 DEF Counted
<1> QED BY <1>1, <1>2, <1>3 DEF Token, m

\* What a window reports are words, each heard.
LEMMA ObservationWords ==
  ASSUME NEW hearing, NEW k
  PROVE  /\ Sequence(Observations(hearing, k))
         /\ \A obs \in Range(Observations(hearing, k)) :
                /\ obs.norm \in Words /\ obs.of \in DOMAIN Speech
                /\ hearing[obs.of].heard
                /\ obs = Observation(obs.of, hearing[obs.of], k)
<1> DEFINE s == [w \in DOMAIN Speech |-> Observation(w, hearing[w], k)]
           I == {i \in DOMAIN s : hearing[s[i].of].heard}
<1>1. Sequence(Speech)
  BY PrefixAssumption, IsSequence
<1>2. Sequence(s)
  BY <1>1, MapElements
<1>3. \A i \in DOMAIN s : /\ s[i].norm \in Words /\ s[i].of \in DOMAIN Speech
                          /\ s[i] = Observation(s[i].of, hearing[s[i].of], k)
  <2>1. \A w \in DOMAIN Speech : /\ Observation(w, hearing[w], k).norm \in Words
                                 /\ Observation(w, hearing[w], k).of = w
    BY DEF Observation, Words
  <2> QED BY <2>1
<1>4. Observations(hearing, k) = Among(s, I)
  BY DEF Observations, Kept
<1> HIDE DEF s
<1>5. Sequence(Among(s, I)) /\ Range(Among(s, I)) \subseteq {s[i] : i \in I}
  BY <1>2, KeptElements
<1> QED BY <1>3, <1>4, <1>5

Ascending(observations) ==
    \A i, j \in DOMAIN observations : i < j => observations[i].of < observations[j].of

\* They are in the order of the words.
LEMMA ObservationsAscend ==
  ASSUME NEW hearing, NEW k
  PROVE  Ascending(Observations(hearing, k))
<1> DEFINE s == [w \in DOMAIN Speech |-> Observation(w, hearing[w], k)]
           I == {i \in DOMAIN s : hearing[s[i].of].heard}
<1>1. Sequence(s)
  BY PrefixAssumption, IsSequence, MapElements
<1>2. \A i \in DOMAIN s : s[i].of = i
  <2>1. \A w \in DOMAIN Speech : Observation(w, hearing[w], k).of = w
    BY DEF Observation
  <2> QED BY <2>1
<1>3. Observations(hearing, k) = Among(s, I)
  BY DEF Observations, Kept
<1> DEFINE r == Among(s, I)
<1>4. Picks(r, s, I)
  <2> HIDE DEF s
  <2> QED BY <1>1, KeptInOrder
<1>5. \A i \in I : i \in DOMAIN s
  OBVIOUS
<1> HIDE DEF r, s, I
<1>6. Ascending(r)
  BY <1>2, <1>4, <1>5 DEF Picks, Ascending
<1> QED BY <1>3, <1>6 DEF r

\* The new ones among them are some of them, in their order.
LEMMA TailObservationsAre ==
  ASSUME NEW observations, Sequence(observations)
  PROVE  /\ Sequence(TailObservations(observations))
         /\ Range(TailObservations(observations)) \subseteq Range(observations)
         /\ Ascending(observations) => Ascending(TailObservations(observations))
         /\ committed # <<>> =>
              \A obs \in Range(TailObservations(observations)) : ~Behind(obs)
<1> DEFINE near     == Kept(observations, NearAnchors)
           matched  == {near[p[2]] : p \in Align(Anchors, near)}
           absorbed == {obs \in Range(near) : \E i \in DOMAIN Anchors : Absorbs(Anchors[i], obs)}
           old(obs) == Behind(obs) \/ (obs \in matched \cup absorbed /\ ~PostBoundary(obs))
           I == {i \in DOMAIN observations : ~old(observations[i])}
<1>1. TailObservations(observations) =
        IF NothingCommitted THEN observations ELSE Among(observations, I)
  BY DEF TailObservations, Kept
<1> HIDE DEF old
<1>2. /\ Sequence(Among(observations, I))
      /\ Range(Among(observations, I)) \subseteq {observations[i] : i \in I}
  BY KeptElements
<1>3. {observations[i] : i \in I} \subseteq Range(observations)
  BY DEF Range
<1>4. \A i \in I : ~Behind(observations[i])
  BY DEF old
<1>5. ASSUME Ascending(observations) PROVE Ascending(Among(observations, I))
  <2> DEFINE r == Among(observations, I)
  <2>1. Picks(r, observations, I) /\ I \subseteq DOMAIN observations
    BY KeptInOrder
  <2> HIDE DEF r, I
  <2>2. Ascending(r)
    BY <1>5, <2>1 DEF Picks, Ascending
  <2> QED BY <2>2 DEF r
<1> QED BY <1>1, <1>2, <1>3, <1>4, <1>5 DEF NothingCommitted

\* A reported word is dropped only as one that is committed.
LEMMA DroppedIsCommitted ==
  ASSUME NEW observations, Sequence(observations), Sequence(committed),
         NEW obs \in Range(observations), obs \notin Range(TailObservations(observations))
  PROVE  /\ committed # <<>>
         /\ \/ Behind(obs)
            \/ \E c \in Range(committed) : Similar(c, obs) \/ Absorbs(c, obs)
<1> DEFINE near     == Kept(observations, NearAnchors)
           matched  == {near[p[2]] : p \in Align(Anchors, near)}
           absorbed == {o \in Range(near) : \E i \in DOMAIN Anchors : Absorbs(Anchors[i], o)}
           old(o) == Behind(o) \/ (o \in matched \cup absorbed /\ ~PostBoundary(o))
           I == {i \in DOMAIN observations : ~old(observations[i])}
<1>1. TailObservations(observations) =
        IF NothingCommitted THEN observations ELSE Among(observations, I)
  BY DEF TailObservations, Kept
<1>2. committed # <<>>
  BY <1>1 DEF NothingCommitted
<1>3. Sequence(near) /\ Sequence(Anchors) /\ Range(Anchors) \subseteq Range(committed)
  <2> DEFINE J == {i \in DOMAIN observations : NearAnchors(observations[i])}
             K == {i \in DOMAIN committed : committed[i].end > CommittedEnd - AnchorSpan}
  <2>1. near = Among(observations, J) /\ Anchors = Among(committed, K)
    BY DEF Kept, Anchors
  <2>2. /\ Sequence(Among(observations, J)) /\ Sequence(Among(committed, K))
        /\ Range(Among(committed, K)) \subseteq {committed[i] : i \in K}
    BY KeptElements
  <2>3. {committed[i] : i \in K} \subseteq Range(committed)
    BY DEF Range
  <2> QED BY <2>1, <2>2, <2>3
<1> HIDE DEF near
<1>4. \A o \in matched : \E c \in Range(committed) : Similar(c, o)
  <2>1. /\ Len(Anchors) \in Nat /\ DOMAIN Anchors = 1 .. Len(Anchors)
        /\ Len(near) \in Nat
    BY <1>3 DEF Sequence
  <2>2. ASSUME NEW q \in Align(Anchors, near)
        PROVE  \E c \in Range(committed) : Similar(c, near[q[2]])
    <3>1. q[1] \in DOMAIN Anchors /\ Similar(Anchors[q[1]], near[q[2]])
      BY <2>1, AlignedAreSimilar
    <3> QED BY <1>3, <3>1 DEF Range
  <2> QED BY <2>2
<1>5. \A o \in absorbed : \E c \in Range(committed) : Absorbs(c, o)
  BY <1>3 DEF Range
<1> HIDE DEF matched, absorbed
<1>6. old(obs)
  <2>1. PICK i \in DOMAIN observations : obs = observations[i]
    BY DEF Range
  <2>2. I \subseteq DOMAIN observations /\ (~old(obs) => i \in I)
    BY <2>1
  <2> HIDE DEF I
  <2>3. i \notin I
    BY <1>1, <1>2, <2>1, <2>2, KeptAll DEF NothingCommitted
  <2> QED BY <2>2, <2>3
<1> QED BY <1>2, <1>4, <1>5, <1>6

\* The tail of the tick before.
TailTokens == /\ tick \in Nat /\ Sequence(tail)
              /\ \A t \in Range(tail) : Token(t, tick)

\* A token that may be carried to the next window.
Carried(t) == t.miss + 1 <= CarryGrace \/ CanCommitAlone(t)

\* Tokens of the tail that were not reported, in their order.
InTurn(s) == \A i, j \in DOMAIN s : i < j =>
                \E x, y \in DOMAIN tail :
                    x < y /\ s[i] = Carry(tail[x]) /\ s[j] = Carry(tail[y])

\* The tokens the window has left behind.
LEMMA CarriedParts ==
  ASSUME Sequence(tail), NEW k
  PROVE  /\ Sequence(CarriedForward(k)) /\ InTurn(CarriedForward(k))
         /\ \A t \in Range(CarriedForward(k)) :
                \E u \in Range(tail) : t = Carry(u) /\ Carried(u) /\ SlidOut(u, k)
<1> DEFINE I    == {i \in DOMAIN tail : SlidOut(tail[i], k)}
           slid == Among(tail, I)
           J    == {i \in DOMAIN slid : CanCommitAlone(slid[i]) \/ slid[i].miss + 1 <= CarryGrace}
           kept == Among(slid, J)
           f    == [i \in DOMAIN kept |-> Carry(kept[i])]
<1>1. CarriedForward(k) = f
  BY DEF CarriedForward, Kept
<1>2. Sequence(slid) /\ \A u \in Range(slid) : u \in Range(tail) /\ SlidOut(u, k)
  <2>1. Sequence(slid) /\ Range(slid) \subseteq {tail[i] : i \in I}
    BY KeptElements
  <2> HIDE DEF slid
  <2> QED BY <2>1 DEF Range
<1>3. Picks(slid, tail, I) /\ I \subseteq DOMAIN tail
  BY KeptInOrder
<1> HIDE DEF slid, I
<1>4. Sequence(kept) /\ Range(kept) \subseteq {slid[i] : i \in J}
  BY <1>2, KeptElements
<1>5. \A t \in Range(kept) : t \in Range(tail) /\ Carried(t) /\ SlidOut(t, k)
  <2>1. \A i \in J : slid[i] \in Range(slid)
    BY DEF Range
  <2> QED BY <1>2, <1>4, <2>1 DEF Carried
<1>6. Picks(kept, slid, J) /\ J \subseteq DOMAIN slid
  BY <1>2, KeptInOrder
<1> HIDE DEF kept, J
<1>7. Sequence(f) /\ Range(f) = {f[i] : i \in DOMAIN kept}
  BY <1>4, MapElements
<1>8. \A i \in DOMAIN kept :
        \E u \in Range(tail) : f[i] = Carry(u) /\ Carried(u) /\ SlidOut(u, k)
  <2> TAKE i \in DOMAIN kept
  <2>1. kept[i] \in Range(kept)
    BY DEF Range
  <2> QED BY <1>5, <2>1
<1>9. InTurn(f)
  <2> SUFFICES ASSUME NEW i \in DOMAIN kept, NEW j \in DOMAIN kept, i < j
               PROVE  \E x, y \in DOMAIN tail :
                          x < y /\ f[i] = Carry(tail[x]) /\ f[j] = Carry(tail[y])
    BY DEF InTurn
  <2>1. PICK v, w \in J : v < w /\ kept[i] = slid[v] /\ kept[j] = slid[w]
    BY <1>6 DEF Picks
  <2>2. PICK x, y \in I : x < y /\ slid[v] = tail[x] /\ slid[w] = tail[y]
    BY <1>3, <1>6, <2>1 DEF Picks
  <2> QED BY <1>3, <2>1, <2>2
<1> QED BY <1>1, <1>7, <1>8, <1>9

\* A token in which an observation was merged, or that it is the first of.
Reported(t, obs) == \/ \E u \in Range(tail) : t = Merge(u, obs) /\ Similar(u, obs)
                    \/ t = NewToken(obs)

\* The tokens that stand in the window, which the new reports are aligned with.
NotSlid(k) == Kept(tail, LAMBDA t : ~SlidOut(t, k))

\* A token that stands in the window and that no report is paired with.
Unpaired(u, k, new) == \A p \in Align(NotSlid(k), new) : NotSlid(k)[p[1]] # u

\* The token t of a new report: merged with the one it is paired with, or new
\* as it is paired with none.
Paired(t, j, k, new) ==
    \/ \E u \in Range(tail) : t = Merge(u, new[j]) /\ Similar(u, new[j])
    \/ /\ t = NewToken(new[j])
       /\ \A i \in DOMAIN NotSlid(k) : <<i, j>> \notin Align(NotSlid(k), new)

LEMMA NotSlidAre ==
  ASSUME Sequence(tail), NEW k
  PROVE  /\ Sequence(NotSlid(k)) /\ Picks(NotSlid(k), tail, DOMAIN tail)
         /\ \A u \in Range(NotSlid(k)) : u \in Range(tail)
         /\ \A u \in Range(tail) : ~SlidOut(u, k) => u \in Range(NotSlid(k))
<1> DEFINE I == {i \in DOMAIN tail : ~SlidOut(tail[i], k)}
<1>1. NotSlid(k) = Among(tail, I) /\ I \subseteq DOMAIN tail
  BY DEF NotSlid, Kept
<1>2. \A i \in DOMAIN tail : ~SlidOut(tail[i], k) => i \in I
  OBVIOUS
<1> HIDE DEF I
<1>3. /\ Sequence(NotSlid(k)) /\ Range(NotSlid(k)) \subseteq {tail[i] : i \in I}
      /\ Picks(NotSlid(k), tail, I)
  BY <1>1, KeptElements, KeptInOrder
<1>4. \A i \in I : tail[i] \in Range(NotSlid(k))
  BY <1>1, KeptAll
<1> QED BY <1>1, <1>2, <1>3, <1>4 DEF Picks, Range

\* A tail is made of the tokens the window has left behind, the words it
\* reports and tokens that it does not report.
LEMMA NewTailParts ==
  ASSUME Sequence(tail), NEW k, NEW observations, Sequence(observations)
  PROVE  \E f, g :
         /\ NewTail(observations, k) = CarriedForward(k) \o f \o g
         /\ Sequence(f) /\ DOMAIN f = DOMAIN TailObservations(observations)
         /\ \A j \in DOMAIN f : Reported(f[j], TailObservations(observations)[j])
         /\ \A j \in DOMAIN f : Paired(f[j], j, k, TailObservations(observations))
         /\ Sequence(g) /\ InTurn(g)
         /\ \A t \in Range(g) : \E u \in Range(tail) :
                /\ t = Carry(u) /\ Carried(u) /\ ~SlidOut(u, k)
                /\ Preserved(u, observations, TailObservations(observations), k)
                /\ Unpaired(u, k, TailObservations(observations))
<1> DEFINE new      == TailObservations(observations)
           I        == {i \in DOMAIN tail : ~SlidOut(tail[i], k)}
           old      == Among(tail, I)
           pairs    == Align(old, new)
           of(j)    == {i \in DOMAIN old : <<i, j>> \in pairs}
           token(j) == IF of(j) # {} THEN Merge(old[CHOOSE i \in of(j) : TRUE], new[j])
                                     ELSE NewToken(new[j])
           matched  == {old[p[1]] : p \in pairs}
           J        == {i \in DOMAIN old : /\ old[i] \notin matched
                                           /\ Preserved(old[i], observations, new, k)}
           lost     == Among(old, J)
           f        == [j \in DOMAIN new |-> token(j)]
           g        == [i \in DOMAIN lost |-> Carry(lost[i])]
<1>1. NewTail(observations, k) = CarriedForward(k) \o f \o g
  BY DEF NewTail, Kept
<1>0. NotSlid(k) = old /\ pairs = Align(NotSlid(k), new)
  BY DEF NotSlid, Kept
<1> HIDE DEF pairs
<1>2. Sequence(new)
  BY TailObservationsAre
<1> HIDE DEF new
<1>3. /\ Sequence(old)
      /\ \A i \in DOMAIN old : old[i] \in Range(tail) /\ ~SlidOut(old[i], k)
  <2>1. Sequence(old) /\ Range(old) \subseteq {tail[i] : i \in I}
    BY KeptElements
  <2> HIDE DEF old
  <2> QED BY <2>1 DEF Range
<1>4. Picks(old, tail, I) /\ I \subseteq DOMAIN tail
  BY KeptInOrder
<1> HIDE DEF old, I
<1>5. Sequence(lost) /\ Range(lost) \subseteq {old[i] : i \in J}
  BY <1>3, KeptElements
<1>6. \A t \in Range(lost) : /\ t \in Range(tail) /\ Carried(t) /\ ~SlidOut(t, k)
                             /\ Preserved(t, observations, new, k)
                             /\ \A p \in pairs : old[p[1]] # t
  BY <1>3, <1>5 DEF Preserved, Carried
<1>7. Picks(lost, old, J) /\ J \subseteq DOMAIN old
  BY <1>3, KeptInOrder
<1> HIDE DEF lost, J
<1>8. Sequence(g) /\ Range(g) = {g[i] : i \in DOMAIN lost} /\ InTurn(g)
  <2>1. Sequence(g) /\ Range(g) = {g[i] : i \in DOMAIN lost}
    BY <1>5, MapElements
  <2>2. InTurn(g)
    <3> SUFFICES ASSUME NEW i \in DOMAIN lost, NEW j \in DOMAIN lost, i < j
                 PROVE  \E x, y \in DOMAIN tail :
                            x < y /\ g[i] = Carry(tail[x]) /\ g[j] = Carry(tail[y])
      BY DEF InTurn
    <3>1. PICK v, w \in J : v < w /\ lost[i] = old[v] /\ lost[j] = old[w]
      BY <1>7 DEF Picks
    <3>2. PICK x, y \in I : x < y /\ old[v] = tail[x] /\ old[w] = tail[y]
      BY <1>4, <1>7, <3>1 DEF Picks
    <3> QED BY <1>4, <3>1, <3>2
  <2> QED BY <2>1, <2>2
<1>9. \A i \in DOMAIN lost : \E u \in Range(tail) :
        /\ g[i] = Carry(u) /\ Carried(u) /\ ~SlidOut(u, k)
        /\ Preserved(u, observations, new, k)
        /\ \A p \in pairs : old[p[1]] # u
  <2> TAKE i \in DOMAIN lost
  <2>1. lost[i] \in Range(lost)
    BY DEF Range
  <2>2. g[i] = Carry(lost[i])
    OBVIOUS
  <2> QED BY <1>6, <2>1, <2>2
<1>10. \A j \in DOMAIN new : Reported(token(j), new[j]) /\ Paired(token(j), j, k, new)
  <2> TAKE j \in DOMAIN new
  <2>1. CASE of(j) # {}
    <3>1. PICK i \in of(j) : token(j) = Merge(old[i], new[j])
      BY <2>1
    <3>2. Len(old) \in Nat /\ Len(new) \in Nat
      BY <1>2, <1>3 DEF Sequence
    <3>3. Similar(old[i], new[j])
      <4>1. <<i, j>> \in pairs /\ <<i, j>>[1] = i /\ <<i, j>>[2] = j
        OBVIOUS
      <4> QED BY <3>2, <4>1, AlignedAreSimilar DEF pairs
    <3> QED BY <1>3, <3>1, <3>3 DEF Reported, Paired
  <2>2. CASE of(j) = {}
    <3>1. token(j) = NewToken(new[j])
      BY <2>2
    <3>2. \A i \in DOMAIN old : <<i, j>> \notin pairs
      BY <2>2
    <3> QED BY <1>0, <3>1, <3>2 DEF Reported, Paired
  <2> QED BY <2>1, <2>2
<1> HIDE DEF token
<1>11. /\ Sequence(f) /\ DOMAIN f = DOMAIN new
       /\ \A j \in DOMAIN f : Reported(f[j], new[j])
       /\ \A j \in DOMAIN f : Paired(f[j], j, k, new)
  <2>1. Sequence(f)
    BY <1>2, MapElements
  <2> QED BY <1>10, <2>1
<1>12. \A t \in Range(g) : \E u \in Range(tail) :
         /\ t = Carry(u) /\ Carried(u) /\ ~SlidOut(u, k)
         /\ Preserved(u, observations, new, k)
         /\ Unpaired(u, k, new)
  BY <1>0, <1>8, <1>9 DEF Unpaired
<1> HIDE DEF f, g
<1> QED BY <1>1, <1>8, <1>11, <1>12 DEF new

\* So a token after a window is one that was carried, one that was reported
\* again, or a word reported for the first time.
LEMMA NewTailIsMadeOf ==
  ASSUME Sequence(tail), NEW k, NEW observations, Sequence(observations)
  PROVE  /\ Sequence(NewTail(observations, k))
         /\ \A t \in Range(NewTail(observations, k)) :
              \/ \E u \in Range(tail) : t = Carry(u) /\ Carried(u)
              \/ \E obs \in Range(observations) : Reported(t, obs)
<1> DEFINE new == TailObservations(observations)
           c   == CarriedForward(k)
<1>1. /\ Sequence(c)
      /\ \A t \in Range(c) : \E u \in Range(tail) : t = Carry(u) /\ Carried(u)
  BY CarriedParts
<1>2. PICK f, g :
        /\ NewTail(observations, k) = c \o f \o g
        /\ Sequence(f) /\ DOMAIN f = DOMAIN new /\ \A j \in DOMAIN f : Reported(f[j], new[j])
        /\ Sequence(g) /\ \A t \in Range(g) : \E u \in Range(tail) : t = Carry(u) /\ Carried(u)
  BY NewTailParts
<1> HIDE DEF c
<1>3. \A j \in DOMAIN new : new[j] \in Range(observations)
  BY TailObservationsAre DEF Range
<1>4. \A t \in Range(f) : \E obs \in Range(observations) : Reported(t, obs)
  <2> HIDE DEF new
  <2> QED BY <1>2, <1>3 DEF Range
<1>5. Sequence(c \o f) /\ Range(c \o f) = Range(c) \cup Range(f)
  BY <1>1, <1>2, JoinElements
<1>6. /\ Sequence(c \o f \o g)
      /\ Range(c \o f \o g) = Range(c) \cup Range(f) \cup Range(g)
  BY <1>2, <1>5, JoinElements
<1> QED BY <1>1, <1>2, <1>4, <1>6

\* All of them are tokens.
LEMMA NewTailTokens ==
  ASSUME TailTokens, NEW k, NEW observations, Sequence(observations),
         \A obs \in Range(observations) : obs.norm \in Words
  PROVE  /\ Sequence(NewTail(observations, k))
         /\ \A t \in Range(NewTail(observations, k)) : Token(t, tick + 1)
<1>1. ASSUME NEW t, NEW u \in Range(tail), t = Carry(u), Carried(u)
      PROVE  Token(t, tick + 1)
  BY <1>1, CarryToken DEF TailTokens, Carried
<1>2. ASSUME NEW t, NEW u \in Range(tail), NEW obs, t = Merge(u, obs)
      PROVE  Token(t, tick + 1)
  BY <1>2, MergeToken DEF TailTokens
<1>3. ASSUME NEW t, NEW obs \in Range(observations), t = NewToken(obs)
      PROVE  Token(t, tick + 1)
  BY <1>3, NewTokenIs DEF TailTokens
<1>4. Sequence(tail)
  BY DEF TailTokens
<1> QED BY <1>1, <1>2, <1>3, <1>4, NewTailIsMadeOf DEF Reported

(***************************************************************************)
(* The text.  Norms goes through the text word by word, so it commutes     *)
(* with joining texts; what Emit puts behind the committed text is the     *)
(* rest of the new one.                                                    *)
(***************************************************************************)
\* The words of a text.
LEMMA NormsOf ==
  ASSUME NEW s, Sequence(s), NEW W, \A t \in Range(s) : t.norm \in W
  PROVE  Norms(s) \in Seq(W) /\ Len(Norms(s)) = Len(s)
<1>1. Len(s) \in Nat /\ DOMAIN s = 1 .. Len(s) /\ \A i \in DOMAIN s : s[i] \in Range(s)
  BY DEF Sequence, Range
<1>2. Norms(s) \in [1 .. Len(s) -> W]
  BY <1>1 DEF Norms
<1> QED BY <1>1, <1>2

\* Sequences with the same elements are the same.
LEMMA SameSequence ==
  ASSUME NEW W, NEW a \in Seq(W), NEW b \in Seq(W), Len(a) = Len(b),
         \A i \in 1 .. Len(a) : a[i] = b[i]
  PROVE  a = b
OBVIOUS

\* The words of two texts joined.
LEMMA NormsJoin ==
  ASSUME NEW s, Sequence(s), NEW t, Sequence(t)
  PROVE  Norms(s \o t) = Norms(s) \o Norms(t)
<1>1. Sequence(s \o t) /\ Len(s \o t) = Len(s) + Len(t)
  BY JoinElements
<1> DEFINE W == {u.norm : u \in Range(s) \cup Range(t) \cup Range(s \o t)}
<1>2. /\ Norms(s) \in Seq(W) /\ Norms(t) \in Seq(W) /\ Norms(s \o t) \in Seq(W)
      /\ Len(Norms(s)) = Len(s) /\ Len(Norms(t)) = Len(t)
      /\ Len(Norms(s \o t)) = Len(s) + Len(t)
  <2>1. \A u \in Range(s) \cup Range(t) \cup Range(s \o t) : u.norm \in W
    OBVIOUS
  <2> HIDE DEF W
  <2> QED BY <1>1, <2>1, NormsOf
<1> HIDE DEF W
<1>3. Len(s) \in Nat /\ Len(t) \in Nat
  BY DEF Sequence
<1>4. /\ DOMAIN s = 1 .. Len(s) /\ DOMAIN t = 1 .. Len(t)
      /\ DOMAIN (s \o t) = 1 .. Len(s) + Len(t)
  BY <1>1 DEF Sequence
<1>5. s \in Seq(Range(s) \cup Range(t)) /\ t \in Seq(Range(s) \cup Range(t))
  BY DEF Sequence
<1>6. \A i \in 1 .. Len(s) + Len(t) : Norms(s \o t)[i] = (Norms(s) \o Norms(t))[i]
  <2> TAKE i \in 1 .. Len(s) + Len(t)
  <2>1. Norms(s \o t)[i] = (s \o t)[i].norm
    BY <1>4 DEF Norms
  <2>2. CASE i <= Len(s)
    <3>1. (s \o t)[i] = s[i] /\ (Norms(s) \o Norms(t))[i] = Norms(s)[i]
      BY <1>2, <1>3, <1>5, <2>2
    <3>2. Norms(s)[i] = s[i].norm
      BY <1>3, <1>4, <2>2 DEF Norms
    <3> QED BY <2>1, <3>1, <3>2
  <2>3. CASE i > Len(s)
    <3>1. /\ (s \o t)[i] = t[i - Len(s)]
          /\ (Norms(s) \o Norms(t))[i] = Norms(t)[i - Len(s)]
      BY <1>2, <1>3, <1>5, <2>3
    <3>2. i - Len(s) \in 1 .. Len(t)
      BY <1>3, <2>3
    <3>3. Norms(t)[i - Len(s)] = t[i - Len(s)].norm
      BY <1>4, <3>2 DEF Norms
    <3> QED BY <2>1, <3>1, <3>3
  <2>4. i <= Len(s) \/ i > Len(s)
    BY <1>3
  <2> QED BY <2>2, <2>3, <2>4
<1>7. Norms(s) \o Norms(t) \in Seq(W) /\ Len(Norms(s) \o Norms(t)) = Len(s) + Len(t)
  <2>1. PICK a, b : a = Norms(s) /\ b = Norms(t)
    OBVIOUS
  <2>2. a \in Seq(W) /\ b \in Seq(W) /\ Len(a) = Len(s) /\ Len(b) = Len(t)
    BY <1>2, <2>1
  <2>3. a \o b \in Seq(W) /\ Len(a \o b) = Len(a) + Len(b)
    BY <2>2
  <2> QED BY <2>1, <2>2, <2>3
<1> QED BY <1>2, <1>6, <1>7, SameSequence

\* Rendering does not change the words.
LEMMA NormsRender ==
  ASSUME NEW s, Sequence(s)
  PROVE  /\ Norms(Render(s)) = Norms(s) /\ Sequence(Render(s))
         /\ \A c \in Range(Render(s)) : \E t \in Range(s) : c.norm = t.norm
<1>1. Sequence(Render(s)) /\ DOMAIN Render(s) = DOMAIN s
  BY MapElements DEF Render
<1>2. \A i \in DOMAIN s : Render(s)[i].norm = s[i].norm
  BY DEF Render
<1>3. Norms(Render(s)) = Norms(s)
  BY <1>1, <1>2 DEF Norms
<1>4. \A c \in Range(Render(s)) : \E t \in Range(s) : c.norm = t.norm
  BY <1>1, <1>2 DEF Range
<1> QED BY <1>1, <1>3, <1>4

\* The two parts of a joined sequence.
LEMMA FirstPart ==
  ASSUME NEW W, NEW a \in Seq(W), NEW b \in Seq(W)
  PROVE  SubSeq(a \o b, 1, Len(a)) = a
<1>1. /\ SubSeq(a \o b, 1, Len(a)) \in Seq(W) /\ Len(SubSeq(a \o b, 1, Len(a))) = Len(a)
      /\ \A i \in 1 .. Len(a) : SubSeq(a \o b, 1, Len(a))[i] = a[i]
  OBVIOUS
<1> QED BY <1>1

LEMMA SecondPart ==
  ASSUME NEW W, NEW a \in Seq(W), NEW b \in Seq(W)
  PROVE  SubSeq(a \o b, Len(a) + 1, Len(a \o b)) = b
<1> DEFINE r == SubSeq(a \o b, Len(a) + 1, Len(a \o b))
<1>1. Len(a \o b) = Len(a) + Len(b) /\ Len(a) \in Nat /\ Len(b) \in Nat /\ a \o b \in Seq(W)
  OBVIOUS
<1>2. r \in Seq(W) /\ Len(r) = Len(b)
  BY <1>1
<1>3. \A i \in 1 .. Len(b) : r[i] = (a \o b)[Len(a) + i]
  BY <1>1
<1>4. \A i \in 1 .. Len(b) : (a \o b)[Len(a) + i] = b[i]
  BY <1>1
<1> HIDE DEF r
<1>5. r = b
  BY <1>2, <1>3, <1>4, SameSequence
<1> QED BY <1>5 DEF r

\* The first part is a prefix.
LEMMA PrefixOfJoin ==
  ASSUME NEW W, NEW a \in Seq(W), NEW b \in Seq(W)
  PROVE  IsPrefix(a, a \o b) /\ a \o b \in Seq(W)
<1>1. SubSeq(a, 1, Len(a)) = a
  BY SameSequence
<1>2. SubSeq(a \o b, 1, Len(a)) = a
  BY FirstPart
<1>3. Len(a) <= Len(a \o b) /\ a \o b \in Seq(W)
  OBVIOUS
<1> QED BY <1>1, <1>2, <1>3 DEF IsPrefix

(***************************************************************************)
(* The invariant and the steps.                                            *)
(***************************************************************************)
TextInv ==
    /\ TypeOK /\ PatchesReplay /\ TailTokens
    /\ Sequence(committed) /\ \A c \in Range(committed) : c.norm \in Words

\* What a call of build_patch_event leaves behind.
LEMMA EmitText ==
  ASSUME TextInv,
         NEW ready, Sequence(ready), \A t \in Range(ready) : t.norm \in Words,
         NEW rest, Sequence(rest), \A t \in Range(rest) : t.norm \in Words,
         Emit(committed \o Render(ready), rest)
  PROVE  /\ Sequence(committed') /\ \A c \in Range(committed') : c.norm \in Words
         /\ lastCommitted' = Len(committed')
         /\ tail' = rest
         /\ PatchesReplay'
         /\ Norms(committed') \in Seq(Words) /\ Norms(tail') \in Seq(Words)
         /\ \E more \in Seq(Words) : Norms(committed') = Norms(committed) \o more
<1>1. /\ Sequence(committed) /\ \A c \in Range(committed) : c.norm \in Words
      /\ Sequence(tail) /\ \A t \in Range(tail) : t.norm \in Words
      /\ lastCommitted = Len(committed) /\ shown = Norms(committed) \o Norms(tail)
  BY DEF TextInv, TailTokens, Token, TypeOK, PatchesReplay
<1> DEFINE a == Norms(committed)
           b == Norms(tail)
           c == Norms(ready)
           d == Norms(rest)
<1>2. /\ a \in Seq(Words) /\ b \in Seq(Words) /\ c \in Seq(Words) /\ d \in Seq(Words)
      /\ Len(a) = Len(committed)
  BY <1>1, NormsOf
<1>3. /\ Norms(Render(ready)) = c /\ Sequence(Render(ready))
      /\ \A t \in Range(Render(ready)) : t.norm \in Words
  BY NormsRender
<1>4. /\ committed' = committed \o Render(ready) /\ tail' = rest
      /\ lastCommitted' = Len(committed \o Render(ready))
      /\ shown' = SubSeq(shown, 1, lastCommitted)
                    \o SubSeq(Norms(committed \o Render(ready)) \o d, lastCommitted + 1,
                              Len(Norms(committed \o Render(ready)) \o d))
  BY DEF Emit
<1>5. Norms(committed \o Render(ready)) = a \o c
  <2>1. Norms(committed \o Render(ready)) = Norms(committed) \o Norms(Render(ready))
    <3>1. Sequence(committed) /\ Sequence(Render(ready))
      BY <1>1, <1>3
    <3> QED BY <3>1, NormsJoin
  <2> QED BY <1>3, <2>1
<1>6. /\ Sequence(committed \o Render(ready))
      /\ Range(committed \o Render(ready)) = Range(committed) \cup Range(Render(ready))
  BY <1>1, <1>3, JoinElements
<1>7. Norms(committed') = a \o c /\ Norms(tail') = d
  BY <1>4, <1>5
<1> HIDE DEF a, b, c, d
<1>8. shown' = a \o c \o d
  <2> DEFINE e == c \o d
  <2>1. a \o c \o d = a \o e /\ e \in Seq(Words)
    BY <1>2
  <2> HIDE DEF e
  <2>2. shown' = SubSeq(a \o b, 1, Len(a)) \o SubSeq(a \o e, Len(a) + 1, Len(a \o e))
    BY <1>1, <1>2, <1>4, <1>5, <2>1 DEF a, b
  <2>3. SubSeq(a \o b, 1, Len(a)) = a /\ SubSeq(a \o e, Len(a) + 1, Len(a \o e)) = e
    BY <1>2, <2>1, FirstPart, SecondPart
  <2> QED BY <2>1, <2>2, <2>3
<1>9. PatchesReplay'
  BY <1>7, <1>8 DEF PatchesReplay
<1>10. a \o c \in Seq(Words)
  BY <1>2
<1> QED BY <1>1, <1>2, <1>3, <1>4, <1>6, <1>7, <1>9, <1>10 DEF a

\* A window commits the ready tokens at the head, and keeps some of the others.
LEMMA IngestParts ==
  ASSUME TextInv, NEW hearing, Ingest(hearing)
  PROVE  LET next == NewTail(Observations(hearing, tick + 1), tick + 1)
         IN  /\ Sequence(next) /\ \A t \in Range(next) : Token(t, tick + 1)
             /\ \E ready, rest :
                  /\ Sequence(ready) /\ Range(ready) \subseteq Range(next)
                  /\ Range(ready) = {next[i] : i \in 1 .. ReadyCount(next, tick + 1)}
                  /\ \A t \in Range(ready) : Ready(t, tick + 1)
                  /\ Sequence(rest) /\ Range(rest) \subseteq Range(next)
                  /\ Picks(ready, next, DOMAIN next) /\ Picks(rest, next, DOMAIN next)
                  /\ InFront(ready, rest, next)
                  /\ \A t \in Range(next) :
                       \/ t \in Range(ready)
                       \/ t \in Range(rest)
                       \/ (committed' # <<>> /\ ~(t.end > Last(committed').end))
                  /\ Emit(committed \o Render(ready), rest)
<1> DEFINE k     == tick + 1
           next  == NewTail(Observations(hearing, k), k)
           count == ReadyCount(next, k)
           ready == SubSeq(next, 1, count)
           after == SubSeq(next, count + 1, Len(next))
           grown == committed \o Render(ready)
           I     == {i \in DOMAIN after : grown # <<>> => after[i].end > Last(grown).end}
           rest  == Among(after, I)
<1>1. Emit(grown, rest)
  BY DEF Ingest, Pruned, Kept
<1>2. TailTokens /\ tick \in Nat
  BY DEF TextInv, TailTokens
<1>3. Sequence(next) /\ \A t \in Range(next) : Token(t, tick + 1)
  BY <1>2, ObservationWords, NewTailTokens
<1> HIDE DEF next
<1>4. /\ count \in 0 .. Len(next) /\ Len(next) \in Nat /\ DOMAIN next = 1 .. Len(next)
      /\ \A i \in 1 .. count : Ready(next[i], k)
  BY <1>3, ReadyCountRange DEF Sequence
<1> HIDE DEF count
<1>5. Sequence(ready) /\ Range(ready) \subseteq Range(next)
  BY <1>3, <1>4, PartElements
<1>6. Range(ready) = {next[i] : i \in 1 .. count} /\ \A t \in Range(ready) : Ready(t, k)
  <2>1. next \in Seq(Range(next))
    BY <1>3 DEF Sequence
  <2>2. Len(ready) = count /\ DOMAIN ready = 1 .. count /\ \A i \in 1 .. count : ready[i] = next[i]
    BY <1>4, <2>1
  <2> HIDE DEF ready
  <2> QED BY <1>4, <2>2 DEF Range
<1>7. Sequence(after) /\ Range(after) \subseteq Range(next)
  BY <1>3, <1>4, PartElements
<1>8. /\ Picks(ready, next, DOMAIN next) /\ Picks(after, next, DOMAIN next)
      /\ InFront(ready, after, next)
  BY <1>3, <1>4, PartsInTurn
<1>9. Range(next) \subseteq Range(ready) \cup Range(after)
  <2>1. next \in Seq(Range(next))
    BY <1>3 DEF Sequence
  <2>2. /\ DOMAIN ready = 1 .. count /\ \A i \in 1 .. count : ready[i] = next[i]
        /\ DOMAIN after = 1 .. Len(next) - count
        /\ \A i \in 1 .. Len(next) - count : after[i] = next[count + i]
    BY <1>4, <2>1
  <2> HIDE DEF ready, after
  <2>3. \A i \in 1 .. count : next[i] \in Range(ready)
    BY <2>2 DEF Range
  <2>4. ASSUME NEW i \in 1 .. Len(next), i > count PROVE next[i] \in Range(after)
    <3>1. i - count \in 1 .. Len(next) - count /\ count + (i - count) = i
      BY <1>4, <2>4
    <3> QED BY <2>2, <3>1 DEF Range
  <2>5. \A i \in 1 .. Len(next) : i \in 1 .. count \/ i > count
    BY <1>4
  <2> QED BY <1>4, <2>3, <2>4, <2>5 DEF Range
<1> HIDE DEF ready, after
<1>10. Sequence(rest) /\ Range(rest) \subseteq {after[i] : i \in I}
  BY <1>7, KeptElements
<1>11. \A i \in I : after[i] \in Range(rest)
  <2>1. I \subseteq DOMAIN after
    OBVIOUS
  <2> HIDE DEF I
  <2> QED BY <1>7, <2>1, KeptAll
<1>12. \A t \in Range(next) : \/ t \in Range(ready)
                             \/ t \in Range(rest)
                             \/ (committed' # <<>> /\ ~(t.end > Last(committed').end))
  <2>1. committed' = grown
    BY <1>1 DEF Emit
  <2>2. \A i \in DOMAIN after : i \in I \/ (grown # <<>> /\ ~(after[i].end > Last(grown).end))
    OBVIOUS
  <2> HIDE DEF I, grown, rest
  <2> SUFFICES ASSUME NEW t \in Range(next), t \notin Range(ready), t \notin Range(rest)
               PROVE  grown # <<>> /\ ~(t.end > Last(grown).end)
    BY <2>1
  <2>3. PICK i \in DOMAIN after : t = after[i]
    BY <1>9 DEF Range
  <2> QED BY <1>11, <2>2, <2>3
<1>13. Range(rest) \subseteq Range(next)
  <2>1. {after[i] : i \in I} \subseteq Range(after)
    BY DEF Range
  <2> QED BY <1>7, <1>10, <2>1
<1>14. Picks(rest, next, DOMAIN next) /\ InFront(ready, rest, next)
  <2>1. Picks(rest, after, I) /\ I \subseteq DOMAIN after
    BY <1>7, KeptInOrder
  <2>2. Range(rest) \subseteq Range(after)
    BY <1>10 DEF Range
  <2> HIDE DEF rest, I
  <2>3. Picks(rest, next, DOMAIN next)
    <3> SUFFICES ASSUME NEW i \in DOMAIN rest, NEW j \in DOMAIN rest, i < j
                 PROVE  \E x, y \in DOMAIN next : x < y /\ rest[i] = next[x] /\ rest[j] = next[y]
      BY DEF Picks
    <3>1. PICK v, w \in I : v < w /\ rest[i] = after[v] /\ rest[j] = after[w]
      BY <2>1 DEF Picks
    <3> QED BY <1>8, <2>1, <3>1 DEF Picks
  <2> QED BY <1>8, <2>2, <2>3 DEF InFront
<1> HIDE DEF rest
<1>15. /\ Sequence(ready) /\ Range(ready) \subseteq Range(next)
       /\ Range(ready) = {next[i] : i \in 1 .. ReadyCount(next, k)}
       /\ \A t \in Range(ready) : Ready(t, k)
       /\ Sequence(rest) /\ Range(rest) \subseteq Range(next)
       /\ Picks(ready, next, DOMAIN next) /\ Picks(rest, next, DOMAIN next)
       /\ InFront(ready, rest, next)
       /\ \A t \in Range(next) : \/ t \in Range(ready)
                                \/ t \in Range(rest)
                                \/ (committed' # <<>> /\ ~(t.end > Last(committed').end))
       /\ Emit(committed \o Render(ready), rest)
  BY <1>1, <1>5, <1>6, <1>8, <1>10, <1>13, <1>14, <1>12 DEF count
<1> QED BY <1>3, <1>15 DEF next

\* A window keeps the invariant.
LEMMA IngestText ==
  ASSUME TextInv, NEW hearing, Ingest(hearing)
  PROVE  /\ TextInv'
         /\ Norms(committed') \in Seq(Words) /\ Norms(tail') \in Seq(Words)
         /\ \E more \in Seq(Words) : Norms(committed') = Norms(committed) \o more
<1> DEFINE k    == tick + 1
           next == NewTail(Observations(hearing, k), k)
<1>1. /\ tick < MaxTick /\ tick' = k /\ flushed' = flushed
      /\ hasFull' = (hasFull \/ WindowEnd(k) >= Window)
  BY DEF Ingest
<1>2. tick \in Nat
  BY DEF TextInv, TailTokens
<1>3. Sequence(next) /\ \A t \in Range(next) : Token(t, tick + 1)
  BY IngestParts
<1>4. PICK ready, rest :
        /\ Sequence(ready) /\ Range(ready) \subseteq Range(next)
        /\ Sequence(rest) /\ Range(rest) \subseteq Range(next)
        /\ Emit(committed \o Render(ready), rest)
  BY IngestParts
<1> HIDE DEF next
<1>5. \A t \in Range(next) : t.norm \in Words
  BY <1>3 DEF Token
<1>10. /\ Sequence(committed') /\ \A c \in Range(committed') : c.norm \in Words
       /\ lastCommitted' = Len(committed')
       /\ tail' = rest
       /\ PatchesReplay'
       /\ Norms(committed') \in Seq(Words) /\ Norms(tail') \in Seq(Words)
       /\ \E more \in Seq(Words) : Norms(committed') = Norms(committed) \o more
  BY <1>4, <1>5, EmitText
<1>11. tick' \in Nat /\ \A t \in Range(tail') : Token(t, tick')
  BY <1>1, <1>2, <1>3, <1>4, <1>10
<1>12. TailTokens'
  BY <1>4, <1>10, <1>11 DEF TailTokens
<1>13. TypeOK'
  <2>1. tick' \in 0 .. MaxTick
    BY <1>1, <1>2, PrefixAssumption
  <2>2. hasFull' \in BOOLEAN /\ flushed' \in BOOLEAN
    BY <1>1 DEF TextInv, TypeOK
  <2>3. \A t \in Range(tail') : Counted(t, tick')
    BY <1>11 DEF Token
  <2> QED BY <1>10, <2>1, <2>2, <2>3 DEF TypeOK, Counted
<1> QED BY <1>10, <1>12, <1>13 DEF TextInv

\* The end of the recording keeps it, and leaves no tail.
LEMMA FlushText ==
  ASSUME TextInv, Flush
  PROVE  /\ TextInv' /\ tail' = <<>>
         /\ Norms(committed') \in Seq(Words) /\ Norms(tail') \in Seq(Words)
         /\ \E more \in Seq(Words) : Norms(committed') = Norms(committed) \o more
<1> DEFINE I     == {i \in DOMAIN tail : Flushable(tail[i])}
           ready == Among(tail, I)
           rest  == <<>>
<1>1. /\ flushed' = TRUE /\ hasFull' = hasFull /\ tick' = tick
      /\ Emit(committed \o Render(ready), rest)
  BY DEF Flush, Kept
<1>2. Sequence(tail) /\ \A t \in Range(tail) : t.norm \in Words
  BY DEF TextInv, TailTokens, Token
<1>3. Sequence(ready) /\ \A t \in Range(ready) : t.norm \in Words
  <2>1. Sequence(ready) /\ Range(ready) \subseteq {tail[i] : i \in I}
    BY <1>2, KeptElements
  <2>2. {tail[i] : i \in I} \subseteq Range(tail)
    BY DEF Range
  <2> QED BY <1>2, <2>1, <2>2
<1> HIDE DEF ready
<1>4. Range(rest) = {} /\ Sequence(rest)
  BY DEF Range, Sequence
<1> HIDE DEF rest
<1>5. /\ Sequence(committed') /\ \A c \in Range(committed') : c.norm \in Words
      /\ lastCommitted' = Len(committed') /\ tail' = rest /\ PatchesReplay'
      /\ Norms(committed') \in Seq(Words) /\ Norms(tail') \in Seq(Words)
      /\ \E more \in Seq(Words) : Norms(committed') = Norms(committed) \o more
  BY <1>1, <1>3, <1>4, EmitText
<1>6. TailTokens'
  BY <1>1, <1>4, <1>5 DEF TextInv, TailTokens
<1>7. TypeOK'
  BY <1>1, <1>4, <1>5 DEF TextInv, TypeOK
<1> QED BY <1>5, <1>6, <1>7 DEF TextInv, rest

\* An aggregator without a text satisfies the invariant.
LEMMA InitText == Init => TextInv
<1> SUFFICES ASSUME Init PROVE TextInv
  OBVIOUS
<1>1. Range(<<>>) = {} /\ Sequence(<<>>) /\ Norms(<<>>) = <<>>
  BY DEF Range, Sequence, Norms
<1>2. TypeOK
  <2>1. tick \in 0 .. MaxTick /\ lastCommitted = Len(committed)
    BY PrefixAssumption DEF Init
  <2>2. hasFull \in BOOLEAN /\ flushed \in BOOLEAN
    BY DEF Init
  <2>3. Range(tail) = {}
    BY <1>1 DEF Init
  <2> QED BY <2>1, <2>2, <2>3 DEF TypeOK
<1>3. PatchesReplay
  BY <1>1 DEF Init, PatchesReplay
<1> QED BY <1>1, <1>2, <1>3 DEF Init, TextInv, TailTokens

\* Every step keeps it.
LEMMA NextText == TextInv /\ [Next]_vars => TextInv'
<1> SUFFICES ASSUME TextInv, [Next]_vars PROVE TextInv'
  OBVIOUS
<1>1. CASE Hear
  BY <1>1, IngestText DEF Hear
<1>2. CASE Flush
  BY <1>2, FlushText
<1>3. CASE UNCHANGED vars
  BY <1>3 DEF vars, TextInv, TypeOK, PatchesReplay, TailTokens, CanCommitAlone,
     EvidenceReady, Norms
<1> QED BY <1>1, <1>2, <1>3 DEF Next

\* The invariant of the aggregator.
LEMMA TextInvariant == Spec => []TextInv
BY InitText, NextText, PTL DEF Spec

\* The tokens of the tail have the counters TypeOK says.
THEOREM TypeCorrect == Spec => []TypeOK
BY TextInvariant, PTL DEF TextInv

\* A client that applies every patch has the aggregator's text.
THEOREM ClientHasTheText == Spec => []PatchesReplay
BY TextInvariant, PTL DEF TextInv

\* The final text only grows, in front of what may still change, and the end
\* of the recording makes all of it final.
THEOREM TranscriptIsKept == Spec => RefinesTranscript
<1>1. Init => Promise!Init
  <2>1. Norms(<<>>) = <<>>
    BY DEF Norms
  <2> QED BY <2>1 DEF Init, Promise!Init
<1>2. TextInv /\ [Next]_vars => [Promise!Next]_(Promise!vars)
  <2> SUFFICES ASSUME TextInv, [Next]_vars PROVE [Promise!Next]_(Promise!vars)
    OBVIOUS
  <2>1. ASSUME /\ Norms(committed') \in Seq(Words) /\ Norms(tail') \in Seq(Words)
               /\ \E more \in Seq(Words) : Norms(committed') = Norms(committed) \o more
               /\ TextInv'
        PROVE  /\ Norms(committed) \in Seq(Words) /\ shown' \in Seq(Words)
               /\ IsPrefix(Norms(committed), Norms(committed'))
               /\ IsPrefix(Norms(committed'), shown')
    <3>1. Norms(committed) \in Seq(Words)
      BY NormsOf DEF TextInv
    <3>2. shown' = Norms(committed') \o Norms(tail')
      BY <2>1 DEF TextInv, PatchesReplay
    <3>3. \A a, b \in Seq(Words) : IsPrefix(a, a \o b) /\ a \o b \in Seq(Words)
      BY PrefixOfJoin
    <3> QED BY <2>1, <3>1, <3>2, <3>3
  <2>2. CASE Hear
    <3>1. PICK hearing : Ingest(hearing)
      BY <2>2 DEF Hear
    <3>2. ~flushed /\ flushed' = flushed
      BY <3>1 DEF Ingest
    <3>3. Promise!Update
      <4>1. /\ Norms(committed') \in Seq(Words) /\ Norms(tail') \in Seq(Words)
            /\ \E more \in Seq(Words) : Norms(committed') = Norms(committed) \o more
            /\ TextInv'
        BY <3>1, IngestText
      <4>2. /\ shown' \in Seq(Words) /\ IsPrefix(Norms(committed), Norms(committed'))
            /\ IsPrefix(Norms(committed'), shown')
        BY <2>1, <4>1
      <4> QED BY <3>2, <4>1, <4>2 DEF Promise!Update, Words, IsPrefix, Promise!IsPrefix
    <3> QED BY <3>3 DEF Promise!Next
  <2>3. CASE Flush
    <3>1. ~flushed /\ flushed' = TRUE
      BY <2>3 DEF Flush
    <3>2. shown' = Norms(committed')
      <4>1. Norms(tail') = <<>>
        BY <2>3, FlushText DEF Norms
      <4>2. shown' = Norms(committed') \o Norms(tail') /\ Norms(committed') \in Seq(Words)
        BY <2>3, FlushText DEF TextInv, PatchesReplay
      <4> QED BY <4>1, <4>2
    <3>3. Promise!Close
      <4>1. /\ Norms(committed') \in Seq(Words) /\ Norms(tail') \in Seq(Words)
            /\ \E more \in Seq(Words) : Norms(committed') = Norms(committed) \o more
            /\ TextInv'
        BY <2>3, FlushText
      <4>2. IsPrefix(Norms(committed), Norms(committed'))
        BY <2>1, <4>1
      <4> QED BY <3>1, <3>2, <4>1, <4>2 DEF Promise!Close, Words, IsPrefix, Promise!IsPrefix
    <3> QED BY <3>3 DEF Promise!Next
  <2>4. CASE UNCHANGED vars
    BY <2>4 DEF vars, Promise!vars, Norms
  <2> QED BY <2>2, <2>3, <2>4 DEF Next
<1> QED BY <1>1, <1>2, TextInvariant, PTL DEF Spec, RefinesTranscript, Promise!Spec

(***************************************************************************)
(* Words.  If no report of a word can be taken for one of another, a token *)
(* stands for one word: it has the text and the time of a report of it.    *)
(* The windows that support the token then are windows that reported the   *)
(* word.                                                                   *)
(***************************************************************************)
SameWord(t, obs) == t.norm = obs.norm /\ t.start = obs.start /\ t.end = obs.end

StandsFor(t, w) == /\ t.of = {w}
                   /\ \E r \in HeardReports : SameWord(t, Observation(w, r, 1))

WordInv ==
    /\ TextInv /\ reports \in [DOMAIN Speech -> Nat]
    /\ \A t \in Range(tail) : \E w \in DOMAIN Speech :
          StandsFor(t, w) /\ reports[w] >= t.support
    /\ \A c \in Range(committed) : \E w \in DOMAIN Speech :
          StandsFor(c, w) /\ (~flushed => reports[w] >= MinSupport)

\* Every window observes a report in the same place.
LEMMA ObservedAlike ==
  ASSUME NEW w, NEW r, NEW k
  PROVE  SameWord(Observation(w, r, k), Observation(w, r, 1))
BY DEF Observation, SameWord

\* The times of a report are integers.
LEMMA ObservedAt ==
  ASSUME NEW w \in DOMAIN Speech, NEW r \in HeardReports, NEW k
  PROVE  /\ Observation(w, r, k).start \in Int /\ Observation(w, r, k).end \in Int
         /\ Speech[w].start \in Int
<1>1. Speech[w].start \in Int /\ Speech[w].end \in Int
  <2> DEFINE Word == [norm : {Speech[x].norm : x \in DOMAIN Speech},
                      start : Int, end : Int]
  <2>1. \A word \in Word : word.start \in Int /\ word.end \in Int
    OBVIOUS
  <2>2. Speech \in Seq(Word)
    BY PrefixAssumption
  <2> HIDE DEF Word
  <2>3. Speech[w] \in Word
    BY <2>2
  <2> QED BY <2>1, <2>3
<1>2. r.shift \in Int
  BY PrefixAssumption DEF HeardReports
<1>3. /\ Observation(w, r, k).start = Speech[w].start + r.shift
      /\ Observation(w, r, k).end = Speech[w].end + r.shift
  BY DEF Observation
<1> QED BY <1>1, <1>2, <1>3

\* Two similar tokens, each at a report of a word, are of one word.
LEMMA SimilarIsSame ==
  ASSUME WordsApart, NEW t, NEW u, Similar(t, u),
         NEW v \in DOMAIN Speech, NEW w \in DOMAIN Speech,
         NEW q \in HeardReports, NEW r \in HeardReports,
         SameWord(t, Observation(v, q, 1)), SameWord(u, Observation(w, r, 1))
  PROVE  v = w
<1> DEFINE a == Observation(v, q, 1)
           b == Observation(w, r, 1)
<1>1. a.start \in Int /\ a.end \in Int /\ b.start \in Int /\ b.end \in Int
  BY ObservedAt
<1>2. v # w /\ a.norm = b.norm => Distance(Center(a), Center(b)) > 2 * Delta
  BY DEF WordsApart
<1>3. a.norm = b.norm /\ Distance(Center(a), Center(b)) <= 2 * Delta
  BY DEF SameWord, Similar, Center
<1> HIDE DEF a, b
<1> QED BY <1>1, <1>2, <1>3, AlignmentAssumption DEF Distance, Center

\* A window reports a word once, and a token of it stands for it.
LEMMA NewTailStands ==
  ASSUME WordsApart, WordInv,
         NEW hearing, \A w \in DOMAIN Speech : hearing[w] \in Reports, Ingest(hearing)
  PROVE  /\ reports' \in [DOMAIN Speech -> Nat]
         /\ \A w \in DOMAIN Speech : reports'[w] >= reports[w]
         /\ \A t \in Range(NewTail(Observations(hearing, tick + 1), tick + 1)) :
              \E w \in DOMAIN Speech : StandsFor(t, w) /\ reports'[w] >= t.support
<1> DEFINE k == tick + 1
           observations == Observations(hearing, k)
<1>1. /\ reports \in [DOMAIN Speech -> Nat] /\ TailTokens /\ tick \in Nat
      /\ \A t \in Range(tail) : Token(t, tick)
  BY DEF WordInv, TextInv, TailTokens
<1>2. /\ reports' \in [DOMAIN Speech -> Nat]
      /\ \A w \in DOMAIN Speech : /\ reports'[w] \in {reports[w], reports[w] + 1}
                                  /\ hearing[w].heard => reports'[w] = reports[w] + 1
  <2>1. reports' = [w \in DOMAIN Speech |->
                      IF hearing[w].heard THEN reports[w] + 1 ELSE reports[w]]
    BY DEF Ingest
  <2> QED BY <1>1, <2>1
<1>3. \A w \in DOMAIN Speech : reports'[w] >= reports[w]
  BY <1>1, <1>2
<1>4. /\ Sequence(observations)
      /\ \A obs \in Range(observations) :
            /\ obs.of \in DOMAIN Speech /\ hearing[obs.of] \in HeardReports
            /\ SameWord(obs, Observation(obs.of, hearing[obs.of], 1))
            /\ reports'[obs.of] = reports[obs.of] + 1
  <2>1. /\ Sequence(observations)
        /\ \A obs \in Range(observations) :
              /\ obs.of \in DOMAIN Speech /\ hearing[obs.of].heard
              /\ obs = Observation(obs.of, hearing[obs.of], k)
    BY ObservationWords
  <2> HIDE DEF observations
  <2>2. \A obs \in Range(observations) :
            SameWord(obs, Observation(obs.of, hearing[obs.of], 1))
    BY <2>1, ObservedAlike
  <2> QED BY <1>2, <2>1, <2>2 DEF HeardReports
<1> HIDE DEF observations
<1>5. ASSUME NEW t, NEW u \in Range(tail), t = Carry(u)
      PROVE  \E w \in DOMAIN Speech : StandsFor(t, w) /\ reports'[w] >= t.support
  <2>1. PICK w \in DOMAIN Speech : StandsFor(u, w) /\ reports[w] >= u.support
    BY DEF WordInv
  <2>2. /\ t.of = u.of /\ t.norm = u.norm /\ t.start = u.start /\ t.end = u.end
        /\ t.support = u.support
    BY <1>1, <1>5 DEF Token, Shaped, Carry
  <2>3. StandsFor(t, w)
    BY <2>1, <2>2 DEF StandsFor, SameWord
  <2>4. u.support \in Nat
    BY <1>1 DEF Token, Counted
  <2>5. reports[w] \in Nat /\ reports'[w] \in Nat /\ reports'[w] >= reports[w]
    BY <1>1, <1>2, <1>3
  <2>6. reports'[w] >= t.support
    BY <2>1, <2>2, <2>4, <2>5
  <2> QED BY <2>3, <2>6
<1>6. ASSUME NEW t, NEW u \in Range(tail), NEW obs \in Range(observations),
             t = Merge(u, obs), Similar(u, obs)
      PROVE  \E w \in DOMAIN Speech : StandsFor(t, w) /\ reports'[w] >= t.support
  <2>1. PICK w \in DOMAIN Speech : StandsFor(u, w) /\ reports[w] >= u.support
    BY DEF WordInv
  <2>2. PICK r \in HeardReports : SameWord(u, Observation(w, r, 1))
    BY <2>1 DEF StandsFor
  <2>3. obs.of = w
    BY <1>4, <1>6, <2>2, SimilarIsSame
  <2>4. t.of = {w}
    BY <1>6, <2>1, <2>3 DEF Merge, StandsFor
  <2>5. SameWord(t, u) \/ SameWord(t, obs)
    <3>1. u.norm = obs.norm
      BY <1>6 DEF Similar
    <3>2. /\ t.norm = u.norm
          /\ \/ t.start = u.start /\ t.end = u.end
             \/ t.start = obs.start /\ t.end = obs.end
      BY <1>6 DEF Merge
    <3> QED BY <3>1, <3>2 DEF SameWord
  <2>6. \E q \in HeardReports : SameWord(t, Observation(w, q, 1))
    BY <1>4, <2>2, <2>3, <2>5 DEF SameWord
  <2>7. reports'[w] >= t.support
    <3>1. u.support \in Nat /\ t.support \in {u.support, u.support + 1}
      BY <1>1, <1>6 DEF Token, Counted, Merge
    <3>2. reports[w] \in Nat /\ reports'[w] = reports[w] + 1
      BY <1>1, <1>4, <2>3
    <3> QED BY <2>1, <3>1, <3>2
  <2> QED BY <2>4, <2>6, <2>7 DEF StandsFor
<1>7. ASSUME NEW t, NEW obs \in Range(observations), t = NewToken(obs)
      PROVE  \E w \in DOMAIN Speech : StandsFor(t, w) /\ reports'[w] >= t.support
  <2>1. t.of = {obs.of} /\ SameWord(t, obs) /\ t.support = 1
    BY <1>7 DEF NewToken, SameWord
  <2>2. SameWord(t, Observation(obs.of, hearing[obs.of], 1))
    BY <1>4, <2>1 DEF SameWord
  <2>3. reports'[obs.of] >= t.support
    BY <1>1, <1>4, <2>1
  <2> QED BY <1>4, <2>1, <2>2, <2>3 DEF StandsFor
<1>8. Sequence(tail)
  BY <1>1 DEF TailTokens
<1>9. \A t \in Range(NewTail(observations, k)) :
        \E w \in DOMAIN Speech : StandsFor(t, w) /\ reports'[w] >= t.support
  BY <1>4, <1>5, <1>6, <1>7, <1>8, NewTailIsMadeOf DEF Reported
<1> QED BY <1>2, <1>3, <1>9 DEF observations

\* The committed text after a call of build_patch_event, by its tokens.
LEMMA EmitTokens ==
  ASSUME Sequence(committed), NEW ready, Sequence(ready), NEW rest,
         Emit(committed \o Render(ready), rest)
  PROVE  /\ tail' = rest
         /\ \A c \in Range(committed') :
              c \in Range(committed) \/ \E t \in Range(ready) : c.of = t.of /\ SameWord(c, t)
         /\ Range(committed) \subseteq Range(committed')
         /\ \A t \in Range(ready) : \E c \in Range(committed') : c.of = t.of
<1>1. Sequence(Render(ready)) /\ DOMAIN Render(ready) = DOMAIN ready
  BY MapElements DEF Render
<1>2. \A c \in Range(Render(ready)) :
        \E t \in Range(ready) : c.of = t.of /\ SameWord(c, t)
  <2>1. \A i \in DOMAIN ready : /\ Render(ready)[i].of = ready[i].of
                                /\ SameWord(Render(ready)[i], ready[i])
    BY DEF Render, SameWord
  <2> QED BY <1>1, <2>1 DEF Range
<1>3. \A t \in Range(ready) : \E c \in Range(Render(ready)) : c.of = t.of
  <2>1. \A i \in DOMAIN ready : Render(ready)[i].of = ready[i].of
    BY DEF Render
  <2> QED BY <1>1, <2>1 DEF Range
<1>4. Range(committed \o Render(ready)) = Range(committed) \cup Range(Render(ready))
  BY <1>1, JoinElements
<1> QED BY <1>2, <1>3, <1>4 DEF Emit

\* An aggregator without a text satisfies the invariant.
LEMMA InitWords == Init => WordInv
<1> SUFFICES ASSUME Init PROVE WordInv
  OBVIOUS
<1>1. TextInv
  BY InitText
<1>2. Range(tail) = {} /\ Range(committed) = {}
  BY DEF Init, Range
<1> QED BY <1>1, <1>2 DEF Init, WordInv

\* A window keeps it.
LEMMA IngestWords ==
  ASSUME WordsApart, WordInv,
         NEW hearing, \A w \in DOMAIN Speech : hearing[w] \in Reports, Ingest(hearing)
  PROVE  WordInv'
<1> DEFINE next == NewTail(Observations(hearing, tick + 1), tick + 1)
<1>1. TextInv /\ TextInv'
  BY IngestText DEF WordInv
<1>2. /\ reports' \in [DOMAIN Speech -> Nat]
      /\ \A w \in DOMAIN Speech : reports'[w] >= reports[w]
      /\ \A t \in Range(next) :
           \E w \in DOMAIN Speech : StandsFor(t, w) /\ reports'[w] >= t.support
  BY NewTailStands
<1>3. \A t \in Range(next) : t.support \in Nat
  BY <1>1, IngestParts DEF Token, Counted
<1>4. PICK ready, rest :
        /\ Sequence(ready) /\ Range(ready) \subseteq Range(next)
        /\ \A t \in Range(ready) : Ready(t, tick + 1)
        /\ Sequence(rest) /\ Range(rest) \subseteq Range(next)
        /\ Emit(committed \o Render(ready), rest)
  BY <1>1, IngestParts
<1> HIDE DEF next
<1>5. /\ tail' = rest
      /\ \A c \in Range(committed') :
           c \in Range(committed) \/ \E t \in Range(ready) : c.of = t.of /\ SameWord(c, t)
  BY <1>1, <1>4, EmitTokens DEF TextInv
<1>6. \A t \in Range(tail') :
        \E w \in DOMAIN Speech : StandsFor(t, w) /\ reports'[w] >= t.support
  BY <1>2, <1>4, <1>5
<1>7. MinSupport \in Nat
  BY PrefixAssumption
<1>8. \A c \in Range(committed') : \E w \in DOMAIN Speech :
        StandsFor(c, w) /\ reports'[w] >= MinSupport
  <2> TAKE c \in Range(committed')
  <2>1. CASE c \in Range(committed)
    <3>1. ~flushed /\ reports \in [DOMAIN Speech -> Nat]
      BY DEF Ingest, WordInv
    <3>2. PICK w \in DOMAIN Speech : StandsFor(c, w) /\ reports[w] >= MinSupport
      BY <2>1, <3>1 DEF WordInv
    <3>3. reports[w] \in Nat /\ reports'[w] \in Nat /\ reports'[w] >= reports[w]
      BY <1>2, <3>1
    <3>4. reports'[w] >= MinSupport
      BY <1>7, <3>2, <3>3
    <3> QED BY <3>2, <3>4
  <2>2. CASE \E t \in Range(ready) : c.of = t.of /\ SameWord(c, t)
    <3>1. PICK t \in Range(ready) : c.of = t.of /\ SameWord(c, t)
      BY <2>2
    <3>2. t.support >= MinSupport /\ t.support \in Nat
      BY <1>3, <1>4 DEF Ready, CanCommitAlone, EvidenceReady
    <3>3. PICK w \in DOMAIN Speech : StandsFor(t, w) /\ reports'[w] >= t.support
      BY <1>2, <1>4
    <3>4. reports'[w] \in Nat
      BY <1>2
    <3>5. reports'[w] >= MinSupport
      BY <1>7, <3>2, <3>3, <3>4
    <3> QED BY <3>1, <3>3, <3>5 DEF StandsFor, SameWord
  <2> QED BY <1>5, <2>1, <2>2
<1> QED BY <1>1, <1>2, <1>6, <1>8 DEF WordInv

\* The end of the recording keeps it.
LEMMA FlushWords ==
  ASSUME WordInv, Flush
  PROVE  WordInv'
<1> DEFINE I     == {i \in DOMAIN tail : Flushable(tail[i])}
           ready == Among(tail, I)
<1>1. TextInv /\ TextInv' /\ tail' = <<>>
  BY FlushText DEF WordInv
<1>2. /\ flushed' = TRUE /\ reports' = reports
      /\ Emit(committed \o Render(ready), <<>>)
  BY DEF Flush, Kept
<1>3. Sequence(ready) /\ Range(ready) \subseteq Range(tail)
  <2>1. Sequence(tail)
    BY <1>1 DEF TextInv, TailTokens
  <2>2. Sequence(ready) /\ Range(ready) \subseteq {tail[i] : i \in I}
    BY <2>1, KeptElements
  <2>3. {tail[i] : i \in I} \subseteq Range(tail)
    BY DEF Range
  <2> QED BY <2>2, <2>3
<1> HIDE DEF ready
<1>4. \A c \in Range(committed') :
        c \in Range(committed) \/ \E t \in Range(ready) : c.of = t.of /\ SameWord(c, t)
  BY <1>1, <1>2, <1>3, EmitTokens DEF TextInv
<1>5. \A c \in Range(committed') : \E w \in DOMAIN Speech : StandsFor(c, w)
  BY <1>3, <1>4 DEF WordInv, StandsFor, SameWord
<1>6. Range(tail') = {}
  BY <1>1 DEF Range
<1> QED BY <1>1, <1>2, <1>5, <1>6 DEF WordInv

\* Every step keeps it.
LEMMA NextWords ==
  ASSUME WordsApart
  PROVE  WordInv /\ [Next]_vars => WordInv'
<1> SUFFICES ASSUME WordInv, [Next]_vars PROVE WordInv'
  OBVIOUS
<1>1. CASE Hear
  <2>1. PICK heard \in [Covered(tick + 1) -> Reports] :
          Ingest([w \in DOMAIN Speech |-> IF w \in DOMAIN heard THEN heard[w] ELSE Missed])
    BY <1>1 DEF Hear
  <2> DEFINE hearing == [w \in DOMAIN Speech |->
                           IF w \in DOMAIN heard THEN heard[w] ELSE Missed]
  <2>2. \A w \in DOMAIN Speech : hearing[w] \in Reports
    BY PrefixAssumption
  <2>3. Ingest(hearing)
    BY <2>1
  <2> HIDE DEF hearing
  <2> QED BY <2>2, <2>3, IngestWords
<1>2. CASE Flush
  BY <1>2, FlushWords
<1>3. CASE UNCHANGED vars
  <2>1. TextInv'
    BY <1>3, NextText DEF WordInv
  <2> QED BY <1>3, <2>1 DEF vars, WordInv
<1> QED BY <1>1, <1>2, <1>3 DEF Next

\* A token stands for one word, if no two words can be taken for each other.
THEOREM TokensAreWords ==
  ASSUME WordsApart
  PROVE  Spec => []OneWord
<1>1. WordInv => OneWord
  <2>1. \A w : Cardinality({w}) = 1
    BY FS_Singleton
  <2> QED BY <2>1 DEF WordInv, OneWord, StandsFor
<1> QED BY <1>1, InitWords, NextWords, PTL DEF Spec

\* Then a word is final, while the recording goes on, only after MinSupport
\* windows reported it.
THEOREM FinalWordsWereHeard ==
  ASSUME WordsApart
  PROVE  Spec => []Evidence
<1>1. WordInv => Evidence
  BY DEF WordInv, Evidence, StandsFor
<1> QED BY <1>1, InitWords, NextWords, PTL DEF Spec

(***************************************************************************)
(* Order.  Each of the three parts of a tail is in the order of the words; *)
(* that they are in order with each other takes WordsInOrder.              *)
(***************************************************************************)
OrderInv ==
    /\ WordInv /\ Ordered(committed) /\ Ordered(tail) /\ Follows(committed, tail)

\* What a window hears is speech it covers.
Hearing(hearing) ==
    \A w \in DOMAIN Speech : /\ hearing[w] \in Reports
                             /\ hearing[w].heard => w \in Covered(tick + 1)

\* The order of two reports.
LEMMA ReportsInOrder ==
  ASSUME WordsInOrder, NEW v \in DOMAIN Speech, NEW w \in DOMAIN Speech, v < w,
         NEW q \in HeardReports, NEW r \in HeardReports
  PROVE  /\ Observation(v, q, 1).end < Observation(w, r, 1).end
         /\ Observation(v, q, 1).start + StructuralDelta < Observation(w, r, 1).end
BY DEF WordsInOrder

\* Words are counted.
LEMMA WordNumbers == DOMAIN Speech \subseteq Nat
<1>1. Sequence(Speech)
  BY PrefixAssumption, IsSequence
<1> QED BY <1>1 DEF Sequence

\* The geometry is one of integers.
LEMMA Geometry ==
  ASSUME NEW k \in Nat
  PROVE  WindowStart(k) \in Int /\ StructuralDelta \in Int
<1>1. Hop \in Nat /\ Window \in Nat /\ MaxDelta \in Int /\ Delta \in Int
  BY PrefixAssumption, AlignmentAssumption
<1> QED BY <1>1 DEF WindowStart, StructuralDelta, Larger

\* A token that is carried stands for the word it stood for.
LEMMA CarriedStands ==
  ASSUME WordInv, NEW u \in Range(tail), NEW t, t = Carry(u)
  PROVE  /\ t.of = u.of /\ t.end = u.end
         /\ \E w \in DOMAIN Speech : \E r \in HeardReports :
               /\ u.of = {w} /\ u.start = Observation(w, r, 1).start
               /\ u.end = Observation(w, r, 1).end
<1>1. Shaped(u)
  BY DEF WordInv, TextInv, TailTokens, Token
<1>2. t.of = u.of /\ t.end = u.end
  BY <1>1 DEF Shaped, Carry
<1> QED BY <1>2 DEF WordInv, StandsFor, SameWord

\* Tokens that were not reported keep their order.
LEMMA InTurnOrdered ==
  ASSUME WordInv, Ordered(tail), Follows(committed, tail), NEW s, InTurn(s),
         \A t \in Range(s) : \E u \in Range(tail) : t = Carry(u)
  PROVE  Ordered(s) /\ Follows(committed, s)
<1>1. \A u \in Range(tail) : Carry(u).of = u.of
  BY CarriedStands
<1>2. \A x \in DOMAIN tail : tail[x] \in Range(tail)
  BY DEF Range
<1>3. Ordered(s)
  <2> SUFFICES ASSUME NEW i \in DOMAIN s, NEW j \in DOMAIN s, i < j
               PROVE  InOrder(s[i], s[j])
    BY DEF Ordered
  <2>1. PICK x, y \in DOMAIN tail : x < y /\ s[i] = Carry(tail[x]) /\ s[j] = Carry(tail[y])
    BY DEF InTurn
  <2>2. InOrder(tail[x], tail[y])
    BY <2>1 DEF Ordered
  <2>3. s[i].of = tail[x].of /\ s[j].of = tail[y].of
    BY <1>1, <1>2, <2>1
  <2> QED BY <2>2, <2>3 DEF InOrder
<1>4. Follows(committed, s)
  <2> SUFFICES ASSUME NEW c \in Range(committed), NEW t \in Range(s) PROVE InOrder(c, t)
    BY DEF Follows
  <2>1. PICK u \in Range(tail) : t = Carry(u)
    OBVIOUS
  <2> QED BY <1>1, <2>1 DEF Follows, InOrder
<1> QED BY <1>3, <1>4

\* What is known of a word the window reports, when it is new.
LEMMA NewObservationIs ==
  ASSUME OrderInv, NEW hearing, Hearing(hearing),
         NEW obs \in Range(TailObservations(Observations(hearing, tick + 1)))
  PROVE  /\ obs \in Range(Observations(hearing, tick + 1))
         /\ obs.of \in DOMAIN Speech /\ obs.of \in Covered(tick + 1)
         /\ hearing[obs.of] \in HeardReports
         /\ obs.norm = Observation(obs.of, hearing[obs.of], 1).norm
         /\ obs.start = Observation(obs.of, hearing[obs.of], 1).start
         /\ obs.end = Observation(obs.of, hearing[obs.of], 1).end
         /\ committed # <<>> => ~Behind(obs)
<1> DEFINE observations == Observations(hearing, tick + 1)
<1>1. /\ Sequence(observations)
      /\ \A o \in Range(observations) :
            /\ o.of \in DOMAIN Speech /\ hearing[o.of].heard
            /\ o = Observation(o.of, hearing[o.of], tick + 1)
  BY ObservationWords
<1> HIDE DEF observations
<1>2. obs \in Range(observations) /\ (committed # <<>> => ~Behind(obs))
  BY <1>1, TailObservationsAre DEF observations
<1>3. hearing[obs.of] \in HeardReports /\ obs.of \in Covered(tick + 1)
  BY <1>1, <1>2 DEF Hearing, HeardReports
<1>4. SameWord(obs, Observation(obs.of, hearing[obs.of], 1))
  BY <1>1, <1>2, ObservedAlike
<1> QED BY <1>1, <1>2, <1>3, <1>4 DEF SameWord, observations

\* A report is new only if its word is not before the committed text.
LEMMA NewFollowsCommitted ==
  ASSUME WordsInOrder, OrderInv, NEW hearing, Hearing(hearing),
         NEW obs \in Range(TailObservations(Observations(hearing, tick + 1))),
         NEW c \in Range(committed)
  PROVE  \A w \in c.of : w <= obs.of
<1>1. /\ Sequence(committed) /\ \A d \in Range(committed) : \E w \in DOMAIN Speech : StandsFor(d, w)
      /\ Ordered(committed)
  BY DEF OrderInv, WordInv, TextInv
<1>2. Len(committed) \in Nat /\ DOMAIN committed = 1 .. Len(committed)
  BY <1>1 DEF Sequence
<1>3. PICK i \in 1 .. Len(committed) : c = committed[i]
  BY <1>2 DEF Range
<1>4. PICK last : last = committed[Len(committed)]
  OBVIOUS
<1>5. last \in Range(committed) /\ (i = Len(committed) \/ i < Len(committed))
  BY <1>2, <1>3, <1>4 DEF Range
<1>6. PICK w \in DOMAIN Speech, r \in HeardReports :
        last.of = {w} /\ last.end = Observation(w, r, 1).end
  BY <1>1, <1>5 DEF StandsFor, SameWord
<1>7. \A x \in c.of : x <= w
  <2>1. CASE i = Len(committed)
    BY <1>3, <1>4, <1>6, <2>1, WordNumbers
  <2>2. CASE i < Len(committed)
    <3>1. i \in DOMAIN committed /\ Len(committed) \in DOMAIN committed
      BY <1>2, <2>2
    <3>2. InOrder(c, last)
      BY <1>1, <1>3, <1>4, <2>2, <3>1 DEF Ordered
    <3> QED BY <1>6, <3>2 DEF InOrder
  <2> QED BY <1>5, <2>1, <2>2
<1>8. w <= obs.of
  <2>1. /\ obs.of \in DOMAIN Speech /\ hearing[obs.of] \in HeardReports
        /\ obs.end = Observation(obs.of, hearing[obs.of], 1).end
        /\ ~Behind(obs)
    BY <1>2, <1>3, NewObservationIs
  <2>2. ~(obs.end <= last.end)
    BY <1>4, <2>1 DEF Behind, CommittedEnd, Last
  <2>3. obs.end \in Int /\ last.end \in Int
    BY <1>6, <2>1, ObservedAt
  <2>4. ASSUME obs.of < w PROVE FALSE
    <3>1. obs.end < last.end
      BY <1>6, <2>1, <2>4, ReportsInOrder
    <3> QED BY <2>2, <2>3, <3>1
  <2>5. obs.of \in Nat /\ w \in Nat
    BY <2>1, WordNumbers
  <2> QED BY <2>4, <2>5
<1>9. \A x \in c.of : x \in Nat
  BY <1>1, WordNumbers DEF StandsFor
<1>10. obs.of \in Nat /\ w \in Nat
  BY NewObservationIs, WordNumbers
<1> QED BY <1>7, <1>8, <1>9, <1>10

\* A token the window has left behind stands before the words of the window.
LEMMA LeftBehindIsBefore ==
  ASSUME WordsInOrder, OrderInv, NEW u \in Range(tail), NEW k \in Nat, SlidOut(u, k),
         NEW v \in DOMAIN Speech, NEW q \in HeardReports,
         Observation(v, q, 1).end > WindowStart(k)
  PROVE  \A w \in u.of : w <= v
<1>1. PICK w \in DOMAIN Speech, r \in HeardReports :
        u.of = {w} /\ u.end = Observation(w, r, 1).end
  BY CarriedStands DEF OrderInv
<1>2. /\ u.end <= WindowStart(k) /\ u.end \in Int /\ WindowStart(k) \in Int
      /\ Observation(v, q, 1).end \in Int
  BY <1>1, ObservedAt, Geometry DEF SlidOut
<1>3. ASSUME v < w PROVE FALSE
  <2>1. Observation(v, q, 1).end < u.end
    BY <1>1, <1>3, ReportsInOrder
  <2> QED BY <1>2, <2>1
<1>4. v \in Nat /\ w \in Nat
  BY WordNumbers
<1> QED BY <1>1, <1>3, <1>4

\* A token that is kept at the right edge stands behind them.
LEMMA PreservedIsBehind ==
  ASSUME WordsInOrder, OrderInv, NEW u \in Range(tail), NEW k \in Nat, NEW new,
         NEW observations, Sequence(observations), Preserved(u, observations, new, k),
         NEW obs \in Range(observations),
         \A o \in Range(observations) :
            /\ o.of \in DOMAIN Speech
            /\ \E q \in HeardReports : o.end = Observation(o.of, q, 1).end
  PROVE  \A w \in u.of : obs.of <= w
<1>1. PICK w \in DOMAIN Speech, r \in HeardReports :
        u.of = {w} /\ u.start = Observation(w, r, 1).start
  BY CarriedStands DEF OrderInv
<1>2. PICK q \in HeardReports : obs.end = Observation(obs.of, q, 1).end
  OBVIOUS
<1>3. u.start >= obs.end - StructuralDelta
  <2> DEFINE N == Len(observations)
             f == [i \in 1 .. N |-> observations[i].end]
             T == {WindowStart(k)} \cup {observations[i].end : i \in DOMAIN observations}
  <2>1. N \in Nat /\ DOMAIN observations = 1 .. N
    BY DEF Sequence
  <2> HIDE DEF N
  <2>2. f \in [1 .. N -> Int]
    <3>1. \A i \in 1 .. N : observations[i].end \in Int
      <4> TAKE i \in 1 .. N
      <4>1. observations[i] \in Range(observations)
        BY <2>1 DEF Range
      <4> QED BY <4>1, ObservedAt
    <3> QED BY <3>1
  <2>3. WindowStart(k) \in Int /\ StructuralDelta \in Int
    BY Geometry
  <2>4. T = {WindowStart(k)} \cup {f[j] : j \in 1 .. N}
    BY <2>1
  <2>5. PICK i \in 1 .. N : obs.end = f[i]
    BY <2>1 DEF Range
  <2>6. u.start >= Max(T) - StructuralDelta
    BY DEF Preserved
  <2> HIDE DEF f, T
  <2>7. Max(T) \in Int /\ \A j \in 1 .. N : f[j] <= Max(T)
    BY <2>1, <2>2, <2>3, <2>4, GreatestOf
  <2>8. f[i] \in Int /\ u.start \in Int
    BY <1>1, <2>2, ObservedAt
  <2> QED BY <2>3, <2>5, <2>6, <2>7, <2>8
<1>4. ASSUME w < obs.of PROVE FALSE
  <2>1. u.start + StructuralDelta < obs.end
    BY <1>1, <1>2, <1>4, ReportsInOrder
  <2>2. u.start \in Int /\ obs.end \in Int /\ StructuralDelta \in Int
    BY <1>1, <1>2, ObservedAt, Geometry
  <2> QED BY <1>3, <2>1, <2>2
<1>5. obs.of \in Nat /\ w \in Nat
  BY WordNumbers
<1> QED BY <1>1, <1>4, <1>5

\* The tail after a window is in order, and behind the committed text.
LEMMA NewTailOrdered ==
  ASSUME WordsApart, WordsInOrder, OrderInv,
         NEW hearing, Hearing(hearing), Ingest(hearing)
  PROVE  LET next == NewTail(Observations(hearing, tick + 1), tick + 1)
         IN  Ordered(next) /\ Follows(committed, next)
<1> DEFINE k            == tick + 1
           observations == Observations(hearing, k)
           new          == TailObservations(observations)
           before       == CarriedForward(k)
<1>1. /\ WordInv /\ Ordered(tail) /\ Follows(committed, tail)
      /\ Sequence(tail) /\ Sequence(committed) /\ k \in Nat
  BY DEF OrderInv, WordInv, TextInv, TailTokens
<1>2. /\ Sequence(observations)
      /\ \A o \in Range(observations) :
            /\ o.of \in DOMAIN Speech
            /\ \E q \in HeardReports : o.end = Observation(o.of, q, 1).end
  <2>1. /\ Sequence(observations)
        /\ \A o \in Range(observations) :
              /\ o.of \in DOMAIN Speech /\ hearing[o.of].heard
              /\ o = Observation(o.of, hearing[o.of], k)
    BY ObservationWords
  <2> HIDE DEF observations
  <2>2. \A o \in Range(observations) :
            /\ hearing[o.of] \in HeardReports
            /\ o.end = Observation(o.of, hearing[o.of], 1).end
    BY <2>1, ObservedAlike DEF Hearing, HeardReports, SameWord
  <2> QED BY <2>1, <2>2
<1>3. Sequence(new) /\ Ascending(new)
  BY <1>2, ObservationsAscend, TailObservationsAre
<1>4. \A o \in Range(new) :
        /\ o \in Range(observations) /\ o.of \in DOMAIN Speech
        /\ hearing[o.of] \in HeardReports
        /\ Observation(o.of, hearing[o.of], 1).end > WindowStart(k)
        /\ \A c \in Range(committed) : \A w \in c.of : w <= o.of
  <2> TAKE o \in Range(new)
  <2>1. /\ o \in Range(observations) /\ o.of \in DOMAIN Speech
        /\ hearing[o.of] \in HeardReports /\ o.of \in Covered(k)
    BY NewObservationIs
  <2>2. \A c \in Range(committed) : \A w \in c.of : w <= o.of
    BY NewFollowsCommitted
  <2>3. Observation(o.of, hearing[o.of], 1).end > WindowStart(k)
    <3>1. /\ Speech[o.of].start >= WindowStart(k)
          /\ Speech[o.of].start < Observation(o.of, hearing[o.of], 1).end
      BY <2>1 DEF Covered, WordsInOrder
    <3>2. /\ Observation(o.of, hearing[o.of], 1).end \in Int /\ WindowStart(k) \in Int
          /\ Speech[o.of].start \in Int
      BY <1>1, <2>1, ObservedAt, Geometry
    <3> QED BY <3>1, <3>2
  <2> QED BY <2>1, <2>2, <2>3
<1>5. /\ Sequence(before) /\ InTurn(before)
      /\ \A t \in Range(before) : \E u \in Range(tail) : t = Carry(u) /\ SlidOut(u, k)
  BY <1>1, CarriedParts
<1>6. PICK f, g :
        /\ NewTail(observations, k) = before \o f \o g
        /\ Sequence(f) /\ DOMAIN f = DOMAIN new /\ \A j \in DOMAIN f : Reported(f[j], new[j])
        /\ Sequence(g) /\ InTurn(g)
        /\ \A t \in Range(g) : \E u \in Range(tail) :
              t = Carry(u) /\ ~SlidOut(u, k) /\ Preserved(u, observations, new, k)
  BY <1>1, <1>2, NewTailParts
<1>7. \A t \in Range(NewTail(observations, k)) : \E w \in DOMAIN Speech : StandsFor(t, w)
  BY <1>1, NewTailStands DEF Hearing
<1> HIDE DEF observations, new, before, k
<1>8. /\ Sequence(before \o f) /\ Range(before \o f) = Range(before) \cup Range(f)
      /\ Range(before \o f \o g) = Range(before) \cup Range(f) \cup Range(g)
  BY <1>5, <1>6, JoinElements
<1>9. \A j \in DOMAIN f : f[j].of = {new[j].of} /\ new[j] \in Range(new)
  <2> TAKE j \in DOMAIN f
  <2>1. new[j].of \in f[j].of
    BY <1>6 DEF Reported, Merge, NewToken
  <2>2. f[j] \in Range(f) /\ new[j] \in Range(new)
    BY <1>6 DEF Range
  <2>3. \E w : f[j].of = {w}
    BY <1>6, <1>7, <1>8, <2>2 DEF StandsFor
  <2> QED BY <2>1, <2>2, <2>3
<1>10. Ordered(before) /\ Ordered(g) /\ Follows(committed, before) /\ Follows(committed, g)
  BY <1>1, <1>5, <1>6, InTurnOrdered
<1>11. Ordered(f)
  <2> SUFFICES ASSUME NEW i \in DOMAIN f, NEW j \in DOMAIN f, i < j
               PROVE  InOrder(f[i], f[j])
    BY DEF Ordered
  <2>1. new[i].of < new[j].of
    BY <1>3, <1>6 DEF Ascending
  <2>2. new[i].of \in Nat /\ new[j].of \in Nat
    BY <1>4, <1>9, WordNumbers
  <2>3. new[i].of <= new[j].of
    BY <2>1, <2>2
  <2> QED BY <1>9, <2>3 DEF InOrder
<1>12. Follows(committed, f)
  BY <1>4, <1>9 DEF Follows, InOrder, Range
<1>13. Follows(before, f)
  <2> SUFFICES ASSUME NEW t \in Range(before), NEW j \in DOMAIN f PROVE InOrder(t, f[j])
    BY DEF Follows, Range
  <2>1. PICK u \in Range(tail) : t = Carry(u) /\ SlidOut(u, k)
    BY <1>5
  <2>2. t.of = u.of
    BY <1>1, <2>1, CarriedStands
  <2>3. \A w \in u.of : w <= new[j].of
    BY <1>1, <1>4, <1>9, <2>1, LeftBehindIsBefore
  <2> QED BY <1>9, <2>2, <2>3 DEF InOrder
<1>14. Follows(before, g)
  <2> SUFFICES ASSUME NEW t \in Range(before), NEW s \in Range(g) PROVE InOrder(t, s)
    BY DEF Follows
  <2>1. PICK u \in Range(tail) : t = Carry(u) /\ SlidOut(u, k)
    BY <1>5
  <2>2. PICK x \in Range(tail) : s = Carry(x) /\ ~SlidOut(x, k)
    BY <1>6
  <2>3. PICK v \in DOMAIN Speech, q \in HeardReports :
          x.of = {v} /\ x.end = Observation(v, q, 1).end
    BY <1>1, CarriedStands
  <2>4. Observation(v, q, 1).end > WindowStart(k)
    <3>1. x.end \in Int /\ WindowStart(k) \in Int
      BY <1>1, <2>3, ObservedAt, Geometry
    <3> QED BY <2>2, <2>3, <3>1 DEF SlidOut
  <2>5. \A w \in u.of : w <= v
    BY <1>1, <2>1, <2>4, LeftBehindIsBefore
  <2>6. t.of = u.of /\ s.of = x.of
    BY <1>1, <2>1, <2>2, CarriedStands
  <2> QED BY <2>3, <2>5, <2>6 DEF InOrder
<1>15. Follows(f, g)
  <2> SUFFICES ASSUME NEW j \in DOMAIN f, NEW s \in Range(g) PROVE InOrder(f[j], s)
    BY DEF Follows, Range
  <2>1. PICK x \in Range(tail) : s = Carry(x) /\ Preserved(x, observations, new, k)
    BY <1>6
  <2>2. \A w \in x.of : new[j].of <= w
    BY <1>1, <1>2, <1>4, <1>9, <2>1, PreservedIsBehind
  <2>3. s.of = x.of
    BY <1>1, <2>1, CarriedStands
  <2> QED BY <1>9, <2>2, <2>3 DEF InOrder
<1>16. Ordered(before \o f)
  BY <1>5, <1>6, <1>10, <1>11, <1>13, OrderedJoin
<1>17. Follows(before \o f, g)
  BY <1>8, <1>14, <1>15 DEF Follows
<1>18. Ordered(before \o f \o g)
  BY <1>6, <1>8, <1>10, <1>16, <1>17, OrderedJoin
<1>19. Follows(committed, before \o f \o g)
  BY <1>8, <1>10, <1>12 DEF Follows
<1> QED BY <1>6, <1>18, <1>19 DEF k, observations

\* The committed text stays in order when ready tokens are added to it.
LEMMA EmitOrder ==
  ASSUME Sequence(committed), Ordered(committed),
         NEW ready, Sequence(ready), Ordered(ready), Follows(committed, ready),
         NEW rest, Follows(committed, rest), Follows(ready, rest),
         Emit(committed \o Render(ready), rest)
  PROVE  Ordered(committed') /\ Follows(committed', rest)
<1> DEFINE more == Render(ready)
<1>1. Sequence(more) /\ DOMAIN more = DOMAIN ready
  BY MapElements DEF Render
<1>2. \A i \in DOMAIN ready : more[i].of = ready[i].of
  BY DEF Render
<1> HIDE DEF more
<1>3. Ordered(more)
  BY <1>1, <1>2, OrderedAlike
<1>4. \A t \in Range(more) : \E u \in Range(ready) : t.of = u.of
  BY <1>1, <1>2 DEF Range
<1>5. Follows(committed, more) /\ Follows(more, rest)
  BY <1>4 DEF Follows, InOrder
<1>6. Ordered(committed \o more) /\ Range(committed \o more) = Range(committed) \cup Range(more)
  BY <1>1, <1>3, <1>5, OrderedJoin, JoinElements
<1>7. committed' = committed \o more
  BY DEF Emit, more
<1> QED BY <1>5, <1>6, <1>7 DEF Follows

\* An aggregator without a text satisfies the invariant.
LEMMA InitOrder == Init => OrderInv
<1> SUFFICES ASSUME Init PROVE OrderInv
  OBVIOUS
<1>1. WordInv
  BY InitWords
<1>2. DOMAIN tail = {} /\ DOMAIN committed = {}
  BY DEF Init
<1> QED BY <1>1, <1>2 DEF OrderInv, Ordered, Follows, Range

\* A window keeps it.
LEMMA IngestOrder ==
  ASSUME WordsApart, WordsInOrder, OrderInv,
         NEW hearing, Hearing(hearing), Ingest(hearing)
  PROVE  OrderInv'
<1> DEFINE next == NewTail(Observations(hearing, tick + 1), tick + 1)
<1>1. /\ WordInv /\ TextInv /\ Sequence(committed)
      /\ Ordered(committed) /\ Follows(committed, tail)
  BY DEF OrderInv, WordInv, TextInv
<1>2. WordInv'
  BY <1>1, IngestWords DEF Hearing
<1>3. Ordered(next) /\ Follows(committed, next)
  BY NewTailOrdered
<1>4. PICK ready, rest :
        /\ Sequence(ready) /\ Range(ready) \subseteq Range(next)
        /\ Sequence(rest) /\ Range(rest) \subseteq Range(next)
        /\ Picks(ready, next, DOMAIN next) /\ Picks(rest, next, DOMAIN next)
        /\ InFront(ready, rest, next)
        /\ Emit(committed \o Render(ready), rest)
  BY <1>1, IngestParts
<1> HIDE DEF next
<1>5. Follows(committed, ready) /\ Follows(committed, rest)
  BY <1>3, <1>4 DEF Follows
<1>6. Ordered(ready) /\ Ordered(rest) /\ Follows(ready, rest)
  BY <1>3, <1>4 DEF Ordered, Picks, InFront, Follows
<1>7. Ordered(committed') /\ Follows(committed', rest)
  BY <1>1, <1>4, <1>5, <1>6, EmitOrder
<1>8. tail' = rest
  BY <1>4 DEF Emit
<1>9. Ordered(tail)' /\ Follows(committed, tail)'
  BY <1>6, <1>7, <1>8 DEF Ordered, Follows, InOrder
<1> QED BY <1>2, <1>7, <1>9 DEF OrderInv, Ordered, InOrder

\* The end of the recording keeps it.
LEMMA FlushOrder ==
  ASSUME OrderInv, Flush
  PROVE  OrderInv'
<1> DEFINE I     == {i \in DOMAIN tail : Flushable(tail[i])}
           ready == Among(tail, I)
<1>1. /\ WordInv /\ Sequence(tail) /\ Sequence(committed)
      /\ Ordered(committed) /\ Ordered(tail) /\ Follows(committed, tail)
  BY DEF OrderInv, WordInv, TextInv, TailTokens
<1>2. WordInv' /\ tail' = <<>>
  BY <1>1, FlushWords, FlushText DEF WordInv
<1>3. Emit(committed \o Render(ready), <<>>)
  BY DEF Flush, Kept
<1>4. /\ Sequence(ready) /\ Range(ready) \subseteq {tail[i] : i \in I}
      /\ Picks(ready, tail, I) /\ I \subseteq DOMAIN tail
  BY <1>1, KeptElements, KeptInOrder
<1> HIDE DEF ready, I
<1>5. Ordered(ready)
  BY <1>1, <1>4 DEF Picks, Ordered
<1>6. Follows(committed, ready)
  BY <1>1, <1>4 DEF Follows, Range
<1>7. Range(<<>>) = {}
  BY DEF Range
<1>8. Ordered(committed')
  BY <1>1, <1>3, <1>4, <1>5, <1>6, <1>7, EmitOrder DEF Follows
<1>9. DOMAIN tail' = {} /\ Range(tail') = {}
  BY <1>2 DEF Range
<1> QED BY <1>2, <1>8, <1>9 DEF OrderInv, Ordered, Follows, InOrder

\* Every step keeps it.
LEMMA NextOrder ==
  ASSUME WordsApart, WordsInOrder
  PROVE  OrderInv /\ [Next]_vars => OrderInv'
<1> SUFFICES ASSUME OrderInv, [Next]_vars PROVE OrderInv'
  OBVIOUS
<1>1. CASE Hear
  <2>1. PICK heard \in [Covered(tick + 1) -> Reports] :
          Ingest([w \in DOMAIN Speech |-> IF w \in DOMAIN heard THEN heard[w] ELSE Missed])
    BY <1>1 DEF Hear
  <2> DEFINE hearing == [w \in DOMAIN Speech |->
                           IF w \in DOMAIN heard THEN heard[w] ELSE Missed]
  <2>2. Hearing(hearing)
    BY PrefixAssumption DEF Hearing
  <2>3. Ingest(hearing)
    BY <2>1
  <2> HIDE DEF hearing
  <2> QED BY <2>2, <2>3, IngestOrder
<1>2. CASE Flush
  BY <1>2, FlushOrder
<1>3. CASE UNCHANGED vars
  <2>1. WordInv'
    BY <1>3, NextWords DEF OrderInv
  <2>2. committed' = committed /\ tail' = tail
    BY <1>3 DEF vars
  <2> QED BY <2>1, <2>2 DEF OrderInv, Ordered, Follows, InOrder
<1> QED BY <1>1, <1>2, <1>3 DEF Next

\* The final text has the words in the order they were spoken in, if no two
\* can be taken for each other and their reports end in their order.
THEOREM TextIsInOrder ==
  ASSUME WordsApart, WordsInOrder
  PROVE  Spec => []SpokenOrder
<1>1. OrderInv => SpokenOrder
  BY DEF OrderInv, SpokenOrder, Ordered, InOrder
<1> QED BY <1>1, InitOrder, NextOrder, PTL DEF Spec

(***************************************************************************)
(* Nothing is lost.  A word the last window reported has a token that was  *)
(* seen by that window, which Flush commits, or the committed text has     *)
(* reached it.                                                             *)
(***************************************************************************)
Fresh(w)   == \E t \in Range(tail) : w \in t.of /\ t.seen = tick - 1
Reached(w) == \E c \in Range(committed) : \E v \in c.of : v >= w

LostInv ==
    /\ OrderInv /\ latest \subseteq DOMAIN Speech
    /\ \A w \in latest : Fresh(w) \/ Reached(w)

\* A window observes what it hears.
LEMMA HeardIsObserved ==
  ASSUME NEW hearing, NEW k, NEW w \in DOMAIN Speech, hearing[w].heard
  PROVE  \E obs \in Range(Observations(hearing, k)) : obs.of = w
<1> DEFINE s == [x \in DOMAIN Speech |-> Observation(x, hearing[x], k)]
           I == {i \in DOMAIN s : hearing[s[i].of].heard}
<1>1. Sequence(s)
  BY PrefixAssumption, IsSequence, MapElements
<1>2. s[w].of = w /\ w \in I /\ I \subseteq DOMAIN s
  <2>1. Observation(w, hearing[w], k).of = w
    BY DEF Observation
  <2> QED BY <2>1
<1>3. Observations(hearing, k) = Among(s, I)
  BY DEF Observations, Kept
<1> HIDE DEF s, I
<1> QED BY <1>1, <1>2, <1>3, KeptAll

\* A new report has a token in the tail that this window has seen.
LEMMA NewIsInTail ==
  ASSUME Sequence(tail), NEW k, NEW observations, Sequence(observations),
         NEW obs \in Range(TailObservations(observations))
  PROVE  \E t \in Range(NewTail(observations, k)) : obs.of \in t.of /\ t.seen = tick
<1> DEFINE new == TailObservations(observations)
           c   == CarriedForward(k)
<1>1. Sequence(c)
  BY CarriedParts
<1>2. PICK f, g :
        /\ NewTail(observations, k) = c \o f \o g
        /\ Sequence(f) /\ DOMAIN f = DOMAIN new /\ \A j \in DOMAIN f : Reported(f[j], new[j])
        /\ Sequence(g)
  BY NewTailParts
<1>3. PICK j \in DOMAIN new : obs = new[j]
  BY DEF Range
<1> HIDE DEF c, new
<1>4. obs.of \in f[j].of /\ f[j].seen = tick
  <2>1. \A u : /\ obs.of \in Merge(u, obs).of /\ Merge(u, obs).seen = tick
               /\ obs.of \in NewToken(obs).of /\ NewToken(obs).seen = tick
    BY DEF Merge, NewToken
  <2> QED BY <1>2, <1>3, <2>1 DEF Reported
<1>5. Sequence(c \o f) /\ Range(c \o f) = Range(c) \cup Range(f)
  BY <1>1, <1>2, JoinElements
<1>6. Range(c \o f \o g) = Range(c) \cup Range(f) \cup Range(g)
  BY <1>2, <1>5, JoinElements
<1>7. f[j] \in Range(f)
  BY <1>2, <1>3 DEF Range
<1> QED BY <1>2, <1>4, <1>6, <1>7

\* A report that ends no later than a text is of a word the text has reached.
LEMMA NotPastIsReached ==
  ASSUME WordsInOrder, NEW text, Sequence(text), text # <<>>,
         \A c \in Range(text) : \E v \in DOMAIN Speech : StandsFor(c, v),
         NEW w \in DOMAIN Speech, NEW r \in HeardReports,
         ~(Observation(w, r, 1).end > Last(text).end)
  PROVE  \E c \in Range(text) : \E v \in c.of : v >= w
<1>1. Last(text) \in Range(text)
  <2>1. Len(text) \in Nat /\ DOMAIN text = 1 .. Len(text) /\ Len(text) # 0
    BY DEF Sequence
  <2> QED BY <2>1 DEF Last, Range
<1>2. PICK v \in DOMAIN Speech, q \in HeardReports :
        Last(text).of = {v} /\ Last(text).end = Observation(v, q, 1).end
  BY <1>1 DEF StandsFor, SameWord
<1>3. ASSUME v < w PROVE FALSE
  <2>1. Last(text).end < Observation(w, r, 1).end
    BY <1>2, <1>3, ReportsInOrder
  <2>2. Last(text).end \in Int /\ Observation(w, r, 1).end \in Int
    BY <1>2, ObservedAt
  <2> QED BY <2>1, <2>2
<1>4. v \in Nat /\ w \in Nat
  BY WordNumbers
<1> QED BY <1>1, <1>2, <1>3, <1>4

\* A report that is dropped is of a word the committed text has reached.
LEMMA DroppedIsReached ==
  ASSUME WordsApart, WordsInOrder, WordsDisjoint, WordInv,
         NEW hearing, \A w \in DOMAIN Speech : hearing[w] \in Reports,
         NEW obs \in Range(Observations(hearing, tick + 1)),
         obs \notin Range(TailObservations(Observations(hearing, tick + 1)))
  PROVE  Reached(obs.of)
<1> DEFINE w == obs.of
           r == hearing[obs.of]
           b == Observation(w, r, 1)
<1>1. w \in DOMAIN Speech /\ r \in HeardReports /\ SameWord(obs, b)
  BY ObservationWords, ObservedAlike DEF HeardReports
<1>2. /\ committed # <<>>
      /\ Behind(obs) \/ \E c \in Range(committed) : Similar(c, obs) \/ Absorbs(c, obs)
  <2>1. Sequence(committed)
    BY DEF WordInv, TextInv
  <2>2. Sequence(Observations(hearing, tick + 1))
    BY ObservationWords
  <2> QED BY <2>1, <2>2, DroppedIsCommitted
<1> HIDE DEF w, r
<1>3. b.start \in Int /\ b.end \in Int /\ obs.end = b.end /\ obs.start = b.start
  BY <1>1, ObservedAt DEF SameWord
<1>4. CASE Behind(obs)
  <2>1. Sequence(committed)
    BY DEF WordInv, TextInv
  <2>2. Last(committed).end \in Int
    <3>1. Len(committed) \in Nat /\ DOMAIN committed = 1 .. Len(committed) /\ Len(committed) # 0
      BY <1>2, <2>1 DEF Sequence
    <3>2. Last(committed) \in Range(committed)
      BY <3>1 DEF Last, Range
    <3>3. \E v \in DOMAIN Speech : \E q \in HeardReports :
            Last(committed).end = Observation(v, q, 1).end
      BY <3>2 DEF WordInv, StandsFor, SameWord
    <3> QED BY <3>3, ObservedAt
  <2>3. ~(b.end > Last(committed).end)
    BY <1>3, <1>4, <2>2 DEF Behind, CommittedEnd
  <2>4. \A c \in Range(committed) : \E v \in DOMAIN Speech : StandsFor(c, v)
    BY DEF WordInv
  <2> HIDE DEF b
  <2>5. \E c \in Range(committed) : \E v \in c.of : v >= w
    BY <1>1, <1>2, <2>1, <2>3, <2>4, NotPastIsReached DEF b
  <2> QED BY <2>5 DEF Reached, w
<1>5. CASE \E c \in Range(committed) : Similar(c, obs) \/ Absorbs(c, obs)
  <2>1. PICK c \in Range(committed) : Similar(c, obs) \/ Absorbs(c, obs)
    BY <1>5
  <2>2. PICK v \in DOMAIN Speech, q \in HeardReports :
          c.of = {v} /\ SameWord(c, Observation(v, q, 1))
    BY DEF WordInv, StandsFor
  <2> DEFINE a == Observation(v, q, 1)
  <2>3. v \in Nat /\ w \in Nat
    BY <1>1, WordNumbers
  <2>4. v >= w
    <3>1. CASE Similar(c, obs)
      <4>1. v = w
        BY <1>1, <2>2, <3>1, SimilarIsSame
      <4> QED BY <2>3, <4>1
    <3>2. CASE Absorbs(c, obs)
      <4>1. /\ a.start \in Int /\ a.end \in Int /\ c.start = a.start /\ c.end = a.end
            /\ c.norm = a.norm /\ obs.norm = b.norm
        BY <1>1, <2>2, ObservedAt DEF SameWord
      <4> HIDE DEF a, b
      <4>2. a.norm = b.norm /\ Smaller(a.end, b.end) - Larger(a.start, b.start) > 0
        BY <1>3, <3>2, <4>1 DEF Absorbs
      <4>3. ~(a.end <= b.start)
        BY <1>3, <4>1, <4>2 DEF Smaller, Larger
      <4>4. v < w => a.end <= b.start
        BY <1>1, <4>2 DEF WordsDisjoint, a, b
      <4> QED BY <2>3, <4>3, <4>4
    <3> QED BY <2>1, <3>1, <3>2
  <2> QED BY <2>2, <2>4 DEF Reached, w
<1> QED BY <1>2, <1>4, <1>5

\* An aggregator that has heard nothing satisfies the invariant.
LEMMA InitLost == Init => LostInv
BY InitOrder DEF Init, LostInv

\* A window keeps it.
LEMMA IngestLost ==
  ASSUME WordsApart, WordsInOrder, WordsDisjoint, OrderInv,
         NEW hearing, Hearing(hearing), Ingest(hearing)
  PROVE  LostInv'
<1> DEFINE observations == Observations(hearing, tick + 1)
           next == NewTail(observations, tick + 1)
<1>1. /\ WordInv /\ TextInv /\ Sequence(committed) /\ Sequence(tail) /\ tick \in Nat
      /\ \A w \in DOMAIN Speech : hearing[w] \in Reports
  BY DEF OrderInv, WordInv, TextInv, TailTokens, Hearing
<1>2. OrderInv' /\ WordInv'
  BY IngestOrder, <1>1, IngestWords
<1>3. latest' = {w \in DOMAIN Speech : hearing[w].heard} /\ tick' = tick + 1
  BY DEF Ingest
<1>4. \A t \in Range(next) : \E w \in DOMAIN Speech : StandsFor(t, w)
  BY <1>1, NewTailStands
<1>5. PICK ready, rest :
        /\ Sequence(ready)
        /\ \A t \in Range(next) : \/ t \in Range(ready)
                                  \/ t \in Range(rest)
                                  \/ (committed' # <<>> /\ ~(t.end > Last(committed').end))
        /\ Emit(committed \o Render(ready), rest)
  BY <1>1, IngestParts
<1>6. Sequence(observations)
  BY ObservationWords
<1>7. \A obs \in Range(TailObservations(observations)) :
        \E t \in Range(next) : obs.of \in t.of /\ t.seen = tick
  BY <1>1, <1>6, NewIsInTail
<1> HIDE DEF next
<1>8. /\ tail' = rest /\ Range(committed) \subseteq Range(committed')
      /\ \A t \in Range(ready) : \E c \in Range(committed') : c.of = t.of
  BY <1>1, <1>5, EmitTokens
<1>9. ASSUME NEW w \in DOMAIN Speech, hearing[w].heard
      PROVE  Fresh(w)' \/ Reached(w)'
  <2>1. PICK obs \in Range(observations) : obs.of = w
    BY <1>9, HeardIsObserved
  <2>2. CASE obs \in Range(TailObservations(observations))
    <3>1. PICK t \in Range(next) : w \in t.of /\ t.seen = tick
      BY <1>7, <2>1, <2>2
    <3>2. CASE t \in Range(ready)
      <4>1. w \in Nat /\ w >= w
        BY WordNumbers
      <4> QED BY <1>8, <3>1, <3>2, <4>1 DEF Reached
    <3>3. CASE t \in Range(rest)
      <4>1. tick' - 1 = tick
        BY <1>1, <1>3
      <4> QED BY <1>8, <3>1, <3>3, <4>1 DEF Fresh
    <3>4. CASE committed' # <<>> /\ ~(t.end > Last(committed').end)
      <4>1. PICK r \in HeardReports : t.end = Observation(w, r, 1).end
        BY <1>4, <3>1 DEF StandsFor, SameWord
      <4>2. /\ Sequence(committed')
            /\ \A c \in Range(committed') : \E v \in DOMAIN Speech : StandsFor(c, v)
        BY <1>2 DEF WordInv, TextInv, StandsFor, Sequence
      <4>3. \E c \in Range(committed') : \E v \in c.of : v >= w
        BY <3>4, <4>1, <4>2, NotPastIsReached
      <4> QED BY <4>3 DEF Reached
    <3> QED BY <1>5, <3>1, <3>2, <3>3, <3>4
  <2>3. CASE obs \notin Range(TailObservations(observations))
    <3>1. Reached(w)
      BY <1>1, <2>1, <2>3, DroppedIsReached
    <3> QED BY <1>8, <3>1 DEF Reached
  <2> QED BY <2>2, <2>3
<1>10. latest' \subseteq DOMAIN Speech /\ \A w \in latest' : Fresh(w)' \/ Reached(w)'
  BY <1>3, <1>9
<1> QED BY <1>2, <1>10 DEF LostInv, Fresh, Reached

\* The end of the recording keeps what the last window has seen.
LEMMA FlushLost ==
  ASSUME LostInv, Flush
  PROVE  LostInv'
<1> DEFINE I     == {i \in DOMAIN tail : Flushable(tail[i])}
           ready == Among(tail, I)
<1>1. OrderInv' /\ Sequence(tail) /\ Sequence(committed)
  BY FlushOrder DEF LostInv, OrderInv, WordInv, TextInv, TailTokens
<1>2. latest' = latest /\ Emit(committed \o Render(ready), <<>>)
  BY DEF Flush, Kept
<1>3. Sequence(ready)
  BY <1>1, KeptElements
<1>4. \A t \in Range(tail) : t.seen = tick - 1 => t \in Range(ready)
  <2> SUFFICES ASSUME NEW i \in DOMAIN tail, tail[i].seen = tick - 1
               PROVE  tail[i] \in Range(ready)
    BY DEF Range
  <2>1. i \in I /\ I \subseteq DOMAIN tail
    BY DEF Flushable
  <2> HIDE DEF I
  <2> QED BY <1>1, <2>1, KeptAll
<1> HIDE DEF ready
<1>5. /\ Range(committed) \subseteq Range(committed')
      /\ \A t \in Range(ready) : \E c \in Range(committed') : c.of = t.of
  BY <1>1, <1>2, <1>3, EmitTokens
<1>6. \A w \in latest : Reached(w)'
  <2> TAKE w \in latest
  <2>1. CASE Reached(w)
    BY <1>5, <2>1 DEF Reached
  <2>2. CASE Fresh(w)
    <3>1. PICK t \in Range(tail) : w \in t.of /\ t.seen = tick - 1
      BY <2>2 DEF Fresh
    <3>2. PICK c \in Range(committed') : w \in c.of
      BY <1>4, <1>5, <3>1
    <3>3. w >= w
      BY WordNumbers DEF LostInv
    <3> QED BY <3>2, <3>3 DEF Reached
  <2> QED BY <2>1, <2>2 DEF LostInv
<1> QED BY <1>1, <1>2, <1>6 DEF LostInv, Fresh, Reached

\* Every step keeps it.
LEMMA NextLost ==
  ASSUME WordsApart, WordsInOrder, WordsDisjoint
  PROVE  LostInv /\ [Next]_vars => LostInv'
<1> SUFFICES ASSUME LostInv, [Next]_vars PROVE LostInv'
  OBVIOUS
<1>1. CASE Hear
  <2>1. PICK heard \in [Covered(tick + 1) -> Reports] :
          Ingest([w \in DOMAIN Speech |-> IF w \in DOMAIN heard THEN heard[w] ELSE Missed])
    BY <1>1 DEF Hear
  <2> DEFINE hearing == [w \in DOMAIN Speech |->
                           IF w \in DOMAIN heard THEN heard[w] ELSE Missed]
  <2>2. Hearing(hearing)
    BY PrefixAssumption DEF Hearing
  <2>3. Ingest(hearing)
    BY <2>1
  <2> HIDE DEF hearing
  <2> QED BY <2>2, <2>3, IngestLost DEF LostInv
<1>2. CASE Flush
  BY <1>2, FlushLost
<1>3. CASE UNCHANGED vars
  <2>1. OrderInv'
    BY <1>3, NextOrder DEF LostInv
  <2> QED BY <1>3, <2>1 DEF vars, LostInv, Fresh, Reached
<1> QED BY <1>1, <1>2, <1>3 DEF Next

\* What the last window reported is in the text, unless a later word is final,
\* if moreover no two reports with the same text overlap.
THEOREM NothingHeardIsLost ==
  ASSUME WordsApart, WordsInOrder, WordsDisjoint
  PROVE  Spec => []NothingLost
<1>1. LostInv => NothingLost
  <2> SUFFICES ASSUME LostInv, NEW w \in latest
               PROVE  \/ \E t \in Range(committed) \cup Range(tail) : w \in t.of
                      \/ \E t \in Range(committed) : \E v \in t.of : v > w
    BY DEF NothingLost
  <2>1. CASE Fresh(w)
    BY <2>1 DEF Fresh
  <2>2. CASE Reached(w)
    <3>1. PICK c \in Range(committed) : \E v \in c.of : v >= w
      BY <2>2 DEF Reached
    <3>2. PICK v \in DOMAIN Speech : c.of = {v}
      BY DEF LostInv, OrderInv, WordInv, StandsFor
    <3>3. v \in Nat /\ w \in Nat /\ v >= w
      BY <3>1, <3>2, WordNumbers DEF LostInv
    <3>4. v = w \/ v > w
      BY <3>3
    <3> QED BY <3>2, <3>4
  <2> QED BY <2>1, <2>2 DEF LostInv
<1> QED BY <1>1, InitLost, NextLost, PTL DEF Spec

(***************************************************************************)
(* No repetition.  If all reports of a word overlap, a new report of a     *)
(* word is merged into the token of the tail that has its text, for the    *)
(* alignment pairs all it can, and is dropped if a committed token has it. *)
(***************************************************************************)
SameToken(t, u) == t.of = u.of /\ t.norm = u.norm

Distinct(s) == \A i, j \in DOMAIN s : i < j => ~SameToken(s[i], s[j])
Apart(s, t) == \A a \in Range(s), b \in Range(t) : ~SameToken(a, b)

OnceInv ==
    /\ OrderInv
    /\ Distinct(committed) /\ Distinct(tail) /\ Apart(committed, tail)

\* Two sequences without repetition.
LEMMA DistinctJoin ==
  ASSUME NEW s, Sequence(s), NEW t, Sequence(t), Distinct(s), Distinct(t), Apart(s, t)
  PROVE  Distinct(s \o t)
<1> SUFFICES ASSUME NEW i \in DOMAIN (s \o t), NEW j \in DOMAIN (s \o t), i < j
             PROVE  ~SameToken((s \o t)[i], (s \o t)[j])
  BY DEF Distinct
<1> QED BY JoinInTurn DEF Distinct, Apart

\* The score of a report is a number.
LEMMA ObservationScore ==
  ASSUME NEW w \in DOMAIN Speech, NEW r \in HeardReports, NEW k \in Nat
  PROVE  Observation(w, r, k).score \in Nat
<1> DEFINE word == [start |-> Speech[w].start + r.shift, end |-> Speech[w].end + r.shift]
           safe == SafeDistance(word, k)
           n    == Larger(Smaller(safe, 2 * Edge), 0)
<1>1. Observation(w, r, k).score = n * r.quality
  BY DEF Observation
<1>2. word.start \in Int /\ word.end \in Int
  <2>1. /\ Observation(w, r, k).start = Speech[w].start + r.shift
        /\ Observation(w, r, k).end = Speech[w].end + r.shift
    BY DEF Observation
  <2> QED BY <2>1, ObservedAt
<1>3. Edge \in Nat /\ r.quality \in Nat /\ WindowEnd(k) \in Int /\ WindowStart(k) \in Int
  <2>1. Edge \in Nat /\ r.quality \in Nat /\ Hop \in Nat
    BY PrefixAssumption DEF HeardReports
  <2> QED BY <2>1, Geometry DEF WindowEnd
<1> HIDE DEF word
<1>4. safe \in Int
  BY <1>2, <1>3 DEF SafeDistance, Center, Smaller
<1> HIDE DEF safe
<1>5. n \in Nat
  BY <1>3, <1>4 DEF Larger, Smaller
<1> HIDE DEF n
<1> QED BY <1>1, <1>3, <1>5

\* Any two reports of a word.
LEMMA ReportsOverlap ==
  ASSUME WordsSteady, NEW w \in DOMAIN Speech,
         NEW q \in HeardReports, NEW r \in HeardReports
  PROVE  LET a == Observation(w, q, 1)
             b == Observation(w, r, 1)
             overlap == Smaller(a.end, b.end) - Larger(a.start, b.start)
             shorter == Smaller(a.end - a.start, b.end - b.start)
         IN  /\ Distance(Center(a), Center(b)) <= 2 * Delta
             /\ 10 * overlap >= 12 /\ 2 * overlap >= shorter
             /\ b.end - a.end < AnchorSpan
             /\ 4 * (b.end - a.end) < 3 * (b.end - b.start)
             /\ a.start < b.end
<1> DEFINE a == Observation(w, q, 1)
           b == Observation(w, r, 1)
<1>1. /\ 10 * (Smaller(a.end, b.end) - Larger(a.start, b.start)) >= 12
      /\ a.start \in Int /\ a.end \in Int /\ b.start \in Int /\ b.end \in Int
  BY ObservedAt DEF WordsSteady
<1> HIDE DEF a, b
<1>2. a.start < b.end
  BY <1>1 DEF Smaller, Larger
<1> QED BY <1>2 DEF a, b, WordsSteady

\* An absorbed report that hardly reaches past the committed text is dropped.
LEMMA AbsorbedIsDropped ==
  ASSUME NEW observations, Sequence(observations), Sequence(committed), committed # <<>>,
         NEW obs \in Range(observations), NearAnchors(obs), ~PostBoundary(obs),
         NEW c \in Range(Anchors), Absorbs(c, obs)
  PROVE  obs \notin Range(TailObservations(observations))
<1> DEFINE near     == Kept(observations, NearAnchors)
           matched  == {near[p[2]] : p \in Align(Anchors, near)}
           absorbed == {o \in Range(near) : \E i \in DOMAIN Anchors : Absorbs(Anchors[i], o)}
           old(o) == Behind(o) \/ (o \in matched \cup absorbed /\ ~PostBoundary(o))
           I == {i \in DOMAIN observations : ~old(observations[i])}
           J == {i \in DOMAIN observations : NearAnchors(observations[i])}
<1>1. TailObservations(observations) = Among(observations, I)
  BY DEF TailObservations, Kept, NothingCommitted
<1>2. obs \in Range(near)
  <2>1. near = Among(observations, J)
    BY DEF Kept
  <2>2. PICK i \in DOMAIN observations : obs = observations[i]
    BY DEF Range
  <2>3. i \in J /\ J \subseteq DOMAIN observations
    BY <2>2
  <2> HIDE DEF J, near
  <2> QED BY <2>1, <2>2, <2>3, KeptAll
<1> HIDE DEF near, matched
<1>3. old(obs)
  BY <1>2 DEF Range
<1> HIDE DEF old
<1>4. Range(Among(observations, I)) \subseteq {observations[i] : i \in I}
  BY KeptElements
<1> QED BY <1>1, <1>3, <1>4

\* A report of a word that is committed with its text is not new.
LEMMA NewIsUncommitted ==
  ASSUME WordsInOrder, WordsSteady, OrderInv, NEW hearing, Hearing(hearing),
         NEW obs \in Range(TailObservations(Observations(hearing, tick + 1))),
         NEW c \in Range(committed)
  PROVE  ~(c.of = {obs.of} /\ c.norm = obs.norm)
<1> SUFFICES ASSUME c.of = {obs.of}, c.norm = obs.norm PROVE FALSE
  OBVIOUS
<1> DEFINE observations == Observations(hearing, tick + 1)
           w    == obs.of
           last == Last(committed)
<1>1. /\ Sequence(committed) /\ Ordered(committed) /\ Sequence(observations)
      /\ \A d \in Range(committed) : \E v \in DOMAIN Speech : StandsFor(d, v)
  BY ObservationWords DEF OrderInv, WordInv, TextInv
<1>2. /\ Len(committed) \in Nat /\ DOMAIN committed = 1 .. Len(committed)
      /\ committed # <<>> /\ Len(committed) >= 1 /\ last = committed[Len(committed)]
  BY <1>1 DEF Sequence, Range, Last
<1>3. /\ obs \in Range(observations) /\ w \in DOMAIN Speech /\ hearing[w] \in HeardReports
      /\ obs.start = Observation(w, hearing[w], 1).start
      /\ obs.end = Observation(w, hearing[w], 1).end
      /\ ~Behind(obs)
  BY <1>2, NewObservationIs
<1>4. PICK r \in HeardReports : r = hearing[w]
  BY <1>3
<1> HIDE DEF observations, last
\* Its word is the last one committed: later ones end later.
<1>5. PICK v \in DOMAIN Speech, q \in HeardReports :
        last.of = {v} /\ last.end = Observation(v, q, 1).end
  <2>1. last \in Range(committed)
    BY <1>2 DEF Range
  <2> QED BY <1>1, <2>1 DEF StandsFor, SameWord
<1>6. /\ obs.start \in Int /\ obs.end \in Int /\ last.end \in Int
      /\ v \in Nat /\ w \in Nat
  BY <1>3, <1>5, ObservedAt, WordNumbers
<1>7. ~(obs.end <= last.end)
  BY <1>3 DEF Behind, CommittedEnd, last
<1>8. v = w
  <2>1. w <= v
    <3>1. PICK i \in DOMAIN committed : c = committed[i]
      BY DEF Range
    <3>2. CASE i = Len(committed)
      <4>1. c = last
        BY <1>2, <3>1, <3>2
      <4>2. w = v
        BY <1>5, <4>1
      <4> QED BY <1>6, <4>2
    <3>3. CASE i # Len(committed)
      <4>1. i < Len(committed) /\ i \in DOMAIN committed /\ Len(committed) \in DOMAIN committed
        BY <1>2, <3>3
      <4>2. InOrder(c, last)
        BY <1>1, <1>2, <3>1, <4>1 DEF Ordered
      <4> QED BY <1>5, <4>2 DEF InOrder
    <3> QED BY <3>2, <3>3
  <2>2. ~(w < v)
    <3>1. ASSUME w < v PROVE FALSE
      <4>1. obs.end < last.end
        BY <1>3, <1>5, <3>1, ReportsInOrder
      <4> QED BY <1>6, <1>7, <4>1
    <3> QED BY <3>1
  <2> QED BY <1>6, <2>1, <2>2
\* So the text reaches it, the anchors hold it, and it is absorbed.
<1>9. PICK p \in HeardReports :
        /\ c.start = Observation(w, p, 1).start /\ c.end = Observation(w, p, 1).end
        /\ c.start \in Int /\ c.end \in Int
  <2>1. PICK x \in DOMAIN Speech : StandsFor(c, x)
    BY <1>1
  <2>2. x = w
    BY <2>1 DEF StandsFor
  <2> QED BY <1>3, <2>1, <2>2, ObservedAt DEF StandsFor, SameWord
<1>10. /\ 10 * (Smaller(c.end, obs.end) - Larger(c.start, obs.start)) >= 12
       /\ 2 * (Smaller(c.end, obs.end) - Larger(c.start, obs.start))
            >= Smaller(c.end - c.start, obs.end - obs.start)
  BY <1>3, <1>9, ReportsOverlap
<1>11. /\ obs.start < last.end
       /\ last.end - c.end < AnchorSpan
       /\ 4 * (obs.end - last.end) < 3 * (obs.end - obs.start)
  <2>1. /\ obs.start < last.end
        /\ 4 * (obs.end - last.end) < 3 * (obs.end - obs.start)
    BY <1>3, <1>5, <1>8, ReportsOverlap
  <2>2. last.end - c.end < AnchorSpan
    BY <1>3, <1>5, <1>8, <1>9, ReportsOverlap
  <2> QED BY <2>1, <2>2
<1>12. AnchorSpan \in Int
  BY PrefixAssumption
<1>13. CommittedEnd = last.end
  BY DEF CommittedEnd, last
<1>14. Absorbs(c, obs)
  <2>1. Smaller(c.end, obs.end) - Larger(c.start, obs.start) > 0
    <3>1. Smaller(c.end, obs.end) - Larger(c.start, obs.start) \in Int
      BY <1>6, <1>9 DEF Smaller, Larger
    <3> QED BY <1>10, <3>1
  <2> QED BY <1>10, <1>11, <1>13, <2>1 DEF Absorbs
<1>15. ~PostBoundary(obs)
  <2>1. Larger(0, obs.end - last.end) = obs.end - last.end
    BY <1>6, <1>7 DEF Larger
  <2>2. ~(4 * (obs.end - last.end) >= 3 * (obs.end - obs.start))
    BY <1>6, <1>11
  <2> QED BY <1>13, <2>1, <2>2 DEF PostBoundary
<1> DEFINE K == {i \in DOMAIN committed : committed[i].end > CommittedEnd - AnchorSpan}
<1>16. Anchors = Among(committed, K) /\ K \subseteq DOMAIN committed
  BY DEF Anchors, Kept
<1>17. c \in Range(Anchors)
  <2>1. PICK i \in DOMAIN committed : c = committed[i]
    BY DEF Range
  <2>2. c.end > last.end - AnchorSpan
    BY <1>6, <1>9, <1>11, <1>12
  <2>3. i \in K
    BY <1>13, <2>1, <2>2
  <2> HIDE DEF K
  <2> QED BY <1>1, <1>16, <2>1, <2>3, KeptAll
<1>18. NearAnchors(obs)
  <2>1. Sequence(Anchors) /\ Range(Anchors) \subseteq Range(committed)
    <3>1. /\ Sequence(Among(committed, K))
          /\ Range(Among(committed, K)) \subseteq {committed[i] : i \in K}
      BY <1>1, KeptElements
    <3> HIDE DEF K
    <3> QED BY <1>16, <3>1 DEF Range
  <2>2. Anchors[1] \in Range(Anchors)
    <3>1. Len(Anchors) \in Nat /\ DOMAIN Anchors = 1 .. Len(Anchors) /\ Len(Anchors) >= 1
      BY <1>17, <2>1 DEF Sequence, Range
    <3> QED BY <3>1 DEF Range
  <2>3. PICK x \in DOMAIN Speech, y \in HeardReports :
          Anchors[1].of = {x} /\ Anchors[1].start = Observation(x, y, 1).start
    BY <1>1, <2>1, <2>2 DEF StandsFor, SameWord
  <2>4. x <= w
    BY <2>1, <2>2, <2>3, NewFollowsCommitted
  <2>5. StructuralDelta \in Int /\ StructuralDelta >= 0 /\ Anchors[1].start \in Int
    <3>1. Delta \in Nat /\ MaxDelta \in Int
      BY AlignmentAssumption, PrefixAssumption
    <3> QED BY <2>3, <3>1, ObservedAt DEF StructuralDelta, Larger
  <2>6. obs.end > Anchors[1].start - StructuralDelta
    <3>1. CASE x = w
      <4>1. Anchors[1].start < obs.end
        BY <1>3, <2>3, <3>1, ReportsOverlap
      <4> QED BY <1>6, <2>5, <4>1
    <3>2. CASE x # w
      <4>1. x < w
        BY <1>6, <2>4, <3>2, WordNumbers
      <4>2. Anchors[1].start + StructuralDelta < obs.end
        BY <1>3, <2>3, <4>1, ReportsInOrder
      <4> QED BY <1>6, <2>5, <4>2
    <3> QED BY <3>1, <3>2
  <2>7. obs.start <= CommittedEnd
    BY <1>6, <1>11, <1>13
  <2> QED BY <2>6, <2>7 DEF NearAnchors
<1>19. obs \notin Range(TailObservations(observations))
  BY <1>1, <1>2, <1>3, <1>14, <1>15, <1>17, <1>18, AbsorbedIsDropped
<1> QED BY <1>19 DEF observations

\* A token of the tail is paired with the new report of its word.
LEMMA AlikeIsPaired ==
  ASSUME WordsApart, WordsSteady, OrderInv, Distinct(tail), NEW hearing, Hearing(hearing),
         NEW new, new = TailObservations(Observations(hearing, tick + 1)),
         NEW u \in Range(tail), ~SlidOut(u, tick + 1),
         NEW j \in DOMAIN new, u.of = {new[j].of}, u.norm = new[j].norm
  PROVE  \E x \in DOMAIN NotSlid(tick + 1) :
            /\ NotSlid(tick + 1)[x] = u
            /\ <<x, j>> \in Align(NotSlid(tick + 1), new)
<1> DEFINE k   == tick + 1
           old == NotSlid(k)
<1>1. /\ WordInv /\ Sequence(tail) /\ Ordered(tail) /\ tick \in Nat /\ k \in Nat
  BY DEF OrderInv, WordInv, TextInv, TailTokens
<1>2. /\ Sequence(old) /\ Picks(old, tail, DOMAIN tail) /\ u \in Range(old)
      /\ \A t \in Range(old) : t \in Range(tail)
  BY <1>1, NotSlidAre
<1>3. Sequence(new) /\ Ascending(new)
  BY ObservationWords, ObservationsAscend, TailObservationsAre
<1> HIDE DEF old
<1>4. Ordered(old) /\ Distinct(old)
  BY <1>1, <1>2 DEF Ordered, Distinct, Picks
<1>5. /\ Len(old) \in Nat /\ DOMAIN old = 1 .. Len(old)
      /\ Len(new) \in Nat /\ DOMAIN new = 1 .. Len(new)
  BY <1>2, <1>3 DEF Sequence
<1>6. \A x \in DOMAIN old : \E w \in DOMAIN Speech : \E q \in HeardReports :
         old[x].of = {w} /\ SameWord(old[x], Observation(w, q, 1))
  <2> TAKE x \in DOMAIN old
  <2>1. old[x] \in Range(tail)
    BY <1>2 DEF Range
  <2> QED BY <1>1, <2>1 DEF WordInv, StandsFor
<1>7. \A y \in DOMAIN new :
        /\ new[y].of \in DOMAIN Speech /\ new[y].of \in Nat /\ hearing[new[y].of] \in HeardReports
        /\ SameWord(new[y], Observation(new[y].of, hearing[new[y].of], 1))
        /\ new[y].start \in Int /\ new[y].end \in Int /\ new[y].score \in Nat
  <2> TAKE y \in DOMAIN new
  <2> DEFINE o == new[y]
  <2>1. o \in Range(new)
    BY DEF Range
  <2> HIDE DEF o
  <2>2. /\ o \in Range(Observations(hearing, k)) /\ o.of \in DOMAIN Speech
        /\ hearing[o.of] \in HeardReports
        /\ SameWord(o, Observation(o.of, hearing[o.of], 1))
    BY <2>1, NewObservationIs DEF SameWord
  <2>3. o.start \in Int /\ o.end \in Int
    BY <2>2, ObservedAt DEF SameWord
  <2>4. o.score \in Nat
    BY <1>1, <2>2, ObservationWords, ObservationScore
  <2> QED BY <2>2, <2>3, <2>4, WordNumbers DEF o
<1>8. \A x \in DOMAIN old, y \in DOMAIN new :
         Similar(old[x], new[y]) => old[x].of = {new[y].of} /\ old[x].norm = new[y].norm
  <2> SUFFICES ASSUME NEW x \in DOMAIN old, NEW y \in DOMAIN new, Similar(old[x], new[y])
               PROVE  old[x].of = {new[y].of} /\ old[x].norm = new[y].norm
    OBVIOUS
  <2>1. PICK w \in DOMAIN Speech, q \in HeardReports :
          old[x].of = {w} /\ SameWord(old[x], Observation(w, q, 1))
    BY <1>6
  <2>2. w = new[y].of
    BY <1>7, <2>1, SimilarIsSame
  <2> QED BY <2>1, <2>2 DEF Similar
<1>9. \A i, y \in DOMAIN new : /\ new[i].of = new[y].of <=> i = y
                               /\ i < y => new[i].of < new[y].of
  <2> SUFFICES ASSUME NEW i \in DOMAIN new, NEW y \in DOMAIN new
               PROVE  /\ new[i].of = new[y].of <=> i = y
                      /\ i < y => new[i].of < new[y].of
    OBVIOUS
  <2>1. (i < y => new[i].of < new[y].of) /\ (y < i => new[y].of < new[i].of)
    BY <1>3 DEF Ascending
  <2>2. i \in Nat /\ y \in Nat /\ new[i].of \in Nat /\ new[y].of \in Nat
    BY <1>5, <1>7
  <2> QED BY <2>1, <2>2
<1>10. Unambiguous(old, new)
  <2> SUFFICES ASSUME NEW x1 \in DOMAIN old, NEW x2 \in DOMAIN old,
                      NEW y1 \in DOMAIN new, NEW y2 \in DOMAIN new,
                      Similar(old[x1], new[y1]), Similar(old[x2], new[y2])
               PROVE  (x1 = x2 <=> y1 = y2) /\ (x1 < x2 => y1 < y2)
    BY <1>5 DEF Unambiguous
  <2>1. /\ old[x1].of = {new[y1].of} /\ old[x1].norm = new[y1].norm
        /\ old[x2].of = {new[y2].of} /\ old[x2].norm = new[y2].norm
    BY <1>8
  <2>2. x1 = x2 => y1 = y2
    BY <1>9, <2>1
  <2>3. y1 = y2 => x1 = x2
    <3> SUFFICES ASSUME y1 = y2 PROVE ~(x1 < x2) /\ ~(x2 < x1)
      BY <1>5
    <3>1. SameToken(old[x1], old[x2]) /\ SameToken(old[x2], old[x1])
      BY <2>1 DEF SameToken
    <3> QED BY <1>4, <3>1 DEF Distinct
  <2>4. ASSUME x1 < x2 PROVE y1 < y2
    <3>1. new[y1].of <= new[y2].of
      BY <1>4, <2>1, <2>4 DEF Ordered, InOrder
    <3>2. y1 # y2
      BY <1>5, <2>3, <2>4
    <3>3. new[y1].of \in Nat /\ new[y2].of \in Nat
      BY <1>7
    <3>4. ~(y2 < y1)
      BY <1>9, <3>1, <3>3
    <3> QED BY <1>5, <3>2, <3>4
  <2> QED BY <2>2, <2>3, <2>4
<1>11. \A x \in DOMAIN old : old[x].start \in Int /\ old[x].end \in Int
  BY <1>6, ObservedAt DEF SameWord
<1>12. \A x \in 1 .. Len(old), y \in 1 .. Len(new) :
         Similar(old[x], new[y]) => <<x, y>> \in Align(old, new)
  BY <1>5, <1>7, <1>10, <1>11, SimilarAreAligned
<1>13. PICK x \in DOMAIN old : u = old[x]
  BY <1>2 DEF Range
<1>14. Similar(u, new[j])
  <2>1. PICK w \in DOMAIN Speech, q \in HeardReports :
          u.of = {w} /\ SameWord(u, Observation(w, q, 1))
    BY <1>6, <1>13
  <2>2. w = new[j].of /\ hearing[w] \in HeardReports
        /\ SameWord(new[j], Observation(w, hearing[w], 1))
    BY <1>7, <2>1
  <2>3. Distance(Center(Observation(w, q, 1)), Center(Observation(w, hearing[w], 1))) <= 2 * Delta
    BY <2>2, ReportsOverlap
  <2> QED BY <2>1, <2>2, <2>3 DEF Similar, SameWord, Center
<1> QED BY <1>5, <1>12, <1>13, <1>14 DEF old, k

\* A token of the tail that the alignment leaves alone has no new report.
LEMMA UnpairedIsUnlike ==
  ASSUME WordsApart, WordsSteady, OrderInv, Distinct(tail), NEW hearing, Hearing(hearing),
         NEW new, new = TailObservations(Observations(hearing, tick + 1)),
         NEW u \in Range(tail), ~SlidOut(u, tick + 1),
         Unpaired(u, tick + 1, new)
  PROVE  \A j \in DOMAIN new : ~(u.of = {new[j].of} /\ u.norm = new[j].norm)
<1> SUFFICES ASSUME NEW j \in DOMAIN new, u.of = {new[j].of}, u.norm = new[j].norm
             PROVE  FALSE
  OBVIOUS
<1>1. PICK x \in DOMAIN NotSlid(tick + 1) :
        /\ NotSlid(tick + 1)[x] = u
        /\ <<x, j>> \in Align(NotSlid(tick + 1), new)
  BY AlikeIsPaired
<1>2. <<x, j>>[1] = x
  OBVIOUS
<1> QED BY <1>1, <1>2 DEF Unpaired

\* A token that is carried keeps its text.
LEMMA CarriedIsSame ==
  ASSUME WordInv, NEW u \in Range(tail)
  PROVE  SameToken(Carry(u), u)
<1>1. Shaped(u)
  BY DEF WordInv, TextInv, TailTokens, Token
<1> QED BY <1>1 DEF Shaped, Carry, SameToken

\* Tokens that were not reported are as distinct as they were.
LEMMA InTurnDistinct ==
  ASSUME WordInv, Distinct(tail), Apart(committed, tail), NEW s, InTurn(s),
         \A t \in Range(s) : \E u \in Range(tail) : t = Carry(u)
  PROVE  Distinct(s) /\ Apart(committed, s)
<1>1. \A u \in Range(tail) : Carry(u).of = u.of /\ Carry(u).norm = u.norm
  BY CarriedIsSame DEF SameToken
<1>2. \A x \in DOMAIN tail : tail[x] \in Range(tail)
  BY DEF Range
<1>3. Distinct(s)
  <2> SUFFICES ASSUME NEW i \in DOMAIN s, NEW j \in DOMAIN s, i < j
               PROVE  ~SameToken(s[i], s[j])
    BY DEF Distinct
  <2>1. PICK x, y \in DOMAIN tail : x < y /\ s[i] = Carry(tail[x]) /\ s[j] = Carry(tail[y])
    BY DEF InTurn
  <2>2. ~SameToken(tail[x], tail[y])
    BY <2>1 DEF Distinct
  <2> QED BY <1>1, <1>2, <2>1, <2>2 DEF SameToken
<1>4. Apart(committed, s)
  <2> SUFFICES ASSUME NEW c \in Range(committed), NEW t \in Range(s) PROVE ~SameToken(c, t)
    BY DEF Apart
  <2>1. PICK u \in Range(tail) : t = Carry(u)
    OBVIOUS
  <2> QED BY <1>1, <2>1 DEF Apart, SameToken
<1> QED BY <1>3, <1>4

\* The tail after a window repeats neither itself nor the committed text.
LEMMA NewTailDistinct ==
  ASSUME WordsApart, WordsInOrder, WordsSteady, OnceInv,
         NEW hearing, Hearing(hearing), Ingest(hearing)
  PROVE  LET next == NewTail(Observations(hearing, tick + 1), tick + 1)
         IN  Distinct(next) /\ Apart(committed, next)
<1> DEFINE k            == tick + 1
           observations == Observations(hearing, k)
           new          == TailObservations(observations)
           before       == CarriedForward(k)
<1>1. /\ OrderInv /\ WordInv /\ Distinct(tail) /\ Apart(committed, tail)
      /\ Sequence(tail) /\ Sequence(committed) /\ k \in Nat
  BY DEF OnceInv, OrderInv, WordInv, TextInv, TailTokens
<1>2. Sequence(observations) /\ Sequence(new) /\ Ascending(new)
  BY ObservationWords, ObservationsAscend, TailObservationsAre
<1>3. \A o \in Range(new) :
        /\ o.of \in DOMAIN Speech /\ o.of \in Covered(k)
        /\ \A c \in Range(committed) : ~(c.of = {o.of} /\ c.norm = o.norm)
  BY <1>1, NewObservationIs, NewIsUncommitted
<1>4. /\ Sequence(before) /\ InTurn(before)
      /\ \A t \in Range(before) : \E u \in Range(tail) : t = Carry(u) /\ SlidOut(u, k)
  BY <1>1, CarriedParts
<1>5. \A t \in Range(NewTail(observations, k)) : \E w \in DOMAIN Speech : StandsFor(t, w)
  BY <1>1, NewTailStands DEF Hearing
<1>6. \A u \in Range(tail) :
        ~SlidOut(u, k) /\ Unpaired(u, k, new) =>
          \A j \in DOMAIN new : ~(u.of = {new[j].of} /\ u.norm = new[j].norm)
  BY <1>1, UnpairedIsUnlike
<1> HIDE DEF observations, new, before, k
<1>7. PICK f, g :
        /\ NewTail(observations, k) = before \o f \o g
        /\ Sequence(f) /\ DOMAIN f = DOMAIN new /\ \A j \in DOMAIN f : Reported(f[j], new[j])
        /\ Sequence(g) /\ InTurn(g)
        /\ \A t \in Range(g) : \E u \in Range(tail) :
              t = Carry(u) /\ ~SlidOut(u, k) /\ Unpaired(u, k, new)
  BY <1>1, <1>2, NewTailParts DEF new, before
<1>8. /\ Sequence(before \o f) /\ Range(before \o f) = Range(before) \cup Range(f)
      /\ Range(before \o f \o g) = Range(before) \cup Range(f) \cup Range(g)
  BY <1>4, <1>7, JoinElements
<1>9. \A j \in DOMAIN f : /\ f[j].of = {new[j].of} /\ f[j].norm = new[j].norm
                          /\ new[j] \in Range(new)
  <2> TAKE j \in DOMAIN f
  <2>1. new[j].of \in f[j].of /\ f[j].norm = new[j].norm
    BY <1>7 DEF Reported, Merge, NewToken, Similar
  <2>2. f[j] \in Range(f) /\ new[j] \in Range(new)
    BY <1>7 DEF Range
  <2>3. \E w : f[j].of = {w}
    BY <1>7, <1>5, <1>8, <2>2 DEF StandsFor
  <2> QED BY <2>1, <2>2, <2>3
<1>10. /\ Distinct(before) /\ Distinct(g)
       /\ Apart(committed, before) /\ Apart(committed, g)
  BY <1>1, <1>4, <1>7, InTurnDistinct
<1>11. Distinct(f)
  <2> SUFFICES ASSUME NEW i \in DOMAIN f, NEW j \in DOMAIN f, i < j
               PROVE  ~SameToken(f[i], f[j])
    BY DEF Distinct
  <2>1. new[i].of < new[j].of /\ new[i].of \in Nat /\ new[j].of \in Nat
    BY <1>2, <1>3, <1>7, <1>9, WordNumbers DEF Ascending
  <2>2. new[i].of # new[j].of
    BY <2>1
  <2> QED BY <1>9, <2>2 DEF SameToken
<1>12. Apart(committed, f)
  BY <1>3, <1>9 DEF Apart, SameToken, Range
<1>13. \A u \in Range(tail) : Carry(u).of = u.of /\ Carry(u).norm = u.norm
  BY <1>1, CarriedIsSame DEF SameToken
\* A word that the window covers has no token left behind.
<1>14. Apart(before, f)
  <2> SUFFICES ASSUME NEW t \in Range(before), NEW j \in DOMAIN f, SameToken(t, f[j])
               PROVE  FALSE
    BY DEF Apart, Range
  <2>1. PICK u \in Range(tail) : t = Carry(u) /\ SlidOut(u, k)
    BY <1>4
  <2>2. u.of = {new[j].of} /\ new[j].of \in DOMAIN Speech /\ new[j].of \in Covered(k)
    BY <1>3, <1>9, <1>13, <2>1 DEF SameToken
  <2>3. PICK r \in HeardReports : u.end = Observation(new[j].of, r, 1).end
    <3>1. PICK w \in DOMAIN Speech, r \in HeardReports :
            u.of = {w} /\ u.end = Observation(w, r, 1).end
      BY <1>1, <2>1, CarriedStands
    <3> QED BY <2>2, <3>1
  <2>4. /\ u.end <= WindowStart(k) /\ Speech[new[j].of].start >= WindowStart(k)
        /\ Speech[new[j].of].start < u.end
    BY <2>1, <2>2, <2>3 DEF SlidOut, Covered, WordsInOrder
  <2>5. u.end \in Int /\ WindowStart(k) \in Int /\ Speech[new[j].of].start \in Int
    BY <1>1, <2>2, <2>3, ObservedAt, Geometry
  <2> QED BY <2>4, <2>5
<1>15. Apart(before, g)
  <2> SUFFICES ASSUME NEW t \in Range(before), NEW s \in Range(g) PROVE ~SameToken(t, s)
    BY DEF Apart
  <2>1. PICK x \in DOMAIN tail : t = Carry(tail[x]) /\ SlidOut(tail[x], k)
    BY <1>4 DEF Range
  <2>2. PICK y \in DOMAIN tail : s = Carry(tail[y]) /\ ~SlidOut(tail[y], k)
    BY <1>7 DEF Range
  <2>3. x < y \/ y < x
    <3>1. x # y /\ DOMAIN tail \subseteq Nat
      BY <1>1, <2>1, <2>2 DEF Sequence
    <3> QED BY <3>1
  <2>4. ~SameToken(tail[x], tail[y])
    BY <1>1, <2>3 DEF Distinct, SameToken
  <2>5. tail[x] \in Range(tail) /\ tail[y] \in Range(tail)
    BY DEF Range
  <2> QED BY <1>13, <2>1, <2>2, <2>4, <2>5 DEF SameToken
<1>16. Apart(f, g)
  <2> SUFFICES ASSUME NEW j \in DOMAIN f, NEW s \in Range(g) PROVE ~SameToken(f[j], s)
    BY DEF Apart, Range
  <2>1. PICK u \in Range(tail) : s = Carry(u) /\ ~SlidOut(u, k) /\ Unpaired(u, k, new)
    BY <1>7
  <2>2. ~(u.of = {new[j].of} /\ u.norm = new[j].norm)
    BY <1>7, <1>6, <2>1
  <2> QED BY <1>9, <1>13, <2>1, <2>2 DEF SameToken
<1>17. Distinct(before \o f)
  BY <1>4, <1>7, <1>10, <1>11, <1>14, DistinctJoin
<1>18. Apart(before \o f, g)
  BY <1>8, <1>15, <1>16 DEF Apart
<1>19. Distinct(before \o f \o g)
  BY <1>7, <1>8, <1>10, <1>17, <1>18, DistinctJoin
<1>20. Apart(committed, before \o f \o g)
  BY <1>8, <1>10, <1>12 DEF Apart
<1> QED BY <1>7, <1>19, <1>20 DEF k, observations

\* Ready tokens do not repeat the committed text they are added to.
LEMMA EmitDistinct ==
  ASSUME Sequence(committed), Distinct(committed),
         NEW ready, Sequence(ready), Distinct(ready), Apart(committed, ready),
         NEW rest, Apart(committed, rest), Apart(ready, rest),
         Emit(committed \o Render(ready), rest)
  PROVE  Distinct(committed') /\ Apart(committed', rest)
<1> DEFINE more == Render(ready)
<1>1. Sequence(more) /\ DOMAIN more = DOMAIN ready
  BY MapElements DEF Render
<1>2. \A i \in DOMAIN ready : more[i].of = ready[i].of /\ more[i].norm = ready[i].norm
  BY DEF Render
<1> HIDE DEF more
<1>3. Distinct(more)
  BY <1>1, <1>2 DEF Distinct, SameToken
<1>4. \A t \in Range(more) : \E u \in Range(ready) : t.of = u.of /\ t.norm = u.norm
  BY <1>1, <1>2 DEF Range
<1>5. Apart(committed, more) /\ Apart(more, rest)
  BY <1>4 DEF Apart, SameToken
<1>6. Distinct(committed \o more) /\ Range(committed \o more) = Range(committed) \cup Range(more)
  BY <1>1, <1>3, <1>5, DistinctJoin, JoinElements
<1>7. committed' = committed \o more
  BY DEF Emit, more
<1> QED BY <1>5, <1>6, <1>7 DEF Apart

\* An aggregator without a text satisfies the invariant.
LEMMA InitOnce == Init => OnceInv
<1> SUFFICES ASSUME Init PROVE OnceInv
  OBVIOUS
<1>1. OrderInv
  BY InitOrder
<1>2. DOMAIN tail = {} /\ DOMAIN committed = {}
  BY DEF Init
<1> QED BY <1>1, <1>2 DEF OnceInv, Distinct, Apart, Range

\* A window keeps it.
LEMMA IngestOnce ==
  ASSUME WordsApart, WordsInOrder, WordsSteady, OnceInv,
         NEW hearing, Hearing(hearing), Ingest(hearing)
  PROVE  OnceInv'
<1> DEFINE next == NewTail(Observations(hearing, tick + 1), tick + 1)
<1>1. /\ OrderInv /\ TextInv /\ Sequence(committed) /\ Distinct(committed)
  BY DEF OnceInv, OrderInv, WordInv, TextInv
<1>2. OrderInv'
  BY <1>1, IngestOrder
<1>3. Distinct(next) /\ Apart(committed, next)
  BY NewTailDistinct
<1>4. PICK ready, rest :
        /\ Sequence(ready) /\ Range(ready) \subseteq Range(next)
        /\ Sequence(rest) /\ Range(rest) \subseteq Range(next)
        /\ Picks(ready, next, DOMAIN next) /\ Picks(rest, next, DOMAIN next)
        /\ InFront(ready, rest, next)
        /\ Emit(committed \o Render(ready), rest)
  BY <1>1, IngestParts
<1> HIDE DEF next
<1>5. Apart(committed, ready) /\ Apart(committed, rest)
  BY <1>3, <1>4 DEF Apart
<1>6. Distinct(ready) /\ Distinct(rest) /\ Apart(ready, rest)
  BY <1>3, <1>4 DEF Distinct, Picks, InFront, Apart
<1>7. Distinct(committed') /\ Apart(committed', rest)
  BY <1>1, <1>4, <1>5, <1>6, EmitDistinct
<1>8. tail' = rest
  BY <1>4 DEF Emit
<1> QED BY <1>2, <1>6, <1>7, <1>8 DEF OnceInv, Distinct, Apart, SameToken

\* The end of the recording keeps it.
LEMMA FlushOnce ==
  ASSUME OnceInv, Flush
  PROVE  OnceInv'
<1> DEFINE I     == {i \in DOMAIN tail : Flushable(tail[i])}
           ready == Among(tail, I)
<1>1. /\ OrderInv /\ TextInv /\ Sequence(tail) /\ Sequence(committed)
      /\ Distinct(committed) /\ Distinct(tail) /\ Apart(committed, tail)
  BY DEF OnceInv, OrderInv, WordInv, TextInv, TailTokens
<1>2. OrderInv' /\ tail' = <<>>
  BY <1>1, FlushOrder, FlushText
<1>3. Emit(committed \o Render(ready), <<>>)
  BY DEF Flush, Kept
<1>4. /\ Sequence(ready) /\ Range(ready) \subseteq {tail[i] : i \in I}
      /\ Picks(ready, tail, I) /\ I \subseteq DOMAIN tail
  BY <1>1, KeptElements, KeptInOrder
<1> HIDE DEF ready, I
<1>5. Distinct(ready)
  BY <1>1, <1>4 DEF Picks, Distinct
<1>6. Apart(committed, ready)
  BY <1>1, <1>4 DEF Apart, Range
<1>7. Range(<<>>) = {}
  BY DEF Range
<1>8. Distinct(committed')
  BY <1>1, <1>3, <1>4, <1>5, <1>6, <1>7, EmitDistinct DEF Apart
<1>9. DOMAIN tail' = {} /\ Range(tail') = {}
  BY <1>2 DEF Range
<1> QED BY <1>2, <1>8, <1>9 DEF OnceInv, Distinct, Apart, SameToken

\* Every step keeps it.
LEMMA NextOnce ==
  ASSUME WordsApart, WordsInOrder, WordsSteady
  PROVE  OnceInv /\ [Next]_vars => OnceInv'
<1> SUFFICES ASSUME OnceInv, [Next]_vars PROVE OnceInv'
  OBVIOUS
<1>1. CASE Hear
  <2>1. PICK heard \in [Covered(tick + 1) -> Reports] :
          Ingest([w \in DOMAIN Speech |-> IF w \in DOMAIN heard THEN heard[w] ELSE Missed])
    BY <1>1 DEF Hear
  <2> DEFINE hearing == [w \in DOMAIN Speech |->
                           IF w \in DOMAIN heard THEN heard[w] ELSE Missed]
  <2>2. Hearing(hearing)
    BY PrefixAssumption DEF Hearing
  <2>3. Ingest(hearing)
    BY <2>1
  <2> HIDE DEF hearing
  <2> QED BY <2>2, <2>3, IngestOnce
<1>2. CASE Flush
  BY <1>2, FlushOnce
<1>3. CASE UNCHANGED vars
  <2>1. OrderInv'
    BY <1>3, NextOrder DEF OnceInv
  <2>2. committed' = committed /\ tail' = tail
    BY <1>3 DEF vars
  <2> QED BY <2>1, <2>2 DEF OnceInv, Distinct, Apart, SameToken
<1> QED BY <1>1, <1>2, <1>3 DEF Next

\* However many windows report a word, it is final once, if all its reports
\* overlap.
THEOREM FinalOnlyOnce ==
  ASSUME WordsApart, WordsInOrder, WordsSteady
  PROVE  Spec => []CommittedOnce
<1>1. OnceInv => CommittedOnce
  <2> SUFFICES ASSUME OnceInv, NEW i \in DOMAIN committed, NEW j \in DOMAIN committed,
                      i # j, committed[i].norm = committed[j].norm,
                      committed[i].of \cap committed[j].of # {}
               PROVE  FALSE
    BY DEF CommittedOnce
  <2>1. i < j \/ j < i
    <3>1. DOMAIN committed \subseteq Nat
      BY DEF OnceInv, OrderInv, WordInv, TextInv, Sequence
    <3> QED BY <3>1
  <2>2. committed[i] \in Range(committed) /\ committed[j] \in Range(committed)
    BY DEF Range
  <2>3. committed[i].of = committed[j].of
    <3>1. \A c \in Range(committed) : \E w : c.of = {w}
      BY DEF OnceInv, OrderInv, WordInv, StandsFor
    <3>2. PICK v, w : committed[i].of = {v} /\ committed[j].of = {w}
      BY <2>2, <3>1
    <3> QED BY <3>2
  <2> QED BY <2>1, <2>3 DEF OnceInv, Distinct, SameToken
<1> QED BY <1>1, InitOnce, NextOnce, PTL DEF Spec
(***************************************************************************)
(* Nothing blocks.  While all that is covered is heard, each token of the  *)
(* tail is of a word the last window covers, with the evidence of all the  *)
(* windows that cover it, and the words that are final are the first ones. *)
(* So the last window that covers a word finds enough evidence for it and  *)
(* for every word in front of it.                                          *)
(***************************************************************************)
AllHeard == \A w \in DOMAIN Speech : reports[w] = Cardinality(Windows(w))

Known(w) == \E c \in Range(committed) : w \in c.of

\* A token with the evidence of all the windows that cover its word.
Supported(t, w) ==
    /\ t.support >= Cardinality(Windows(w)) /\ t.total \in Nat
    /\ (\E j \in Windows(w) : ShownWell(w, j)) =>
          t.center /\ (RequireFull => t.full) /\ t.total >= MinScore

Settled ==
    /\ \A t \in Range(tail) : \A w \in t.of :
          w \in Covered(tick) /\ ~Known(w) /\ Supported(t, w)
    /\ \A w \in DOMAIN Speech : Known(w) => Windows(w) # {}
    /\ \A w \in DOMAIN Speech : Windows(w) # {} =>
          Known(w) \/ \E t \in Range(tail) : w \in t.of
    /\ \A v, w \in DOMAIN Speech : v < w /\ Known(w) /\ Windows(v) # {} => Known(v)

\* A word that no window will cover again is final.
LeftIsKnown ==
    \A w \in DOMAIN Speech : Windows(w) # {} /\ w \notin Covered(tick + 1) => Known(w)

SettleInv ==
    /\ OnceInv
    /\ \A w \in DOMAIN Speech : reports[w] <= Cardinality(Windows(w))
    /\ AllHeard => LeftIsKnown
    /\ AllHeard /\ ~flushed => Settled

\* Windows move to the right.
LEMMA WindowsMove ==
  ASSUME NEW j \in Nat, NEW k \in Nat, j <= k
  PROVE  WindowStart(j) <= WindowStart(k) /\ WindowEnd(j) <= WindowEnd(k)
<1>1. Hop \in Nat /\ Window \in Nat
  BY PrefixAssumption
<1>2. PICK d \in Nat : k = j + d
  <2>1. k - j \in Nat /\ k = j + (k - j)
    OBVIOUS
  <2> QED BY <2>1
<1>3. k * Hop = j * Hop + d * Hop /\ d * Hop \in Nat /\ j * Hop \in Nat
  BY <1>1, <1>2
<1>4. j * Hop <= k * Hop /\ k * Hop \in Nat
  BY <1>3
<1> QED BY <1>1, <1>3, <1>4 DEF WindowStart, WindowEnd

\* The times of a word are integers.
LEMMA SpokenAt ==
  ASSUME NEW w \in DOMAIN Speech
  PROVE  Speech[w].start \in Int /\ Speech[w].end \in Int
<1> DEFINE Spoken == [norm : {Speech[x].norm : x \in DOMAIN Speech},
                      start : Int, end : Int]
<1>1. \A word \in Spoken : word.start \in Int /\ word.end \in Int
  OBVIOUS
<1>2. Speech \in Seq(Spoken)
  BY PrefixAssumption
<1> HIDE DEF Spoken
<1>3. Speech[w] \in Spoken
  BY <1>2
<1> QED BY <1>1, <1>3

\* An earlier window that covers a later word covers the word too.
LEMMA CoveredInOrder ==
  ASSUME WordsInOrder, NEW r \in HeardReports,
         NEW v \in DOMAIN Speech, NEW w \in DOMAIN Speech, v < w,
         NEW j \in Nat, NEW k \in Nat, j <= k, v \in Covered(k), w \in Covered(j)
  PROVE  v \in Covered(j)
<1>1. Observation(v, r, 1).end < Observation(w, r, 1).end
  BY ReportsInOrder
<1>2. /\ Observation(v, r, 1).end = Speech[v].end + r.shift
      /\ Observation(w, r, 1).end = Speech[w].end + r.shift
  BY DEF Observation
<1>3. /\ Speech[v].start \in Int /\ Speech[v].end \in Int /\ Speech[w].end \in Int
      /\ r.shift \in Int
  BY SpokenAt, PrefixAssumption DEF HeardReports
<1>4. Speech[v].end < Speech[w].end
  BY <1>1, <1>2, <1>3
<1>5. /\ WindowStart(j) <= WindowStart(k) /\ WindowStart(j) \in Int /\ WindowStart(k) \in Int
      /\ WindowEnd(j) \in Int
  BY WindowsMove, Geometry, PrefixAssumption DEF WindowEnd
<1> QED BY <1>3, <1>4, <1>5 DEF Covered

\* The windows that have covered a word.
LEMMA WindowsOf ==
  ASSUME tick \in Nat, NEW w
  PROVE  /\ IsFiniteSet(Windows(w)) /\ Cardinality(Windows(w)) \in Nat
         /\ Windows(w) \subseteq 1 .. tick
<1>1. IsFiniteSet(1 .. tick) /\ Windows(w) \subseteq 1 .. tick
  BY FS_Interval DEF Windows
<1> QED BY <1>1, FS_Subset, FS_CardinalityType

LEMMA WindowsGrow ==
  ASSUME tick \in Nat, tick' = tick + 1, NEW w
  PROVE  /\ Windows(w)' = IF w \in Covered(tick + 1) THEN Windows(w) \cup {tick + 1}
                          ELSE Windows(w)
         /\ Cardinality(Windows(w)') = IF w \in Covered(tick + 1)
                                       THEN Cardinality(Windows(w)) + 1
                                       ELSE Cardinality(Windows(w))
<1>1. 1 .. tick + 1 = (1 .. tick) \cup {tick + 1} /\ tick + 1 \notin 1 .. tick
  OBVIOUS
<1>2. Windows(w)' = IF w \in Covered(tick + 1) THEN Windows(w) \cup {tick + 1}
                    ELSE Windows(w)
  BY <1>1 DEF Windows
<1>3. IsFiniteSet(Windows(w)) /\ tick + 1 \notin Windows(w)
  BY <1>1, WindowsOf
<1>4. Cardinality(Windows(w) \cup {tick + 1}) = Cardinality(Windows(w)) + 1
  BY <1>3, FS_AddElement
<1> QED BY <1>2, <1>4

\* What is heard so far has been heard before, and this window hears it all.
LEMMA CountsHeard ==
  ASSUME OnceInv, \A w \in DOMAIN Speech : reports[w] <= Cardinality(Windows(w)),
         NEW hearing, Hearing(hearing), Ingest(hearing)
  PROVE  /\ \A w \in DOMAIN Speech : reports'[w] <= Cardinality(Windows(w)')
         /\ AllHeard' => /\ AllHeard
                         /\ \A w \in Covered(tick + 1) : hearing[w].heard
<1>1. tick \in Nat /\ tick' = tick + 1 /\ reports \in [DOMAIN Speech -> Nat]
  BY DEF Ingest, OnceInv, OrderInv, WordInv, TextInv, TailTokens
<1>2. reports' = [w \in DOMAIN Speech |->
                    IF hearing[w].heard THEN reports[w] + 1 ELSE reports[w]]
  BY DEF Ingest
<1>3. \A w \in DOMAIN Speech :
        /\ reports[w] \in Nat /\ Cardinality(Windows(w)) \in Nat
        /\ reports[w] <= Cardinality(Windows(w))
        /\ reports'[w] = IF hearing[w].heard THEN reports[w] + 1 ELSE reports[w]
        /\ hearing[w].heard => w \in Covered(tick + 1)
        /\ Cardinality(Windows(w)') = IF w \in Covered(tick + 1)
                                      THEN Cardinality(Windows(w)) + 1
                                      ELSE Cardinality(Windows(w))
  <2> TAKE w \in DOMAIN Speech
  <2>1. hearing[w].heard => w \in Covered(tick + 1)
    BY DEF Hearing
  <2>2. Cardinality(Windows(w)) \in Nat
    BY <1>1, WindowsOf
  <2>3. reports'[w] = IF hearing[w].heard THEN reports[w] + 1 ELSE reports[w]
    BY <1>2
  <2> QED BY <1>1, <2>1, <2>2, <2>3, WindowsGrow
<1>4. \A w \in DOMAIN Speech : reports'[w] <= Cardinality(Windows(w)')
  BY <1>3
<1>5. ASSUME AllHeard'
      PROVE  AllHeard /\ \A w \in Covered(tick + 1) : hearing[w].heard
  <2>1. \A w \in DOMAIN Speech : reports'[w] = Cardinality(Windows(w)')
    BY <1>5 DEF AllHeard
  <2>2. \A w \in DOMAIN Speech : reports[w] = Cardinality(Windows(w))
                                 /\ (w \in Covered(tick + 1) => hearing[w].heard)
    BY <1>3, <2>1
  <2> QED BY <2>2 DEF AllHeard, Covered
<1> QED BY <1>4, <1>5

\* A token can be committed once enough tokens from the head are ready.
LEMMA ReadyCountReaches ==
  ASSUME NEW tokens, Sequence(tokens), NEW k, NEW i \in DOMAIN tokens,
         \A x \in 1 .. i : Ready(tokens[x], k),
         ~(RequireFull /\ ~hasFull /\ WindowEnd(k) < Window)
  PROVE  i \in 1 .. ReadyCount(tokens, k)
<1> DEFINE stuck == {x \in DOMAIN tokens : ~Ready(tokens[x], k)}
           T     == stuck \cup {Len(tokens) + 1}
<1>1. Len(tokens) \in Nat /\ DOMAIN tokens = 1 .. Len(tokens)
  BY DEF Sequence
<1>2. T \subseteq Nat /\ T # {} /\ \A x \in T : ~(x <= i)
  BY <1>1
<1>3. ReadyCount(tokens, k) = Min(T) - 1
  BY DEF ReadyCount
<1> HIDE DEF T
<1>4. Min(T) \in Nat /\ ~(Min(T) <= i)
  BY <1>2, LeastOf
<1> QED BY <1>1, <1>3, <1>4
\* A token has the text of the word it stands for.
LEMMA TextIsSpoken ==
  ASSUME WordsSettle, NEW w \in DOMAIN Speech
  PROVE  /\ \A r \in HeardReports : Observation(w, r, 1).norm = Speech[w].norm
         /\ \A t : StandsFor(t, w) => t.norm = Speech[w].norm
<1>1. \A r \in HeardReports : Observation(w, r, 1).norm = Speech[w].norm
  BY DEF WordsSettle
<1> QED BY <1>1 DEF StandsFor, SameWord

\* A token of the tail is in the window, and of a word that is not final.
LEMMA TailIsCovered ==
  ASSUME WordsInOrder, OrderInv, Settled, LeftIsKnown, NEW u \in Range(tail)
  PROVE  /\ ~SlidOut(u, tick + 1)
         /\ \E w \in DOMAIN Speech :
               /\ StandsFor(u, w) /\ w \in Covered(tick + 1)
               /\ ~Known(w) /\ Supported(u, w)
<1>1. PICK w \in DOMAIN Speech : StandsFor(u, w)
  BY DEF OrderInv, WordInv
<1>2. PICK r \in HeardReports : u.of = {w} /\ u.end = Observation(w, r, 1).end
  BY <1>1 DEF StandsFor, SameWord
<1>3. tick \in Nat /\ Token(u, tick)
  BY DEF OrderInv, WordInv, TextInv, TailTokens
<1>4. w \in Covered(tick) /\ ~Known(w) /\ Supported(u, w)
  BY <1>2 DEF Settled
<1>5. tick \in Windows(w)
  <2>1. tick \in 1 .. tick
    BY <1>3 DEF Token, Counted
  <2> QED BY <1>4, <2>1 DEF Windows
<1>6. w \in Covered(tick + 1)
  BY <1>4, <1>5 DEF LeftIsKnown
<1>7. ~SlidOut(u, tick + 1)
  <2>1. /\ Speech[w].start >= WindowStart(tick + 1) /\ Speech[w].start < u.end
    BY <1>2, <1>6 DEF Covered, WordsInOrder
  <2>2. u.end \in Int /\ WindowStart(tick + 1) \in Int /\ Speech[w].start \in Int
    BY <1>2, <1>3, ObservedAt, Geometry
  <2> QED BY <2>1, <2>2 DEF SlidOut
<1> QED BY <1>1, <1>4, <1>6, <1>7

\* The report of a word that is not final is new.
LEMMA UnknownIsNew ==
  ASSUME WordsApart, WordsInOrder, WordsDisjoint, OrderInv, Settled,
         NEW hearing, Hearing(hearing),
         NEW w \in Covered(tick + 1), hearing[w].heard, ~Known(w)
  PROVE  \E obs \in Range(TailObservations(Observations(hearing, tick + 1))) : obs.of = w
<1>1. /\ w \in DOMAIN Speech /\ WordInv /\ tick \in Nat
      /\ \A x \in DOMAIN Speech : hearing[x] \in Reports
  BY DEF Covered, Hearing, OrderInv, WordInv, TextInv, TailTokens
<1>2. PICK obs \in Range(Observations(hearing, tick + 1)) : obs.of = w
  BY <1>1, HeardIsObserved
<1>3. ASSUME Reached(w) PROVE FALSE
  <2>1. PICK c \in Range(committed) : \E v \in c.of : v >= w
    BY <1>3 DEF Reached
  <2>2. PICK v \in DOMAIN Speech : c.of = {v} /\ v >= w
    BY <1>1, <2>1 DEF WordInv, StandsFor
  <2>3. Known(v) /\ v # w
    BY <2>2 DEF Known
  <2>4. w < v
    BY <1>1, <2>2, <2>3, WordNumbers
  <2>5. PICK j \in Windows(v) : TRUE
    BY <2>3 DEF Settled
  <2>6. j \in 1 .. tick /\ v \in Covered(j)
    BY DEF Windows
  <2>7. hearing[w] \in HeardReports /\ j \in Nat /\ tick + 1 \in Nat /\ j <= tick + 1
    BY <1>1, <2>6 DEF HeardReports
  <2>8. w \in Covered(j)
    BY <1>1, <2>4, <2>6, <2>7, CoveredInOrder
  <2>9. Windows(w) # {}
    BY <2>6, <2>8 DEF Windows
  <2> QED BY <1>1, <2>3, <2>4, <2>9 DEF Settled
<1>4. obs \in Range(TailObservations(Observations(hearing, tick + 1)))
  BY <1>1, <1>2, <1>3, DroppedIsReached
<1> QED BY <1>2, <1>4

\* And a new report is of a word that is not final.
LEMMA NewIsUnknown ==
  ASSUME WordsInOrder, WordsSteady, WordsSettle, OrderInv, NEW hearing, Hearing(hearing),
         NEW obs \in Range(TailObservations(Observations(hearing, tick + 1)))
  PROVE  ~Known(obs.of) /\ obs.norm = Speech[obs.of].norm
<1>1. /\ obs.of \in DOMAIN Speech /\ hearing[obs.of] \in HeardReports
      /\ obs.norm = Observation(obs.of, hearing[obs.of], 1).norm
  BY NewObservationIs
<1>2. obs.norm = Speech[obs.of].norm
  BY <1>1, TextIsSpoken
<1>3. ASSUME Known(obs.of) PROVE FALSE
  <2>1. PICK c \in Range(committed) : obs.of \in c.of
    BY <1>3 DEF Known
  <2>2. PICK w \in DOMAIN Speech : StandsFor(c, w)
    BY DEF OrderInv, WordInv
  <2>3. c.of = {obs.of} /\ c.norm = Speech[obs.of].norm
    BY <2>1, <2>2, TextIsSpoken DEF StandsFor
  <2> QED BY <1>2, <2>3, NewIsUncommitted
<1> QED BY <1>2, <1>3

\* The evidence of a window is added to that of the windows before.
LEMMA MergedSupport ==
  ASSUME tick \in Nat, tick' = tick + 1, NEW u, Token(u, tick),
         NEW w \in Covered(tick + 1), NEW r \in HeardReports,
         NEW obs, obs = Observation(w, r, tick + 1), Supported(u, w),
         NEW t, t = Merge(u, obs)
  PROVE  Supported(t, w)'
<1>1. w \in DOMAIN Speech
  BY DEF Covered
<1>2. /\ t.support = IF u.seen # tick THEN u.support + 1 ELSE u.support
      /\ t.total = u.total + obs.score /\ t.center = (u.center \/ obs.center)
      /\ t.full = (u.full \/ obs.full)
  BY DEF Merge
<1>3. u.seen # tick /\ u.support \in Nat
  BY DEF Token, Counted
<1>4. obs.score \in Nat /\ u.total \in Nat /\ MinScore \in Int
  <2>1. tick + 1 \in Nat
    OBVIOUS
  <2> QED BY <1>1, <2>1, ObservationScore, PrefixAssumption DEF Supported
<1>5. /\ Windows(w)' = Windows(w) \cup {tick + 1} /\ Cardinality(Windows(w)) \in Nat
      /\ Cardinality(Windows(w)') = Cardinality(Windows(w)) + 1
  BY WindowsGrow, WindowsOf
<1>6. t.support >= Cardinality(Windows(w)') /\ t.total \in Nat
  BY <1>2, <1>3, <1>4, <1>5 DEF Supported
<1>7. ASSUME NEW j \in Windows(w)', ShownWell(w, j)
      PROVE  t.center /\ (RequireFull => t.full) /\ t.total >= MinScore
  <2>1. CASE j = tick + 1
    <3>1. obs.center /\ (RequireFull => obs.full) /\ obs.score >= MinScore
      BY <1>7, <2>1 DEF ShownWell
    <3>2. t.total >= MinScore
      BY <1>2, <1>4, <3>1
    <3> QED BY <1>2, <3>1, <3>2
  <2>2. CASE j \in Windows(w)
    <3>1. u.center /\ (RequireFull => u.full) /\ u.total >= MinScore
      BY <1>7, <2>2 DEF Supported
    <3>2. t.total >= MinScore
      BY <1>2, <1>4, <3>1
    <3> QED BY <1>2, <3>1, <3>2
  <2> QED BY <1>5, <2>1, <2>2
<1>8. \A j : ShownWell(w, j)' <=> ShownWell(w, j)
  BY DEF ShownWell
<1> QED BY <1>6, <1>7, <1>8 DEF Supported

\* The evidence of the first window.
LEMMA NewSupport ==
  ASSUME tick \in Nat, tick' = tick + 1,
         NEW w \in Covered(tick + 1), NEW r \in HeardReports,
         NEW obs, obs = Observation(w, r, tick + 1), Windows(w) = {},
         NEW t, t = NewToken(obs)
  PROVE  Supported(t, w)'
<1>1. w \in DOMAIN Speech
  BY DEF Covered
<1>2. t.support = 1 /\ t.total = obs.score /\ t.center = obs.center /\ t.full = obs.full
  BY DEF NewToken
<1>3. obs.score \in Nat
  <2>1. tick + 1 \in Nat
    OBVIOUS
  <2> QED BY <1>1, <2>1, ObservationScore
<1>4. Windows(w)' = {tick + 1} /\ Cardinality(Windows(w)') = 1
  <2>1. Cardinality(Windows(w)) = 0
    BY FS_EmptySet
  <2>2. Windows(w)' = Windows(w) \cup {tick + 1} /\ Cardinality(Windows(w)') = 0 + 1
    BY <2>1, WindowsGrow
  <2> QED BY <2>2
<1>5. ASSUME NEW j \in Windows(w)', ShownWell(w, j)
      PROVE  t.center /\ (RequireFull => t.full) /\ t.total >= MinScore
  BY <1>2, <1>4, <1>5 DEF ShownWell
<1>6. \A j : ShownWell(w, j)' <=> ShownWell(w, j)
  BY DEF ShownWell
<1> QED BY <1>2, <1>3, <1>4, <1>5, <1>6 DEF Supported

\* The window hears all it covers.
Hears(hearing) == \A w \in Covered(tick + 1) : hearing[w].heard

\* What the proofs about one window go from.
Undisturbed(hearing) ==
    /\ OnceInv /\ Settled /\ LeftIsKnown
    /\ Hearing(hearing) /\ Ingest(hearing) /\ Hears(hearing)

\* Every token of the tail has a report to be merged with.
LEMMA TailIsReported ==
  ASSUME WordsApart, WordsInOrder, WordsDisjoint, WordsSteady, WordsSettle,
         NEW hearing, Undisturbed(hearing), NEW u \in Range(tail),
         NEW new, new = TailObservations(Observations(hearing, tick + 1))
  PROVE  \E j \in DOMAIN new : \E x \in DOMAIN NotSlid(tick + 1) :
            /\ u.of = {new[j].of} /\ NotSlid(tick + 1)[x] = u
            /\ <<x, j>> \in Align(NotSlid(tick + 1), new)
<1>1. OrderInv /\ Distinct(tail) /\ Hearing(hearing) /\ Settled /\ LeftIsKnown
  BY DEF Undisturbed, OnceInv
<1>2. ~SlidOut(u, tick + 1)
  BY <1>1, TailIsCovered
<1>3. PICK w \in DOMAIN Speech : StandsFor(u, w) /\ w \in Covered(tick + 1) /\ ~Known(w)
  BY <1>1, TailIsCovered
<1>4. hearing[w].heard
  BY <1>3 DEF Undisturbed, Hears
<1>5. PICK obs \in Range(new) : obs.of = w
  BY <1>1, <1>3, <1>4, UnknownIsNew
<1>6. obs.norm = Speech[w].norm
  BY <1>1, <1>5, NewIsUnknown
<1>7. PICK j \in DOMAIN new : obs = new[j]
  BY DEF Range
<1>8. u.of = {new[j].of} /\ u.norm = new[j].norm
  BY <1>3, <1>5, <1>6, <1>7, TextIsSpoken DEF StandsFor
<1> QED BY <1>1, <1>2, <1>7, <1>8, AlikeIsPaired

\* The new reports ascend, so each is of a word of its own.
LEMMA AscendingApart ==
  ASSUME NEW s, Sequence(s), Ascending(s), \A i \in DOMAIN s : s[i].of \in Nat,
         NEW i \in DOMAIN s, NEW j \in DOMAIN s, s[i].of = s[j].of
  PROVE  i = j
<1>1. DOMAIN s \subseteq Nat
  BY DEF Sequence
<1>2. ~(i < j) /\ ~(j < i)
  BY DEF Ascending
<1> QED BY <1>1, <1>2

\* So the tail after the window is the tokens of the words that it covers and
\* that are not final, each with the evidence of all the windows.
LEMMA NewTailSettled ==
  ASSUME WordsApart, WordsInOrder, WordsDisjoint, WordsSteady, WordsSettle,
         NEW hearing, Undisturbed(hearing)
  PROVE  LET next == NewTail(Observations(hearing, tick + 1), tick + 1)
         IN  /\ \A t \in Range(next) : \E w \in DOMAIN Speech :
                   /\ StandsFor(t, w) /\ w \in Covered(tick + 1)
                   /\ ~Known(w) /\ Supported(t, w)'
             /\ \A w \in Covered(tick + 1) :
                   Known(w) \/ \E t \in Range(next) : w \in t.of
<1> DEFINE k            == tick + 1
           observations == Observations(hearing, k)
           new          == TailObservations(observations)
           before       == CarriedForward(k)
<1>1. /\ OrderInv /\ WordInv /\ Hearing(hearing) /\ Settled /\ LeftIsKnown
      /\ Ingest(hearing) /\ Hears(hearing)
      /\ Sequence(tail) /\ tick \in Nat /\ tick' = tick + 1
      /\ \A t \in Range(tail) : Token(t, tick)
  BY DEF Undisturbed, OnceInv, OrderInv, WordInv, TextInv, TailTokens, Ingest
<1>2. Sequence(observations) /\ Sequence(new) /\ Ascending(new)
  BY ObservationWords, ObservationsAscend, TailObservationsAre
<1>3. \A o \in Range(new) :
        /\ o.of \in DOMAIN Speech /\ o.of \in Covered(k) /\ o.of \in Nat
        /\ hearing[o.of] \in HeardReports
        /\ o = Observation(o.of, hearing[o.of], k)
        /\ SameWord(o, Observation(o.of, hearing[o.of], 1))
        /\ ~Known(o.of)
  <2> TAKE o \in Range(new)
  <2>1. /\ o.of \in DOMAIN Speech /\ o.of \in Covered(k)
        /\ hearing[o.of] \in HeardReports /\ o \in Range(observations)
    BY <1>1, NewObservationIs
  <2>2. o = Observation(o.of, hearing[o.of], k)
    BY <2>1, ObservationWords
  <2>3. SameWord(o, Observation(o.of, hearing[o.of], 1))
    BY <2>2, ObservedAlike
  <2>4. ~Known(o.of)
    BY <1>1, NewIsUnknown
  <2> QED BY <2>1, <2>2, <2>3, <2>4, WordNumbers
<1>4. \A u \in Range(tail) : ~SlidOut(u, k) /\ ~Unpaired(u, k, new)
  <2> TAKE u \in Range(tail)
  <2>1. ~SlidOut(u, k)
    BY <1>1, TailIsCovered
  <2>2. PICK j \in DOMAIN new, x \in DOMAIN NotSlid(k) :
          NotSlid(k)[x] = u /\ <<x, j>> \in Align(NotSlid(k), new)
    BY TailIsReported
  <2>3. <<x, j>>[1] = x
    OBVIOUS
  <2> QED BY <2>1, <2>2, <2>3 DEF Unpaired
<1>5. \A u \in Range(tail) : \E j \in DOMAIN new : \E x \in DOMAIN NotSlid(k) :
         u.of = {new[j].of} /\ <<x, j>> \in Align(NotSlid(k), new)
  BY TailIsReported
<1>6. /\ Sequence(before)
      /\ \A t \in Range(before) : \E u \in Range(tail) : SlidOut(u, k)
  BY <1>1, CarriedParts
<1>7. \A t \in Range(NewTail(observations, k)) : \E w \in DOMAIN Speech : StandsFor(t, w)
  BY <1>1, NewTailStands DEF Hearing
<1>8. \A w \in Covered(k) : Known(w) \/ \E o \in Range(new) : o.of = w
  BY <1>1, UnknownIsNew DEF Hears
<1> HIDE DEF observations, new, before, k
<1>9. PICK f, g :
        /\ NewTail(observations, k) = before \o f \o g
        /\ Sequence(f) /\ DOMAIN f = DOMAIN new
        /\ \A j \in DOMAIN f : Paired(f[j], j, k, new)
        /\ Sequence(g)
        /\ \A t \in Range(g) : \E u \in Range(tail) : Unpaired(u, k, new)
  BY <1>1, <1>2, NewTailParts DEF new, before
<1>10. Range(NewTail(observations, k)) = Range(f)
  <2>1. Range(before) = {} /\ Range(g) = {}
    BY <1>4, <1>6, <1>9
  <2>2. Sequence(before \o f) /\ Range(before \o f) = Range(before) \cup Range(f)
    BY <1>6, <1>9, JoinElements
  <2>3. Range(before \o f \o g) = Range(before) \cup Range(f) \cup Range(g)
    BY <1>9, <2>2, JoinElements
  <2> QED BY <1>9, <2>1, <2>3
<1>11. \A j \in DOMAIN f : new[j] \in Range(new) /\ f[j] \in Range(f) /\ f[j].of = {new[j].of}
  <2> TAKE j \in DOMAIN f
  <2>1. new[j].of \in f[j].of
    BY <1>9 DEF Paired, Merge, NewToken
  <2>2. f[j] \in Range(f) /\ new[j] \in Range(new)
    BY <1>9 DEF Range
  <2>3. \E w : f[j].of = {w}
    BY <1>7, <1>10, <2>2 DEF StandsFor
  <2> QED BY <2>1, <2>2, <2>3
<1>12. \A j \in DOMAIN f : \E w \in DOMAIN Speech : w = new[j].of /\ Supported(f[j], w)'
  <2> TAKE j \in DOMAIN f
  <2>1. PICK o : o = new[j]
    OBVIOUS
  <2>2. PICK w \in Covered(k), r \in HeardReports :
          /\ w = new[j].of /\ w = o.of /\ w \in DOMAIN Speech /\ w \in Nat
          /\ o = Observation(w, r, k) /\ ~Known(w)
    BY <1>3, <1>11, <2>1
  <2>3. CASE \E u \in Range(tail) : f[j] = Merge(u, new[j]) /\ Similar(u, new[j])
    <3>1. PICK u \in Range(tail) : f[j] = Merge(u, o) /\ Similar(u, o)
      BY <2>1, <2>3
    <3>2. PICK v \in DOMAIN Speech : StandsFor(u, v) /\ Supported(u, v)
      BY <1>1, TailIsCovered
    <3>3. PICK q \in HeardReports : SameWord(u, Observation(v, q, 1))
      BY <3>2 DEF StandsFor
    <3>4. SameWord(o, Observation(w, r, 1))
      BY <2>2, ObservedAlike
    <3>5. v = w
      BY <2>2, <3>1, <3>3, <3>4, SimilarIsSame
    <3>6. Supported(f[j], w)'
      BY <1>1, <2>2, <3>1, <3>2, <3>5, MergedSupport DEF k
    <3> QED BY <2>2, <3>6
  <2>4. CASE /\ f[j] = NewToken(new[j])
             /\ \A i \in DOMAIN NotSlid(k) : <<i, j>> \notin Align(NotSlid(k), new)
    <3>1. ASSUME Windows(w) # {} PROVE FALSE
      <4>1. PICK u \in Range(tail) : w \in u.of
        BY <1>1, <2>2, <3>1 DEF Settled
      <4>2. PICK y \in DOMAIN new, x \in DOMAIN NotSlid(k) :
              u.of = {new[y].of} /\ <<x, y>> \in Align(NotSlid(k), new)
        BY <1>5
      <4>3. new[y].of = new[j].of
        BY <2>2, <4>1, <4>2
      <4>4. \A z \in DOMAIN new : new[z].of \in Nat
        BY <1>3 DEF Range
      <4>5. y = j
        BY <1>2, <1>9, <4>3, <4>4, AscendingApart
      <4> QED BY <2>4, <4>2, <4>5
    <3>2. Supported(f[j], w)'
      BY <1>1, <2>1, <2>2, <2>4, <3>1, NewSupport DEF k
    <3> QED BY <2>2, <3>2
  <2> QED BY <1>9, <2>3, <2>4 DEF Paired
<1>13. ASSUME NEW t \in Range(f)
       PROVE  \E w \in DOMAIN Speech : /\ StandsFor(t, w) /\ w \in Covered(k)
                                       /\ ~Known(w) /\ Supported(t, w)'
  <2>1. PICK j \in DOMAIN f : t = f[j]
    BY DEF Range
  <2>2. PICK w \in DOMAIN Speech : w = new[j].of /\ Supported(t, w)'
    BY <1>12, <2>1
  <2>3. t.of = {w} /\ w \in Covered(k) /\ ~Known(w)
    BY <1>3, <1>11, <2>1, <2>2
  <2>4. StandsFor(t, w)
    BY <1>7, <1>10, <2>3 DEF StandsFor
  <2> QED BY <2>2, <2>3, <2>4
<1>14. ASSUME NEW w \in Covered(k), ~Known(w) PROVE \E t \in Range(f) : w \in t.of
  <2>1. PICK o \in Range(new) : o.of = w
    BY <1>8, <1>14
  <2>2. PICK j \in DOMAIN f : o = new[j]
    BY <1>9 DEF Range
  <2> QED BY <1>11, <2>1, <2>2
<1> QED BY <1>10, <1>13, <1>14 DEF k, observations
\* The last window that covers a word finds its token ready.
LEMMA LastIsReady ==
  ASSUME WordsSettle, tick \in Nat, tick < MaxTick, tick' = tick + 1,
         NEW t, Token(t, tick + 1), NEW w \in DOMAIN Speech, StandsFor(t, w),
         Supported(t, w)', LastCovered(w, tick + 1)
  PROVE  Ready(t, tick + 1) /\ (RequireFull => WindowEnd(tick + 1) >= Window)
<1> DEFINE k      == tick + 1
           covers == {j \in 1 .. k : w \in Covered(j)}
<1>1. k \in 1 .. MaxTick
  BY PrefixAssumption
<1>2. /\ Cardinality(covers) >= Larger(MinSupport, LowSupport)
      /\ \E j \in covers : ShownWell(w, j)
      /\ \A r \in HeardReports : Observation(w, r, 1).end <= WindowEnd(k) - CommitLag
  BY <1>1 DEF WordsSettle
<1>3. Windows(w)' = covers /\ Cardinality(covers) \in Nat
  <2>1. Windows(w)' = covers
    BY DEF Windows
  <2>2. IsFiniteSet(1 .. k) /\ covers \subseteq 1 .. k
    BY <1>1, FS_Interval
  <2> HIDE DEF covers
  <2> QED BY <2>1, <2>2, FS_Subset, FS_CardinalityType
<1>4. PICK j \in covers : ShownWell(w, j)
  BY <1>2
<1>5. j \in Nat /\ j <= k /\ k \in Nat
  BY <1>1
<1> HIDE DEF covers, k
<1>6. t.support >= Cardinality(covers)
  BY <1>3 DEF Supported
<1>7. t.center /\ (RequireFull => t.full) /\ t.total >= MinScore
  <2>1. \A i : ShownWell(w, i)' <=> ShownWell(w, i)
    BY DEF ShownWell
  <2>2. j \in Windows(w)' /\ ShownWell(w, j)'
    BY <1>3, <1>4, <2>1
  <2>3. (\E i \in Windows(w) : ShownWell(w, i))'
    BY <2>2
  <2> QED BY <2>3 DEF Supported
<1>8. t.support >= MinSupport /\ t.support >= LowSupport
  <2>1. MinSupport \in Int /\ LowSupport \in Int
    BY PrefixAssumption
  <2>2. t.support \in Nat
    BY DEF Token, Counted
  <2> QED BY <1>2, <1>3, <1>6, <2>1, <2>2 DEF Larger
<1>9. PICK r \in HeardReports : SameWord(t, Observation(w, r, 1))
  BY DEF StandsFor
<1>10. t.end <= WindowEnd(k) - CommitLag
  BY <1>2, <1>9 DEF SameWord
<1>11. Ready(t, k)
  BY <1>7, <1>8, <1>10 DEF Ready, CanCommitAlone, EvidenceReady
<1>12. ASSUME RequireFull PROVE WindowEnd(k) >= Window
  <2>1. Observation(w, r, j).full
    BY <1>4, <1>9, <1>12 DEF ShownWell
  <2>2. WindowEnd(j) >= Window
    BY <2>1 DEF Observation
  <2>3. WindowEnd(j) <= WindowEnd(k)
    BY <1>5, WindowsMove
  <2>4. WindowEnd(j) \in Int /\ WindowEnd(k) \in Int /\ Window \in Int
    BY <1>5, PrefixAssumption DEF WindowEnd
  <2> QED BY <2>2, <2>3, <2>4
<1> QED BY <1>11, <1>12 DEF k

\* A word in front of one the window is the last to cover is such a word too.
LEMMA LastInOrder ==
  ASSUME WordsSettle, tick \in Nat, NEW v \in DOMAIN Speech, NEW w \in DOMAIN Speech, v <= w,
         v \in Covered(tick + 1), LastCovered(w, tick + 1)
  PROVE  LastCovered(v, tick + 1)
<1>1. Speech[v].start <= Speech[w].start
  <2>1. CASE v = w
    BY <2>1, SpokenAt
  <2>2. CASE v < w
    BY <2>2 DEF WordsSettle
  <2> QED BY <2>1, <2>2, WordNumbers
<1>2. Speech[w].start < WindowStart((tick + 1) + 1)
  BY DEF LastCovered
<1>3. WindowStart((tick + 1) + 1) \in Int
  BY Geometry
<1> QED BY <1>1, <1>2, <1>3, SpokenAt DEF LastCovered

\* So a word that no further window covers is committed by its last window.
LEMMA LastIsCommitted ==
  ASSUME WordsSettle, tick \in Nat, tick < MaxTick, tick' = tick + 1,
         NEW next, Sequence(next), Ordered(next), \A t \in Range(next) : Token(t, tick + 1),
         \A t \in Range(next) : \E w \in DOMAIN Speech :
            StandsFor(t, w) /\ w \in Covered(tick + 1) /\ Supported(t, w)',
         NEW t \in Range(next), NEW w \in t.of, LastCovered(w, tick + 1)
  PROVE  \E i \in 1 .. ReadyCount(next, tick + 1) : t = next[i]
<1>1. PICK i \in DOMAIN next : t = next[i]
  BY DEF Range
<1>2. DOMAIN next = 1 .. Len(next) /\ Len(next) \in Nat
  BY DEF Sequence
<1>3. \A x \in 1 .. i : /\ Ready(next[x], tick + 1)
                        /\ RequireFull => WindowEnd(tick + 1) >= Window
  <2> TAKE x \in 1 .. i
  <2>1. x \in DOMAIN next /\ (x = i \/ x < i) /\ next[x] \in Range(next)
    BY <1>1, <1>2 DEF Range
  <2>2. PICK v \in DOMAIN Speech :
          StandsFor(next[x], v) /\ v \in Covered(tick + 1) /\ Supported(next[x], v)'
    BY <2>1
  <2>3. v \in next[x].of
    BY <2>2 DEF StandsFor
  <2>4. v <= w /\ w \in DOMAIN Speech
    <3>1. PICK y \in DOMAIN Speech : t.of = {y}
      BY DEF StandsFor
    <3>2. CASE x = i
      <4>1. v = w
        BY <1>1, <2>3, <3>1, <3>2
      <4> QED BY <4>1, WordNumbers
    <3>3. CASE x < i
      BY <1>1, <2>1, <2>3, <3>1, <3>3 DEF Ordered, InOrder
    <3> QED BY <2>1, <3>1, <3>2, <3>3
  <2>5. LastCovered(v, tick + 1)
    BY <2>2, <2>4, LastInOrder
  <2> QED BY <2>1, <2>2, <2>5, LastIsReady
<1>4. ~(RequireFull /\ ~hasFull /\ WindowEnd(tick + 1) < Window)
  <2>1. i \in 1 .. i
    BY <1>2
  <2>2. WindowEnd(tick + 1) \in Int /\ Window \in Int
    BY PrefixAssumption DEF WindowEnd
  <2> QED BY <1>3, <2>1, <2>2
<1>5. i \in 1 .. ReadyCount(next, tick + 1)
  BY <1>3, <1>4, ReadyCountReaches
<1> QED BY <1>1, <1>5
\* The tokens that are committed are of the first words of the tail.
LEMMA ReadyAreFirst ==
  ASSUME WordsSettle, NEW next, Sequence(next), Ordered(next), Distinct(next),
         \A t \in Range(next) : \E w \in DOMAIN Speech : StandsFor(t, w),
         NEW n \in Nat, NEW first, first = {next[i] : i \in 1 .. n}, first \subseteq Range(next),
         NEW u \in first, NEW t \in Range(next), t \notin first,
         NEW v \in u.of, NEW w \in t.of
  PROVE  v < w
<1>1. DOMAIN next = 1 .. Len(next) /\ Len(next) \in Nat
  BY DEF Sequence
<1>2. PICK y \in DOMAIN next : t = next[y]
  BY DEF Range
<1>3. PICK i \in 1 .. n : u = next[i]
  OBVIOUS
<1>4. PICK a \in DOMAIN Speech, b \in DOMAIN Speech : StandsFor(u, a) /\ StandsFor(t, b)
  OBVIOUS
<1>5. v = a /\ w = b /\ u.of = {v} /\ t.of = {w} /\ v \in Nat /\ w \in Nat
  BY <1>4, WordNumbers DEF StandsFor
<1>6. u.norm = Speech[v].norm /\ t.norm = Speech[w].norm
  BY <1>4, <1>5, TextIsSpoken
<1>7. PICK x \in DOMAIN next : u = next[x] /\ x < y
  <2>1. PICK z \in DOMAIN next : u = next[z]
    BY DEF Range
  <2>2. CASE z < y
    BY <2>1, <2>2
  <2>3. CASE ~(z < y)
    <3>1. z # y /\ y < z
      BY <1>1, <1>2, <2>1, <2>3
    <3>2. y \notin 1 .. n
      BY <1>2
    <3>3. i < y
      BY <1>1, <3>2
    <3>4. i \in DOMAIN next
      BY <1>1, <3>3
    <3> QED BY <1>3, <3>3, <3>4
  <2> QED BY <2>2, <2>3
<1>8. v <= w
  <2>1. InOrder(next[x], next[y])
    BY <1>7 DEF Ordered
  <2> QED BY <1>2, <1>7, <2>1 DEF InOrder
<1>9. v # w
  <2>1. ~SameToken(next[x], next[y])
    BY <1>7 DEF Distinct
  <2> QED BY <1>2, <1>5, <1>6, <1>7, <2>1 DEF SameToken
<1> QED BY <1>5, <1>8, <1>9

\* What a window makes of the tail, and of the final text.
LEMMA IngestKnown ==
  ASSUME WordsApart, WordsInOrder, WordsDisjoint, WordsSteady, WordsSettle,
         NEW hearing, Undisturbed(hearing)
  PROVE  \E next :
         /\ \A t \in Range(next) : \E w \in DOMAIN Speech :
               /\ StandsFor(t, w) /\ w \in Covered(tick + 1)
               /\ ~Known(w) /\ Supported(t, w)'
         /\ \A w \in Covered(tick + 1) :
               Known(w) \/ \E t \in Range(next) : w \in t.of
         /\ \A t \in Range(next) : \A w \in t.of : LastCovered(w, tick + 1) => Known(w)'
         /\ \A t \in Range(tail') : t \in Range(next) /\ \A w \in t.of : ~Known(w)'
         /\ \A t \in Range(next) : t \in Range(tail') \/ \A w \in t.of : Known(w)'
         /\ \A w \in DOMAIN Speech :
               Known(w)' <=> Known(w) \/ \E t \in Range(next) : w \in t.of /\ Known(w)'
         /\ \A t, u \in Range(next) : \A v \in t.of, w \in u.of :
               v < w /\ Known(w)' => Known(v)'
<1> DEFINE next == NewTail(Observations(hearing, tick + 1), tick + 1)
<1>1. /\ OrderInv /\ TextInv /\ OnceInv /\ Hearing(hearing) /\ Ingest(hearing)
      /\ tick \in Nat /\ tick < MaxTick /\ tick' = tick + 1
      /\ Sequence(committed)
      /\ \A c \in Range(committed) : \E w \in DOMAIN Speech : StandsFor(c, w)
  BY DEF Undisturbed, OnceInv, OrderInv, WordInv, TextInv, TailTokens, Ingest
<1>2. /\ Ordered(next) /\ Distinct(next) /\ Follows(committed, next)
  BY <1>1, NewTailOrdered, NewTailDistinct
<1>3. /\ \A t \in Range(next) : \E w \in DOMAIN Speech :
            StandsFor(t, w) /\ w \in Covered(tick + 1) /\ ~Known(w) /\ Supported(t, w)'
      /\ \A w \in Covered(tick + 1) : Known(w) \/ \E t \in Range(next) : w \in t.of
  BY NewTailSettled
<1>4. Sequence(next) /\ \A t \in Range(next) : Token(t, tick + 1)
  BY <1>1, IngestParts
<1>5. PICK ready, rest :
        /\ Sequence(ready) /\ Range(ready) \subseteq Range(next)
        /\ Range(ready) = {next[i] : i \in 1 .. ReadyCount(next, tick + 1)}
        /\ Range(rest) \subseteq Range(next)
        /\ InFront(ready, rest, next)
        /\ \A t \in Range(next) :
             \/ t \in Range(ready)
             \/ t \in Range(rest)
             \/ (committed' # <<>> /\ ~(t.end > Last(committed').end))
        /\ Emit(committed \o Render(ready), rest)
  BY <1>1, IngestParts
<1>6. /\ Sequence(committed')
      /\ \A c \in Range(committed') : \E w \in DOMAIN Speech : StandsFor(c, w)
  <2>1. WordInv'
    BY <1>1, IngestWords DEF Hearing, OrderInv
  <2> QED BY <2>1 DEF WordInv, TextInv, StandsFor, Sequence
<1> HIDE DEF next
<1>8. /\ tail' = rest
      /\ \A c \in Range(committed') :
           c \in Range(committed) \/ \E t \in Range(ready) : c.of = t.of
      /\ Range(committed) \subseteq Range(committed')
      /\ \A t \in Range(ready) : \E c \in Range(committed') : c.of = t.of
  BY <1>1, <1>5, EmitTokens
<1>9. \A w : Known(w)' <=> Known(w) \/ \E t \in Range(ready) : w \in t.of
  BY <1>8 DEF Known
<1>10. \A u \in Range(ready) : \A t \in Range(next) :
          t \notin Range(ready) => \A v \in u.of, w \in t.of : v < w
  <2> SUFFICES ASSUME NEW u \in Range(ready), NEW t \in Range(next), t \notin Range(ready),
                      NEW v \in u.of, NEW w \in t.of
               PROVE  v < w
    OBVIOUS
  <2>1. ReadyCount(next, tick + 1) \in Nat
    BY <1>4, ReadyCountRange
  <2> QED BY <1>2, <1>3, <1>4, <1>5, <2>1, ReadyAreFirst
<1>11. \A t \in Range(rest) : t \in Range(next) /\ t \notin Range(ready)
  <2> SUFFICES ASSUME NEW t \in Range(rest), t \in Range(ready) PROVE FALSE
    BY <1>5
  <2>1. PICK x, y \in DOMAIN next : x < y /\ t = next[x] /\ t = next[y]
    BY <1>5 DEF InFront
  <2> QED BY <1>2, <2>1 DEF Distinct, SameToken
<1>12. \A t \in Range(next) : \A w \in t.of :
          /\ w \in Nat /\ w \in DOMAIN Speech /\ ~Known(w) /\ StandsFor(t, w)
          /\ w \in Covered(tick + 1) /\ t.of = {w}
  BY <1>3, WordNumbers DEF StandsFor
<1>13. \A t \in Range(next) : t \in Range(ready) \/ t \in Range(rest)
  <2> SUFFICES ASSUME NEW t \in Range(next), t \notin Range(ready),
                      committed' # <<>>, ~(t.end > Last(committed').end)
               PROVE  FALSE
    BY <1>5
  <2>1. PICK w \in DOMAIN Speech, r \in HeardReports :
          t.of = {w} /\ t.end = Observation(w, r, 1).end
    BY <1>3 DEF StandsFor, SameWord
  <2>2. PICK c \in Range(committed') : \E v \in c.of : v >= w
    BY <1>6, <2>1, NotPastIsReached
  <2>3. PICK v \in c.of : v >= w
    BY <2>2
  <2>4. w \in Nat /\ v \in Nat
    BY <1>6, WordNumbers DEF StandsFor
  <2>5. CASE c \in Range(committed)
    <3>1. v <= w
      BY <1>2, <2>1, <2>5 DEF Follows, InOrder
    <3>2. v = w
      BY <2>3, <2>4, <3>1
    <3>3. Known(w)
      BY <2>5, <3>2 DEF Known
    <3> QED BY <1>12, <2>1, <3>3
  <2>6. CASE \E u \in Range(ready) : c.of = u.of
    <3>1. v < w
      BY <1>10, <2>1, <2>6
    <3> QED BY <2>3, <2>4, <3>1
  <2> QED BY <1>8, <2>5, <2>6
<1>14. \A t \in Range(next) : \A w \in t.of : LastCovered(w, tick + 1) => Known(w)'
  <2> SUFFICES ASSUME NEW t \in Range(next), NEW w \in t.of, LastCovered(w, tick + 1)
               PROVE  Known(w)'
    OBVIOUS
  <2>1. \E i \in 1 .. ReadyCount(next, tick + 1) : t = next[i]
    BY <1>1, <1>2, <1>3, <1>4, LastIsCommitted
  <2> QED BY <1>5, <1>9, <2>1
<1>15. \A t \in Range(tail') : t \in Range(next) /\ \A w \in t.of : ~Known(w)'
  <2> SUFFICES ASSUME NEW t \in Range(rest) PROVE \A w \in t.of : ~Known(w)'
    BY <1>8, <1>11
  <2>1. \A w \in t.of : ~(w < w)
    BY <1>11, <1>12
  <2> QED BY <1>9, <1>10, <1>11, <1>12, <2>1
<1>16. \A t \in Range(next) : t \in Range(tail') \/ \A w \in t.of : Known(w)'
  BY <1>8, <1>9, <1>13
<1>17. \A w \in DOMAIN Speech :
          Known(w)' <=> Known(w) \/ \E t \in Range(next) : w \in t.of /\ Known(w)'
  BY <1>5, <1>9
<1>18. \A t, u \in Range(next) : \A v \in t.of, w \in u.of :
          v < w /\ Known(w)' => Known(v)'
  <2> SUFFICES ASSUME NEW t \in Range(next), NEW u \in Range(next), NEW v \in t.of,
                      NEW w \in u.of, v < w, Known(w)', t \notin Range(ready)
               PROVE  FALSE
    BY <1>9
  <2>1. PICK z \in Range(ready) : w \in z.of
    BY <1>9, <1>12
  <2>2. w < v /\ w \in Nat /\ v \in Nat
    BY <1>10, <1>12, <2>1
  <2> QED BY <2>2
<1> QED BY <1>3, <1>14, <1>15, <1>16, <1>17, <1>18
\* A window keeps all words settled.
LEMMA IngestSettled ==
  ASSUME WordsApart, WordsInOrder, WordsDisjoint, WordsSteady, WordsSettle,
         NEW hearing, Undisturbed(hearing)
  PROVE  Settled' /\ LeftIsKnown'
<1>1. /\ OrderInv /\ Settled /\ LeftIsKnown /\ Hearing(hearing) /\ Hears(hearing)
      /\ tick \in Nat /\ tick' = tick + 1 /\ tick + 1 \in Nat
  BY DEF Undisturbed, OnceInv, OrderInv, WordInv, TextInv, TailTokens, Ingest
<1>2. PICK next :
         /\ \A t \in Range(next) : \E w \in DOMAIN Speech :
               /\ StandsFor(t, w) /\ w \in Covered(tick + 1)
               /\ ~Known(w) /\ Supported(t, w)'
         /\ \A w \in Covered(tick + 1) :
               Known(w) \/ \E t \in Range(next) : w \in t.of
         /\ \A t \in Range(next) : \A w \in t.of : LastCovered(w, tick + 1) => Known(w)'
         /\ \A t \in Range(tail') : t \in Range(next) /\ \A w \in t.of : ~Known(w)'
         /\ \A t \in Range(next) : t \in Range(tail') \/ \A w \in t.of : Known(w)'
         /\ \A w \in DOMAIN Speech :
               Known(w)' <=> Known(w) \/ \E t \in Range(next) : w \in t.of /\ Known(w)'
         /\ \A t, u \in Range(next) : \A v \in t.of, w \in u.of :
               v < w /\ Known(w)' => Known(v)'
  BY IngestKnown
<1>3. \A t \in Range(next) : \A w \in t.of :
        w \in DOMAIN Speech /\ w \in Covered(tick + 1) /\ ~Known(w) /\ Supported(t, w)'
  BY <1>2 DEF StandsFor
<1>4. \A w : Windows(w)' = IF w \in Covered(tick + 1) THEN Windows(w) \cup {tick + 1}
                           ELSE Windows(w)
  BY <1>1, WindowsGrow
<1>5. \A t \in Range(tail') : \A w \in t.of :
        w \in Covered(tick') /\ ~Known(w)' /\ Supported(t, w)'
  BY <1>1, <1>2, <1>3
<1>6. \A w \in DOMAIN Speech : Known(w)' => Windows(w)' # {}
  <2> SUFFICES ASSUME NEW w \in DOMAIN Speech, Known(w)' PROVE Windows(w)' # {}
    OBVIOUS
  <2>1. CASE Known(w)
    <3>1. Windows(w) # {}
      BY <1>1, <2>1 DEF Settled
    <3> QED BY <1>4, <3>1
  <2>2. CASE \E t \in Range(next) : w \in t.of
    <3>1. w \in Covered(tick + 1)
      BY <1>3, <2>2
    <3> QED BY <1>4, <3>1
  <2> QED BY <1>2, <2>1, <2>2
\* A word some window has covered is final, or this window covers it.
<1>7. \A w \in DOMAIN Speech : Windows(w)' # {} =>
        Known(w) \/ (w \in Covered(tick + 1) /\ \E t \in Range(next) : w \in t.of)
  <2> SUFFICES ASSUME NEW w \in DOMAIN Speech, Windows(w)' # {}, ~Known(w)
               PROVE  w \in Covered(tick + 1) /\ \E t \in Range(next) : w \in t.of
    OBVIOUS
  <2>1. w \in Covered(tick + 1)
    BY <1>1, <1>4 DEF LeftIsKnown
  <2> QED BY <1>2, <2>1
<1>8. \A w \in DOMAIN Speech : Windows(w)' # {} =>
        Known(w)' \/ \E t \in Range(tail') : w \in t.of
  <2> SUFFICES ASSUME NEW w \in DOMAIN Speech, Windows(w)' # {}
               PROVE  Known(w)' \/ \E t \in Range(tail') : w \in t.of
    OBVIOUS
  <2>1. CASE Known(w)
    BY <1>2, <2>1
  <2>2. CASE \E t \in Range(next) : w \in t.of
    BY <1>2, <2>2
  <2> QED BY <1>7, <2>1, <2>2
<1>9. \A v, w \in DOMAIN Speech : v < w /\ Known(w)' /\ Windows(v)' # {} => Known(v)'
  <2> SUFFICES ASSUME NEW v \in DOMAIN Speech, NEW w \in DOMAIN Speech, v < w,
                      Known(w)', Windows(v)' # {}, ~Known(v)
               PROVE  Known(v)'
    BY <1>2
  <2>1. v \in Covered(tick + 1) /\ \E t \in Range(next) : v \in t.of
    BY <1>7
  <2>2. CASE Known(w)
    <3>1. PICK j \in Windows(w) : TRUE
      BY <1>1, <2>2 DEF Settled
    <3>2. j \in 1 .. tick /\ w \in Covered(j)
      BY DEF Windows
    <3>3. hearing[v] \in HeardReports /\ j \in Nat /\ j <= tick + 1
      BY <1>1, <2>1, <3>2 DEF HeardReports, Hears, Hearing
    <3>4. v \in Covered(j)
      BY <1>1, <2>1, <3>2, <3>3, CoveredInOrder
    <3>5. Windows(v) # {}
      BY <3>2, <3>4 DEF Windows
    <3> QED BY <1>1, <2>2, <3>5 DEF Settled
  <2>3. CASE \E t \in Range(next) : w \in t.of
    BY <1>2, <2>1, <2>3
  <2> QED BY <1>2, <2>2, <2>3
<1>10. Settled'
  BY <1>5, <1>6, <1>8, <1>9 DEF Settled
<1>11. \A w \in DOMAIN Speech :
         Windows(w)' # {} /\ w \notin Covered((tick + 1) + 1) => Known(w)'
  <2> SUFFICES ASSUME NEW w \in DOMAIN Speech, Windows(w)' # {},
                      w \notin Covered((tick + 1) + 1), ~Known(w)
               PROVE  Known(w)'
    BY <1>2
  <2>1. w \in Covered(tick + 1) /\ \E t \in Range(next) : w \in t.of
    BY <1>7
  <2>2. LastCovered(w, tick + 1)
    <3> DEFINE k == tick + 1
    <3>1. k \in Nat /\ k + 1 \in Nat /\ k <= k + 1
      BY <1>1
    <3> HIDE DEF k
    <3>2. /\ WindowEnd(k) <= WindowEnd(k + 1) /\ WindowEnd(k) \in Int
          /\ WindowEnd(k + 1) \in Int /\ WindowStart(k + 1) \in Int
      BY <3>1, WindowsMove, Geometry, PrefixAssumption DEF WindowEnd
    <3>3. Speech[w].end <= WindowEnd(k) /\ Speech[w].end \in Int /\ Speech[w].start \in Int
      BY <2>1, SpokenAt DEF Covered, k
    <3>4. ~(Speech[w].start >= WindowStart(k + 1) /\ Speech[w].end <= WindowEnd(k + 1))
      BY DEF Covered, k
    <3>5. Speech[w].start < WindowStart(k + 1)
      BY <3>2, <3>3, <3>4
    <3> QED BY <2>1, <3>5 DEF LastCovered, k
  <2> QED BY <1>2, <2>1, <2>2
<1>12. LeftIsKnown'
  BY <1>1, <1>11 DEF LeftIsKnown
<1> QED BY <1>10, <1>12

\* A window keeps the invariant.
LEMMA IngestSettle ==
  ASSUME WordsApart, WordsInOrder, WordsDisjoint, WordsSteady, WordsSettle, SettleInv,
         NEW hearing, Hearing(hearing), Ingest(hearing)
  PROVE  SettleInv'
<1>1. OnceInv'
  BY IngestOnce DEF SettleInv
<1>2. /\ \A w \in DOMAIN Speech : reports'[w] <= Cardinality(Windows(w)')
      /\ AllHeard' => AllHeard /\ Hears(hearing)
  BY CountsHeard DEF SettleInv, Hears
<1>3. ASSUME AllHeard' PROVE Settled' /\ LeftIsKnown'
  <2>1. Undisturbed(hearing)
    BY <1>2, <1>3 DEF Undisturbed, SettleInv, Ingest
  <2> QED BY <2>1, IngestSettled
<1> QED BY <1>1, <1>2, <1>3 DEF SettleInv

\* The end of the recording keeps it: the final text only grows.
LEMMA FlushSettle ==
  ASSUME SettleInv, Flush
  PROVE  SettleInv'
<1> DEFINE I     == {i \in DOMAIN tail : Flushable(tail[i])}
           ready == Among(tail, I)
<1>1. OnceInv' /\ Sequence(tail) /\ Sequence(committed)
  BY FlushOnce DEF SettleInv, OnceInv, OrderInv, WordInv, TextInv, TailTokens
<1>2. /\ tick' = tick /\ reports' = reports /\ flushed' = TRUE
      /\ Emit(committed \o Render(ready), <<>>)
  BY DEF Flush, Kept
<1>3. Sequence(ready)
  BY <1>1, KeptElements
<1> HIDE DEF ready
<1>4. Range(committed) \subseteq Range(committed')
  BY <1>1, <1>2, <1>3, EmitTokens
<1>5. \A w : Windows(w)' = Windows(w) /\ (Known(w) => Known(w)')
  BY <1>2, <1>4 DEF Windows, Known
<1>6. AllHeard' <=> AllHeard
  BY <1>2, <1>5 DEF AllHeard
<1>7. LeftIsKnown => LeftIsKnown'
  BY <1>2, <1>5 DEF LeftIsKnown
<1>8. \A w \in DOMAIN Speech : reports'[w] <= Cardinality(Windows(w)')
  BY <1>2, <1>5 DEF SettleInv
<1> QED BY <1>1, <1>2, <1>6, <1>7, <1>8 DEF SettleInv

\* An aggregator that has heard nothing satisfies the invariant.
LEMMA InitSettle == Init => SettleInv
<1> SUFFICES ASSUME Init PROVE SettleInv
  OBVIOUS
<1>1. OnceInv
  BY InitOnce
<1>2. \A w : Windows(w) = {}
  BY DEF Init, Windows
<1>3. \A w \in DOMAIN Speech : reports[w] <= Cardinality(Windows(w))
  <2>1. \A w \in DOMAIN Speech : reports[w] = 0
    BY DEF Init
  <2>2. \A w : Cardinality(Windows(w)) = 0
    BY <1>2, FS_EmptySet
  <2> QED BY <2>1, <2>2
<1>4. \A w : ~Known(w)
  BY DEF Init, Known, Range
<1>5. Range(tail) = {}
  BY DEF Init, Range
<1>6. LeftIsKnown /\ Settled
  BY <1>2, <1>4, <1>5 DEF LeftIsKnown, Settled
<1> QED BY <1>1, <1>3, <1>6 DEF SettleInv

\* Every step keeps it.
LEMMA NextSettle ==
  ASSUME WordsApart, WordsInOrder, WordsDisjoint, WordsSteady, WordsSettle
  PROVE  SettleInv /\ [Next]_vars => SettleInv'
<1> SUFFICES ASSUME SettleInv, [Next]_vars PROVE SettleInv'
  OBVIOUS
<1>1. CASE Hear
  <2>1. PICK heard \in [Covered(tick + 1) -> Reports] :
          Ingest([w \in DOMAIN Speech |-> IF w \in DOMAIN heard THEN heard[w] ELSE Missed])
    BY <1>1 DEF Hear
  <2> DEFINE hearing == [w \in DOMAIN Speech |->
                           IF w \in DOMAIN heard THEN heard[w] ELSE Missed]
  <2>2. Hearing(hearing)
    BY PrefixAssumption DEF Hearing
  <2>3. Ingest(hearing)
    BY <2>1
  <2> HIDE DEF hearing
  <2> QED BY <2>2, <2>3, IngestSettle
<1>2. CASE Flush
  BY <1>2, FlushSettle
<1>3. CASE UNCHANGED vars
  <2>1. OnceInv'
    BY <1>3, NextOnce DEF SettleInv
  <2>2. /\ committed' = committed /\ tail' = tail /\ tick' = tick
        /\ flushed' = flushed /\ reports' = reports
    BY <1>3 DEF vars
  <2>3. \A w : Windows(w)' = Windows(w) /\ (Known(w)' <=> Known(w))
    BY <2>2 DEF Windows, Known
  <2>4. \A t, w : Supported(t, w)' <=> Supported(t, w)
    <3>1. \A w, j : ShownWell(w, j)' <=> ShownWell(w, j)
      BY DEF ShownWell
    <3> QED BY <2>3, <3>1 DEF Supported
  <2>5. (AllHeard' <=> AllHeard) /\ (LeftIsKnown' <=> LeftIsKnown)
    BY <2>2, <2>3 DEF AllHeard, LeftIsKnown
  <2>6. Settled' <=> Settled
    BY <2>2, <2>3, <2>4 DEF Settled
  <2>7. \A w \in DOMAIN Speech : reports'[w] <= Cardinality(Windows(w)')
    BY <2>2, <2>3 DEF SettleInv
  <2> QED BY <2>1, <2>2, <2>5, <2>6, <2>7 DEF SettleInv
<1> QED BY <1>1, <1>2, <1>3 DEF Next

\* Nothing blocks the head of the tail: while every window reports all the
\* words it covers, a word that left the window is final, if besides each word
\* is covered long enough and well enough to be committed.
THEOREM HeardWordsAreFinal ==
  ASSUME WordsApart, WordsInOrder, WordsDisjoint, WordsSteady, WordsSettle
  PROVE  Spec => []HeardIsCommitted
<1>1. SettleInv => HeardIsCommitted
  <2> SUFFICES ASSUME SettleInv, AllHeard,
                      NEW w \in DOMAIN Speech, Speech[w].end <= WindowStart(tick)
               PROVE  Known(w)
    BY DEF HeardIsCommitted, AllHeard, Known
  <2>1. tick \in 0 .. MaxTick /\ tick \in Nat /\ MaxTick \in Nat
    BY PrefixAssumption DEF SettleInv, OnceInv, OrderInv, WordInv, TextInv, TypeOK
  <2>2. Speech[w].start \in Int /\ Speech[w].end \in Int /\ Speech[w].start < Speech[w].end
    BY SpokenAt DEF WordsSettle
  <2>3. Speech[w].end <= WindowStart(MaxTick)
    <3>1. /\ WindowStart(tick) <= WindowStart(MaxTick)
          /\ WindowStart(tick) \in Int /\ WindowStart(MaxTick) \in Int
      BY <2>1, WindowsMove, Geometry
    <3> QED BY <2>2, <3>1
  <2>4. PICK k \in 1 .. MaxTick : w \in Covered(k)
    BY <2>3 DEF WordsSettle
  <2>5. \A j \in Nat : w \in Covered(j) => j < tick
    <3> SUFFICES ASSUME NEW j \in Nat, w \in Covered(j), tick <= j PROVE FALSE
      BY <2>1
    <3>1. /\ WindowStart(tick) <= WindowStart(j)
          /\ WindowStart(tick) \in Int /\ WindowStart(j) \in Int
      BY <2>1, WindowsMove, Geometry
    <3>2. WindowStart(j) <= Speech[w].start
      BY <2>2, <3>1 DEF Covered
    <3> QED BY <2>2, <3>1, <3>2
  <2>6. k \in Windows(w)
    BY <2>1, <2>4, <2>5 DEF Windows
  <2>7. w \notin Covered(tick + 1)
    <3>1. tick + 1 \in Nat /\ ~(tick + 1 < tick)
      BY <2>1
    <3> QED BY <2>5, <3>1
  <2> QED BY <2>6, <2>7 DEF SettleInv, LeftIsKnown
<1> QED BY <1>1, InitSettle, NextSettle, PTL DEF Spec
=============================================================================
