----------------------------- MODULE Tree_proofs -----------------------------
(***************************************************************************)
(* Trees as graphs: what copying a node, hanging one, splitting an edge,   *)
(* merging a node with its only child and cutting a subtree make of a      *)
(* tree; and that Reach collects exactly the nodes of one.                 *)
(***************************************************************************)
EXTENDS RadixTrees, TLAPS, FiniteSetTheorems,
        WellFoundedInduction

\* T is the set of nodes of a tree with root r.  K[n] are the children of n
\* by label, and d grows along every edge.
IsTree(T, K, r, d) ==
    /\ r \in T /\ T \subseteq Nat \ {0} /\ d \in [Nat -> Nat]
    /\ \A n \in T : K[n] \in [Byte -> Nat]
    /\ \A n \in T, b \in Byte : K[n][b] # Nil =>
          K[n][b] \in T \ {r} /\ d[n] < d[K[n][b]]
    /\ \A n, m \in T, b, c \in Byte :
          K[n][b] # Nil /\ K[n][b] = K[m][c] => n = m /\ b = c
    /\ \A m \in T \ {r} : \E n \in T, b \in Byte : K[n][b] = m


\* A set of numbers has a least element.
LEMMA LeastNumber ==
    ASSUME NEW D \in SUBSET Nat, D # {}
    PROVE  \E k \in D : \A j \in D : k <= j
  <1> DEFINE R == OpToRel(<, Nat)
  <1>1. PICK k \in D : \A j \in D : ~(<<j, k>> \in R)
    <2>1. IsWellFoundedOn(R, Nat)
      BY NatLessThanWellFounded
    <2> HIDE DEF R
    <2> QED BY <2>1, WFMin
  <1>2. \A j \in D : ~(j < k)
    BY <1>1 DEF OpToRel
  <1> QED BY <1>2

\* Everything that is closed under children and holds the root holds the tree.
LEMMA TreeLeast ==
    ASSUME NEW T, NEW K, NEW r, NEW d, IsTree(T, K, r, d), NEW S, r \in S,
           \A n \in S \cap T, b \in Byte : K[n][b] # Nil => K[n][b] \in S
    PROVE  T \subseteq S
  <1> SUFFICES ASSUME T \ S # {} PROVE FALSE
    OBVIOUS
  <1> DEFINE D == {d[n] : n \in T \ S}
  <1>1. D # {} /\ D \subseteq Nat
    <2>1. PICK x \in T \ S : TRUE
      OBVIOUS
    <2>2. d[x] \in D
      BY <2>1
    <2>3. \A n \in T : d[n] \in Nat
      BY DEF IsTree
    <2> QED BY <2>2, <2>3
  <1>2. PICK m \in T \ S : \A n \in T \ S : d[m] <= d[n]
    <2>1. PICK k \in D : \A j \in D : k <= j
      BY <1>1, LeastNumber
    <2> QED BY <2>1
  <1>3. PICK n \in T, b \in Byte : K[n][b] = m
    BY <1>2 DEF IsTree
  <1>4. m # Nil /\ d[n] < d[m] /\ d[n] \in Nat /\ d[m] \in Nat
    BY <1>3 DEF IsTree, Nil
  <1>5. n \in S
    BY <1>2, <1>4
  <1> QED BY <1>2, <1>3, <1>4, <1>5

\* A root has one tree.
LEMMA TreeUnique ==
    ASSUME NEW T, NEW U, NEW K, NEW r, NEW d, NEW e,
           IsTree(T, K, r, d), IsTree(U, K, r, e)
    PROVE  T = U
  <1>1. /\ r \in T
        /\ \A n \in T \cap U, b \in Byte : K[n][b] # Nil => K[n][b] \in T
    BY DEF IsTree
  <1>2. /\ r \in U
        /\ \A n \in U \cap T, b \in Byte : K[n][b] # Nil => K[n][b] \in U
    BY DEF IsTree
  <1>3. T \subseteq U
    BY <1>2, TreeLeast
  <1>4. U \subseteq T
    BY <1>1, TreeLeast
  <1> QED BY <1>3, <1>4

-----------------------------------------------------------------------------
(* Reach *)

\* One level further down.
Further(S) == S \cup UNION {{Kid(m, b) : b \in Labels(m)} : m \in S}

\* The paths of k steps along child pointers, or of waiting, from n.
Paths(n, k) ==
    {p \in [0..k -> Nodes] :
       /\ p[0] = n
       /\ \A i \in 0..(k - 1) : \/ p[i + 1] = p[i]
                                \/ \E b \in Labels(p[i]) : p[i + 1] = Kid(p[i], b)}

KidsInHeap == \A m \in Nodes : \A b \in Labels(m) : Kid(m, b) \in Nodes

\* There is a function that satisfies the equation Reach is defined by: the
\* nodes that paths of k steps lead to.
LEMMA LevelsExist ==
    ASSUME NEW n \in Nodes, NEW N \in Nat, KidsInHeap
    PROVE  \E f : f = [k \in 0..N |-> IF k = 0 THEN {n} ELSE Further(f[k - 1])]
  <1> DEFINE f == [k \in 0..N |-> {p[k] : p \in Paths(n, k)}]
  <1>1. f[0] = {n}
    <2>1. [i \in 0..0 |-> n] \in Paths(n, 0)
      BY DEF Paths
    <2>2. \A p \in Paths(n, 0) : p[0] = n
      BY DEF Paths
    <2> QED BY <2>1, <2>2
  <1>2. ASSUME NEW k \in 1..N
        PROVE  f[k] = Further(f[k - 1])
    <2>0. k \in Nat /\ k - 1 \in 0..N /\ k \in 0..N /\ k - 1 \in Nat /\ k >= 1
      OBVIOUS
    <2>1. ASSUME NEW x \in f[k]
          PROVE  x \in Further(f[k - 1])
      <3>1. PICK p \in Paths(n, k) : x = p[k]
        BY <2>0
      <3> DEFINE q == [i \in 0..(k - 1) |-> p[i]]
      <3>2. q \in Paths(n, k - 1) /\ q[k - 1] = p[k - 1]
        <4>1. p \in [0..k -> Nodes] /\ p[0] = n
          BY DEF Paths
        <4>2. \A i \in 0..(k - 1) : q[i] = p[i]
          OBVIOUS
        <4>3. q \in [0..(k - 1) -> Nodes] /\ 0 \in 0..(k - 1)
              /\ k - 1 \in 0..(k - 1)
          BY <2>0, <4>1
        <4>4. ASSUME NEW i \in 0..((k - 1) - 1)
              PROVE  \/ q[i + 1] = q[i]
                     \/ \E b \in Labels(q[i]) : q[i + 1] = Kid(q[i], b)
          <5>1. i \in 0..(k - 1) /\ i + 1 \in 0..(k - 1)
            BY <2>0
          <5>2. \/ p[i + 1] = p[i]
                \/ \E b \in Labels(p[i]) : p[i + 1] = Kid(p[i], b)
            BY <5>1 DEF Paths
          <5>3. q[i] = p[i] /\ q[i + 1] = p[i + 1]
            BY <4>2, <5>1
          <5> HIDE DEF q
          <5> QED BY <5>2, <5>3
        <4> HIDE DEF q
        <4> QED BY <4>1, <4>2, <4>3, <4>4 DEF Paths
      <3>3. p[k - 1] \in f[k - 1]
        BY <2>0, <3>2
      <3>4. \/ p[k] = p[k - 1]
            \/ \E b \in Labels(p[k - 1]) : p[k] = Kid(p[k - 1], b)
        <4>1. k - 1 \in 0..(k - 1) /\ (k - 1) + 1 = k
          BY <2>0
        <4> QED BY <4>1 DEF Paths
      <3> QED BY <3>1, <3>3, <3>4 DEF Further
    <2>2. ASSUME NEW x \in Further(f[k - 1])
          PROVE  x \in f[k]
      <3>1. PICK m \in f[k - 1] :
              x = m \/ \E b \in Labels(m) : x = Kid(m, b)
        BY DEF Further
      <3>2. PICK q \in Paths(n, k - 1) : m = q[k - 1]
        BY <2>0, <3>1
      <3>3. m \in Nodes /\ x \in Nodes
        BY <2>0, <3>1, <3>2 DEF Paths, KidsInHeap
      <3> DEFINE p == [i \in 0..k |-> IF i = k THEN x ELSE q[i]]
      <3>4. p \in [0..k -> Nodes] /\ p[0] = n /\ p[k] = x /\ p[k - 1] = m
            /\ \A i \in 0..(k - 1) : p[i] = q[i]
        BY <2>0, <3>2, <3>3 DEF Paths
      <3>5. ASSUME NEW i \in 0..(k - 1)
            PROVE  \/ p[i + 1] = p[i]
                   \/ \E b \in Labels(p[i]) : p[i + 1] = Kid(p[i], b)
        <4>1. CASE i = k - 1
          <5>1. i + 1 = k
            BY <2>0, <4>1
          <5> HIDE DEF p
          <5> QED BY <3>1, <3>4, <4>1, <5>1
        <4>2. CASE i # k - 1
          <5>1. i \in 0..((k - 1) - 1) /\ i + 1 \in 0..(k - 1)
            BY <2>0, <4>2
          <5>2. \/ q[i + 1] = q[i]
                \/ \E b \in Labels(q[i]) : q[i + 1] = Kid(q[i], b)
            BY <5>1 DEF Paths
          <5>3. p[i] = q[i] /\ p[i + 1] = q[i + 1]
            BY <3>4, <5>1
          <5> HIDE DEF p
          <5> QED BY <5>2, <5>3
        <4> QED BY <4>1, <4>2
      <3> HIDE DEF p
      <3>6. p \in Paths(n, k)
        BY <3>4, <3>5 DEF Paths
      <3> QED BY <2>0, <3>4, <3>6
    <2> QED BY <2>1, <2>2
  <1>3. ASSUME NEW k \in 0..N
        PROVE  f[k] = IF k = 0 THEN {n} ELSE Further(f[k - 1])
    <2>1. k = 0 \/ k \in 1..N
      OBVIOUS
    <2> HIDE DEF f
    <2> QED BY <1>1, <1>2, <2>1
  <1>4. f = [k \in 0..N |-> IF k = 0 THEN {n} ELSE Further(f[k - 1])]
    <2>1. f = [k \in 0..N |-> f[k]]
      OBVIOUS
    <2> HIDE DEF f
    <2> QED BY <1>3, <2>1, Zenon
  <1> QED BY <1>4, Zenon

\* Reach by its levels.
LEMMA ReachLevels ==
    ASSUME heap \in Seq(NodeType), KidsInHeap, NEW n \in Nodes
    PROVE  \E f : /\ f[0] = {n} /\ Reach(n) = f[Len(heap)]
                  /\ \A k \in 1..Len(heap) : f[k] = Further(f[k - 1])
  <1> DEFINE N == Len(heap)
             f == CHOOSE g : g = [k \in 0..N |-> IF k = 0 THEN {n}
                                                 ELSE Further(g[k - 1])]
  <1>1. N \in Nat
    OBVIOUS
  <1>2. f = [k \in 0..N |-> IF k = 0 THEN {n} ELSE Further(f[k - 1])]
    <2>1. \E g : g = [k \in 0..N |-> IF k = 0 THEN {n} ELSE Further(g[k - 1])]
      BY <1>1, LevelsExist
    <2> QED BY <2>1
  <1>3. Reach(n) = f[N]
    BY DEF Reach, Further
  <1> HIDE DEF f
  <1>4. f[0] = {n} /\ \A k \in 1..N : f[k] = Further(f[k - 1])
    <2>1. 0 \in 0..N /\ \A k \in 1..N : k \in 0..N /\ k # 0
      BY <1>1
    <2> QED BY <1>2, <2>1
  <1> QED BY <1>3, <1>4

\* Reach(n) is within every set of nodes that holds n and the children of its
\* members.
LEMMA ReachLeast ==
    ASSUME heap \in Seq(NodeType), KidsInHeap, NEW n \in Nodes, NEW S, n \in S,
           \A m \in S : \A b \in Labels(m) : Kid(m, b) \in S
    PROVE  Reach(n) \subseteq S
  <1> DEFINE N == Len(heap)
  <1>1. PICK f : /\ f[0] = {n} /\ Reach(n) = f[N]
                 /\ \A k \in 1..N : f[k] = Further(f[k - 1])
    BY ReachLevels
  <1>2. N \in Nat
    OBVIOUS
  <1> HIDE DEF N
  <1> SUFFICES ASSUME ~(f[N] \subseteq S) PROVE FALSE
    BY <1>1
  <1> DEFINE D == {k \in 0..N : ~(f[k] \subseteq S)}
  <1>3. PICK k \in D : \A j \in D : k <= j
    <2>1. D \subseteq Nat /\ N \in D
      BY <1>2
    <2> HIDE DEF D
    <2> QED BY <2>1, LeastNumber
  <1>4. k # 0
    BY <1>1
  <1>5. k \in 1..N /\ k - 1 \in 0..N /\ k - 1 < k
    BY <1>2, <1>3, <1>4
  <1>6. f[k - 1] \subseteq S
    BY <1>2, <1>3, <1>5
  <1>7. Further(f[k - 1]) \subseteq S
    BY <1>6 DEF Further
  <1> QED BY <1>1, <1>3, <1>5, <1>7

\* Reach(n) holds n and is closed: with every level that is not, there would be
\* a node more, and there are not that many.
LEMMA ReachClosed ==
    ASSUME heap \in Seq(NodeType), KidsInHeap, NEW n \in Nodes
    PROVE  /\ n \in Reach(n) /\ Reach(n) \subseteq Nodes
           /\ \A m \in Reach(n) : \A b \in Labels(m) : Kid(m, b) \in Reach(n)
  <1> DEFINE N == Len(heap)
  <1>1. PICK f : /\ f[0] = {n} /\ Reach(n) = f[N]
                 /\ \A k \in 1..N : f[k] = Further(f[k - 1])
    BY ReachLevels
  <1>2. N \in Nat /\ Nodes = 1..N
    BY DEF Nodes
  <1>3. Reach(n) \subseteq Nodes
    BY ReachLeast DEF KidsInHeap
  <1> HIDE DEF N
  <1>4. \A k \in 1..N : f[k - 1] \subseteq f[k]
    BY <1>1 DEF Further
  <1>5. \A k \in 0..N : f[k] \subseteq f[N]
    <2> SUFFICES ASSUME NEW k0 \in 0..N, ~(f[k0] \subseteq f[N]) PROVE FALSE
      OBVIOUS
    <2> DEFINE D == {N - k : k \in {j \in 0..N : ~(f[j] \subseteq f[N])}}
    <2>1. D \subseteq Nat /\ N - k0 \in D
      BY <1>2
    <2>2. PICK e \in D : \A j \in D : e <= j
      <3> HIDE DEF D
      <3> QED BY <2>1, LeastNumber
    <2>3. PICK k \in 0..N : e = N - k /\ ~(f[k] \subseteq f[N])
      BY <2>2
    <2>4. k # N
      BY <2>3
    <2>5. k + 1 \in 1..N /\ (k + 1) - 1 = k /\ k + 1 \in 0..N
          /\ N - (k + 1) < e
      BY <1>2, <2>3, <2>4
    <2>6. f[k + 1] \subseteq f[N]
      <3> SUFFICES ASSUME ~(f[k + 1] \subseteq f[N]) PROVE FALSE
        OBVIOUS
      <3>1. N - (k + 1) \in D
        BY <2>5
      <3>2. e <= N - (k + 1)
        BY <2>2, <3>1
      <3>3. e \in Nat /\ N - (k + 1) \in Nat
        BY <2>1, <2>2, <3>1
      <3> QED BY <2>5, <3>2, <3>3
    <2>7. f[k] \subseteq f[k + 1]
      BY <1>4, <2>5
    <2> QED BY <2>3, <2>6, <2>7
  <1>6. ASSUME NEW k \in 0..N, Further(f[k]) \subseteq f[k]
        PROVE  f[N] \subseteq f[k]
    <2>1. f[k] \subseteq f[N] /\ f[k] \subseteq Nodes
      BY <1>1, <1>3, <1>5
    <2>2. n \in f[k]
      <3>1. k = 0 \/ (k \in 1..N)
        BY <1>2
      <3> DEFINE D == {j \in 0..N : n \notin f[j]}
      <3>2. SUFFICES ASSUME D # {} PROVE FALSE
        OBVIOUS
      <3>3. PICK j \in D : \A i \in D : j <= i
        <4>1. D \subseteq Nat
          BY <1>2
        <4> HIDE DEF D
        <4> QED BY <3>2, <4>1, LeastNumber
      <3>4. j # 0
        BY <1>1
      <3>5. j \in 1..N /\ j - 1 \in 0..N /\ j - 1 < j
        BY <1>2, <3>3, <3>4
      <3>6. n \in f[j - 1]
        <4>1. j - 1 \notin D
          BY <1>2, <3>3, <3>5
        <4> QED BY <3>5, <4>1
      <3>7. n \notin f[j]
        BY <3>3
      <3> QED BY <1>4, <3>5, <3>6, <3>7
    <2>3. \A m \in f[k] : \A b \in Labels(m) : Kid(m, b) \in f[k]
      BY <1>6 DEF Further
    <2> QED BY <1>1, <2>2, <2>3, ReachLeast
  <1>7. Further(f[N]) \subseteq f[N]
    <2> SUFFICES ASSUME ~(Further(f[N]) \subseteq f[N]) PROVE FALSE
      OBVIOUS
    <2>1. ASSUME NEW k \in 0..N
          PROVE  ~(Further(f[k]) \subseteq f[k])
      <3> SUFFICES ASSUME Further(f[k]) \subseteq f[k] PROVE FALSE
        OBVIOUS
      <3>1. f[N] = f[k]
        BY <1>5, <1>6
      <3> QED BY <3>1
    <2>2. IsFiniteSet(Nodes) /\ Cardinality(Nodes) = N
      BY <1>2, FS_Interval
    <2>3. ASSUME NEW k \in 0..N
          PROVE  IsFiniteSet(f[k]) /\ Cardinality(f[k]) \in Nat
      <3>1. f[k] \subseteq Nodes
        BY <1>1, <1>3, <1>5
      <3> QED BY <2>2, <3>1, FS_Subset, FS_CardinalityType
    <2> DEFINE D == {k \in 0..N : Cardinality(f[k]) < k + 1}
    <2>4. N \in D
      <3>1. f[N] \subseteq Nodes
        BY <1>1, <1>3
      <3>2. Cardinality(f[N]) <= N
        BY <2>2, <3>1, FS_Subset
      <3>3. N \in 0..N
        BY <1>2
      <3> QED BY <1>2, <2>3, <3>2, <3>3
    <2>5. PICK k \in D : \A j \in D : k <= j
      <3>1. D \subseteq Nat
        BY <1>2
      <3> HIDE DEF D
      <3> QED BY <2>4, <3>1, LeastNumber
    <2>6. k # 0
      <3>1. Cardinality(f[0]) = 1
        BY <1>1, FS_Singleton
      <3>2. Cardinality(f[k]) < k + 1
        BY <2>5
      <3> HIDE DEF D
      <3> QED BY <3>1, <3>2
    <2>7. k \in 1..N /\ k - 1 \in 0..N /\ k - 1 < k /\ k \in 0..N
      BY <1>2, <2>5, <2>6
    <2>8. Cardinality(f[k - 1]) >= k
      <3>1. k - 1 \notin D
        <4>1. k \in Nat /\ k - 1 \in Nat
          BY <1>2, <2>7
        <4> HIDE DEF D
        <4> QED BY <2>5, <2>7, <4>1
      <3>2. Cardinality(f[k - 1]) \in Nat
        BY <2>3, <2>7
      <3>3. ~(Cardinality(f[k - 1]) < (k - 1) + 1)
        BY <2>7, <3>1
      <3>4. k \in Nat
        BY <1>2, <2>7
      <3> HIDE DEF D
      <3> QED BY <3>2, <3>3, <3>4
    <2>9. Cardinality(f[k]) > Cardinality(f[k - 1])
      <3>1. f[k - 1] \subseteq f[k] /\ f[k - 1] # f[k]
        BY <1>1, <1>4, <2>1, <2>7
      <3>2. /\ Cardinality(f[k - 1]) <= Cardinality(f[k])
            /\ Cardinality(f[k - 1]) = Cardinality(f[k]) => f[k - 1] = f[k]
        BY <2>3, <2>7, <3>1, FS_Subset
      <3>3. Cardinality(f[k - 1]) \in Nat /\ Cardinality(f[k]) \in Nat
        BY <2>3, <2>7
      <3> QED BY <3>1, <3>2, <3>3
    <2>10. Cardinality(f[k - 1]) \in Nat /\ Cardinality(f[k]) \in Nat /\ k \in Nat
      BY <2>3, <2>7
    <2>11. Cardinality(f[k]) < k + 1
      BY <2>5
    <2> HIDE DEF D
    <2> QED BY <2>8, <2>9, <2>10, <2>11
  <1>8. 0 \in 0..N
    BY <1>2
  <1> QED BY <1>1, <1>3, <1>5, <1>7, <1>8 DEF Further

\* What Reach finds from the root of a tree is that tree.
LEMMA ReachOfTree ==
    ASSUME heap \in Seq(NodeType), KidsInHeap, NEW T, NEW K, NEW r, NEW d,
           T \subseteq Nodes, IsTree(T, K, r, d),
           \A n \in T : K[n] = heap[n].kids
    PROVE  Reach(r) = T
  <1>1. r \in T /\ r \in Nodes
    BY DEF IsTree
  <1>2. \A m \in T : \A b \in Labels(m) : Kid(m, b) \in T
    <2>1. \A n \in T, b \in Byte : K[n][b] # Nil => K[n][b] \in T
      BY DEF IsTree
    <2> QED BY <2>1 DEF Labels, Kid
  <1>3. Reach(r) \subseteq T
    BY <1>1, <1>2, ReachLeast
  <1>4. /\ r \in Reach(r)
        /\ \A m \in Reach(r) : \A b \in Labels(m) : Kid(m, b) \in Reach(r)
    BY <1>1, ReachClosed
  <1>5. \A n \in Reach(r) \cap T, b \in Byte :
           K[n][b] # Nil => K[n][b] \in Reach(r)
    BY <1>4 DEF Labels, Kid
  <1>6. T \subseteq Reach(r)
    BY <1>4, <1>5, TreeLeast
  <1> QED BY <1>3, <1>6

-----------------------------------------------------------------------------
(* What the write path does to trees *)

\* The parts of IsTree.
LEMMA TreeParts ==
    ASSUME NEW T, NEW K, NEW r, NEW d, IsTree(T, K, r, d)
    PROVE  /\ r \in T /\ T \subseteq Nat \ {0} /\ d \in [Nat -> Nat]
           /\ \A n \in T : n \in Nat /\ n # Nil /\ d[n] \in Nat
           /\ \A n \in T : K[n] \in [Byte -> Nat]
           /\ \A n \in T, b \in Byte : K[n][b] # Nil =>
                 /\ K[n][b] \in T /\ K[n][b] # r /\ K[n][b] # n
                 /\ d[n] < d[K[n][b]]
           /\ \A n, m \in T, b, c \in Byte :
                 K[n][b] # Nil /\ K[n][b] = K[m][c] => n = m /\ b = c
           /\ \A m \in T \ {r} : \E n \in T, b \in Byte : K[n][b] = m
  <1>1. /\ r \in T /\ T \subseteq Nat \ {0} /\ d \in [Nat -> Nat]
        /\ \A n \in T : K[n] \in [Byte -> Nat]
        /\ \A n, m \in T, b, c \in Byte :
              K[n][b] # Nil /\ K[n][b] = K[m][c] => n = m /\ b = c
        /\ \A m \in T \ {r} : \E n \in T, b \in Byte : K[n][b] = m
    BY DEF IsTree
  <1>2. \A n \in T : n \in Nat /\ n # Nil /\ d[n] \in Nat
    BY <1>1 DEF Nil
  <1>3. ASSUME NEW n \in T, NEW b \in Byte, K[n][b] # Nil
        PROVE  /\ K[n][b] \in T /\ K[n][b] # r /\ K[n][b] # n
               /\ d[n] < d[K[n][b]]
    <2>1. K[n][b] \in T \ {r} /\ d[n] < d[K[n][b]]
      BY <1>3 DEF IsTree
    <2>2. d[n] \in Nat
      BY <1>2
    <2> QED BY <2>1, <2>2
  <1> QED BY <1>1, <1>2, <1>3

\* What a tree is depends on its own nodes' children only.
LEMMA TreeSame ==
    ASSUME NEW T, NEW K, NEW J, NEW r, NEW d, IsTree(T, K, r, d),
           \A n \in T : J[n] = K[n]
    PROVE  IsTree(T, J, r, d)
  BY DEF IsTree

\* Where n hangs in the tree: it is the root, or p's child under l.
HangsAt(T, K, r, p, l, n) ==
    IF p = Nil THEN n = r ELSE p \in T /\ l \in Byte /\ K[p][l] = n

\* J is K after the new node c has taken n's place.
Replaces(T, K, J, p, l, n, c) ==
    /\ n \in T /\ c \in Nat \ {Nil} /\ c \notin T /\ J[c] = K[n]
    /\ \A k \in T \ {n} : J[k] = IF k = p THEN [K[k] EXCEPT ![l] = c] ELSE K[k]

\* A copy c takes n's place.
LEMMA TreeReplace ==
    ASSUME NEW T, NEW K, NEW J, NEW r, NEW d, IsTree(T, K, r, d),
           NEW n, NEW c, NEW p, NEW l, HangsAt(T, K, r, p, l, n),
           Replaces(T, K, J, p, l, n, c)
    PROVE  IsTree((T \ {n}) \cup {c}, J, IF p = Nil THEN c ELSE r,
                  [d EXCEPT ![c] = d[n]])
  <1> DEFINE U == (T \ {n}) \cup {c}
             s == IF p = Nil THEN c ELSE r
             e == [d EXCEPT ![c] = d[n]]
             old == [x \in U |-> IF x = c THEN n ELSE x]
  <1>0. /\ n \in T /\ c \in Nat \ {Nil} /\ c \notin T /\ J[c] = K[n]
        /\ \A k \in T \ {n} : J[k] = IF k = p THEN [K[k] EXCEPT ![l] = c]
                                              ELSE K[k]
    BY DEF Replaces
  <1> USE <1>0
  <1>1. /\ r \in T /\ T \subseteq Nat \ {0} /\ d \in [Nat -> Nat]
        /\ \A k \in T : k \in Nat /\ k # Nil /\ d[k] \in Nat
        /\ \A k \in T : K[k] \in [Byte -> Nat]
        /\ \A k \in T, b \in Byte : K[k][b] # Nil =>
              /\ K[k][b] \in T /\ K[k][b] # r /\ K[k][b] # k
              /\ d[k] < d[K[k][b]]
    BY TreeParts
  <1>2. /\ \A k, m \in T, b, f \in Byte :
              K[k][b] # Nil /\ K[k][b] = K[m][f] => k = m /\ b = f
        /\ \A m \in T \ {r} : \E k \in T, b \in Byte : K[k][b] = m
    BY TreeParts
  <1>3. p # n /\ (p = Nil <=> n = r) /\ n # Nil
        /\ (p # Nil => p \in T /\ l \in Byte /\ K[p][l] = n)
    <2>1. n # Nil /\ n \in T
      BY <1>1
    <2>2. CASE p = Nil
      BY <2>1, <2>2 DEF HangsAt
    <2>3. CASE p # Nil
      <3>1. p \in T /\ l \in Byte /\ K[p][l] = n
        BY <2>3 DEF HangsAt
      <3>2. K[p][l] # r /\ K[p][l] # p
        BY <1>1, <2>1, <3>1
      <3> QED BY <2>1, <2>3, <3>1, <3>2
    <2> QED BY <2>2, <2>3
  <1>4. ASSUME NEW k \in T, NEW b \in Byte
        PROVE  K[k][b] = n <=> p # Nil /\ k = p /\ b = l
    <2>1. CASE p = Nil
      BY <1>1, <1>3, <2>1
    <2>2. CASE p # Nil
      BY <1>2, <1>3, <2>2
    <2> QED BY <2>1, <2>2
  <1>5. /\ old \in [U -> T] /\ old[c] = n /\ \A x \in U \ {c} : old[x] = x
        /\ \A k \in T : \E x \in U : old[x] = k
        /\ \A x, y \in U : old[x] = old[y] => x = y
        /\ \A x \in U : x = s <=> old[x] = r
        /\ \A x \in U : e[x] = d[old[x]]
    BY <1>1, <1>3
  <1>6. s \in U /\ U \subseteq Nat \ {0} /\ e \in [Nat -> Nat]
        /\ \A k \in T \ {n} : k \in U
    BY <1>1, <1>3 DEF Nil
  <1>7. c \in U /\ \A x \in U \ {c} : x \in T \ {n}
    OBVIOUS
  <1> HIDE DEF U, s, e, old
  <1>8. ASSUME NEW x \in U, NEW b \in Byte
        PROVE  /\ J[x] \in [Byte -> Nat]
               /\ J[x][b] = IF K[old[x]][b] = n THEN c ELSE K[old[x]][b]
    <2>1. CASE x = c
      <3>1. K[n][b] # n /\ old[x] = n /\ J[x] = K[n]
        BY <1>3, <1>4, <1>5, <2>1
      <3> QED BY <1>1, <3>1
    <2>2. CASE x # c
      <3>1. x \in T \ {n} /\ K[x] \in [Byte -> Nat] /\ old[x] = x
        BY <1>1, <1>5, <1>7, <2>2
      <3>2. CASE x = p
        <4>1. p # Nil
          BY <1>1, <3>1, <3>2
        <4>2. J[x] = [K[x] EXCEPT ![l] = c]
          BY <3>1, <3>2
        <4>3. K[x][b] = n <=> b = l
          BY <1>4, <3>1, <3>2, <4>1
        <4>4. J[x] \in [Byte -> Nat] /\ J[x][b] = IF b = l THEN c ELSE K[x][b]
          <5>1. c \in Nat /\ K[x] \in [Byte -> Nat]
            BY <3>1
          <5> HIDE <1>0
          <5> QED BY <4>2, <5>1
        <4>5. J[x][b] = IF K[x][b] = n THEN c ELSE K[x][b]
          BY <4>3, <4>4
        <4> HIDE <1>0
        <4> QED BY <3>1, <4>4, <4>5
      <3>3. CASE x # p
        <4>1. J[x] = K[x] /\ K[x][b] # n
          BY <1>4, <3>1, <3>3
        <4> QED BY <3>1, <4>1
      <3> QED BY <3>2, <3>3
    <2> QED BY <2>1, <2>2
  <1>9. ASSUME NEW x \in U, NEW b \in Byte, J[x][b] # Nil
        PROVE  /\ K[old[x]][b] # Nil /\ J[x][b] \in U
               /\ old[J[x][b]] = K[old[x]][b]
    <2>1. K[old[x]][b] # Nil
      BY <1>3, <1>8, <1>9
    <2>2. K[old[x]][b] \in T
      BY <1>1, <1>5, <2>1
    <2>3. CASE K[old[x]][b] = n
      BY <1>5, <1>7, <1>8, <2>1, <2>3
    <2>4. CASE K[old[x]][b] # n
      <3>1. J[x][b] = K[old[x]][b] /\ J[x][b] \in U /\ J[x][b] # c
        BY <1>6, <1>8, <2>2, <2>4
      <3> QED BY <1>5, <2>1, <3>1
    <2> QED BY <2>3, <2>4
  <1>10. ASSUME NEW x \in U, NEW b \in Byte, J[x][b] # Nil
         PROVE  J[x][b] \in U \ {s} /\ e[x] < e[J[x][b]]
    <2> DEFINE u == old[x]
               y == J[x][b]
    <2>1. u \in T /\ K[u][b] # Nil /\ y \in U /\ old[y] = K[u][b]
      BY <1>5, <1>9, <1>10
    <2>2. K[u][b] # r /\ d[u] < d[K[u][b]]
      BY <1>1, <2>1
    <2>3. e[x] = d[u] /\ e[y] = d[K[u][b]] /\ y # s
      BY <1>5, <2>1, <2>2
    <2> QED BY <2>1, <2>2, <2>3
  <1>11. ASSUME NEW x \in U, NEW y \in U, NEW b \in Byte, NEW f \in Byte,
                J[x][b] # Nil, J[x][b] = J[y][f]
         PROVE  x = y /\ b = f
    <2>1. K[old[x]][b] # Nil /\ K[old[x]][b] = K[old[y]][f]
      BY <1>9, <1>11
    <2>2. old[x] \in T /\ old[y] \in T
      BY <1>5
    <2>3. old[x] = old[y] /\ b = f
      BY <1>2, <2>1, <2>2
    <2> QED BY <1>5, <2>3
  <1>12. ASSUME NEW y \in U \ {s}
         PROVE  \E x \in U, b \in Byte : J[x][b] = y
    <2>1. old[y] \in T \ {r}
      BY <1>5
    <2>2. PICK k \in T, b \in Byte : K[k][b] = old[y]
      BY <1>2, <2>1
    <2>3. PICK x \in U : old[x] = k
      BY <1>5
    <2>4. J[x][b] = IF old[y] = n THEN c ELSE old[y]
      BY <1>8, <2>2, <2>3
    <2>5. J[x][b] = y
      BY <1>5, <1>7, <2>4
    <2> QED BY <2>5
  <1>13. IsTree(U, J, s, e)
    <2>1. s \in U /\ U \subseteq Nat \ {0} /\ e \in [Nat -> Nat]
      BY <1>6
    <2>2. \A x \in U : J[x] \in [Byte -> Nat]
      <3> SUFFICES ASSUME NEW x \in U PROVE J[x] \in [Byte -> Nat]
        OBVIOUS
      <3>1. CASE x = c
        BY <1>1, <3>1
      <3>2. CASE x # c
        <4>1. x \in T \ {n} /\ K[x] \in [Byte -> Nat]
          BY <1>1, <1>7, <3>2
        <4>2. J[x] = [K[x] EXCEPT ![l] = c] \/ J[x] = K[x]
          BY <4>1
        <4> QED BY <4>1, <4>2
      <3> QED BY <3>1, <3>2
    <2>3. \A x \in U, b \in Byte : J[x][b] # Nil =>
             J[x][b] \in U \ {s} /\ e[x] < e[J[x][b]]
      BY <1>10
    <2>4. \A x, y \in U, b, f \in Byte :
             J[x][b] # Nil /\ J[x][b] = J[y][f] => x = y /\ b = f
      BY <1>11
    <2>5. \A y \in U \ {s} : \E x \in U, b \in Byte : J[x][b] = y
      BY <1>12
    <2> QED BY <2>1, <2>2, <2>3, <2>4, <2>5 DEF IsTree
  <1> QED BY <1>13 DEF U, s, e

\* J is K with a new childless node c below n.
Hangs(T, K, J, n, l, c) ==
    /\ n \in T /\ l \in Byte /\ K[n][l] = Nil
    /\ c \in Nat \ {Nil} /\ c \notin T
    /\ J[c] = NoKids /\ J[n] = [K[n] EXCEPT ![l] = c]
    /\ \A k \in T \ {n} : J[k] = K[k]

\* A childless node c is hung below n.
LEMMA TreeHang ==
    ASSUME NEW T, NEW K, NEW J, NEW r, NEW d, IsTree(T, K, r, d),
           NEW n, NEW l, NEW c, Hangs(T, K, J, n, l, c)
    PROVE  IsTree(T \cup {c}, J, r, [d EXCEPT ![c] = d[n] + 1])
  <1> DEFINE U == T \cup {c}
             e == [d EXCEPT ![c] = d[n] + 1]
  <1>9. /\ n \in T /\ l \in Byte /\ K[n][l] = Nil
        /\ c \in Nat \ {Nil} /\ c \notin T
        /\ J[c] = NoKids /\ J[n] = [K[n] EXCEPT ![l] = c]
        /\ \A k \in T \ {n} : J[k] = K[k]
    BY DEF Hangs
  <1> USE <1>9
  <1>1. /\ r \in T /\ T \subseteq Nat \ {0} /\ d \in [Nat -> Nat]
        /\ \A k \in T : k \in Nat /\ k # Nil /\ d[k] \in Nat
        /\ \A k \in T : K[k] \in [Byte -> Nat]
        /\ \A k \in T, b \in Byte : K[k][b] # Nil =>
              /\ K[k][b] \in T /\ K[k][b] # r /\ K[k][b] # k
              /\ d[k] < d[K[k][b]]
    BY TreeParts
  <1>0. /\ \A k, m \in T, b, f \in Byte :
              K[k][b] # Nil /\ K[k][b] = K[m][f] => k = m /\ b = f
        /\ \A m \in T \ {r} : \E k \in T, b \in Byte : K[k][b] = m
    BY TreeParts
  <1>2. /\ \A b \in Byte : J[c][b] = Nil
        /\ \A k \in T, b \in Byte : J[k][b] = IF k = n /\ b = l THEN c
                                                               ELSE K[k][b]
        /\ \A k \in U : J[k] \in [Byte -> Nat]
    <2>1. J[c] = [b \in Byte |-> Nil] /\ Nil \in Nat
      BY DEF NoKids, Nil
    <2>2. ASSUME NEW k \in T
          PROVE  J[k] = [b \in Byte |-> IF k = n /\ b = l THEN c ELSE K[k][b]]
      <3>1. K[k] \in [Byte -> Nat]
        BY <1>1
      <3>2. CASE k = n
        BY <3>1, <3>2
      <3>3. CASE k # n
        <4>1. J[k] = K[k]
          BY <3>3
        <4> QED BY <3>1, <3>3, <4>1
      <3> QED BY <3>2, <3>3
    <2>3. ASSUME NEW k \in T
          PROVE  J[k] \in [Byte -> Nat]
      <3>1. K[k] \in [Byte -> Nat] /\ c \in Nat
        BY <1>1
      <3>2. J[k] = [b \in Byte |-> IF k = n /\ b = l THEN c ELSE K[k][b]]
        BY <2>2
      <3> QED BY <3>1, <3>2
    <2>4. J[c] \in [Byte -> Nat]
      BY <2>1
    <2> QED BY <2>1, <2>2, <2>3, <2>4
  <1>3. r \in U /\ U \subseteq Nat \ {0} /\ e \in [Nat -> Nat]
        /\ e[c] = d[n] + 1 /\ \A k \in T : e[k] = d[k]
    BY <1>1 DEF Nil
  <1>7. c \in U /\ c # r /\ T \subseteq U /\ \A x \in U : x # c => x \in T
    BY <1>1
  <1> HIDE DEF U, e
  <1>4. ASSUME NEW x \in U, NEW b \in Byte, J[x][b] # Nil
        PROVE  J[x][b] \in U \ {r} /\ e[x] < e[J[x][b]]
    <2>1. x \in T
      BY <1>2, <1>4, <1>7
    <2>2. CASE x = n /\ b = l
      BY <1>1, <1>2, <1>3, <1>7, <2>1, <2>2
    <2>3. CASE ~(x = n /\ b = l)
      <3>1. J[x][b] = K[x][b]
        BY <1>2, <2>1, <2>3
      <3> QED BY <1>1, <1>3, <1>4, <1>7, <2>1, <3>1
    <2> QED BY <2>2, <2>3
  <1>5. ASSUME NEW x \in U, NEW y \in U, NEW b \in Byte, NEW f \in Byte,
               J[x][b] # Nil, J[x][b] = J[y][f]
        PROVE  x = y /\ b = f
    <2>1. x \in T /\ y \in T
      BY <1>2, <1>5, <1>7
    <2>2. \A k \in T, g \in Byte : K[k][g] # c
      BY <1>1
    <2>3. J[x][b] = c => x = n /\ b = l
      BY <1>2, <2>1, <2>2
    <2>4. J[y][f] = c => y = n /\ f = l
      BY <1>2, <2>1, <2>2
    <2>5. CASE J[x][b] = c
      BY <1>5, <2>3, <2>4, <2>5
    <2>6. CASE J[x][b] # c
      <3>1. J[x][b] = K[x][b] /\ J[y][f] = K[y][f]
        BY <1>2, <1>5, <2>1, <2>6
      <3>2. K[x][b] # Nil /\ K[x][b] = K[y][f]
        BY <1>5, <3>1
      <3> QED BY <1>0, <2>1, <3>2
    <2> QED BY <2>5, <2>6
  <1>6. ASSUME NEW y \in U \ {r}
        PROVE  \E x \in U, b \in Byte : J[x][b] = y
    <2>1. CASE y = c
      BY <1>2, <1>7, <2>1
    <2>2. CASE y # c
      <3>1. PICK k \in T, b \in Byte : K[k][b] = y
        BY <1>0, <1>7, <2>2
      <3>2. y # Nil
        BY <1>1, <1>7, <2>2
      <3>3. J[k][b] = y
        BY <1>2, <3>1, <3>2
      <3> QED BY <1>7, <3>3
    <2> QED BY <2>1, <2>2
  <1>8. IsTree(U, J, r, e)
    BY <1>2, <1>3, <1>4, <1>5, <1>6 DEF IsTree
  <1> QED BY <1>8 DEF U, e

\* J is K with a new node s in the middle of the edge from n to m.
Splits(T, K, J, n, l, m, s, x) ==
    /\ n \in T /\ l \in Byte /\ m # Nil /\ K[n][l] = m
    /\ s \in Nat \ {Nil} /\ s \notin T /\ x \in Byte
    /\ J[s] = [NoKids EXCEPT ![x] = m] /\ J[n] = [K[n] EXCEPT ![l] = s]
    /\ \A k \in T \ {n} : J[k] = K[k]

\* A node s is put in the middle of the edge from n to m.
LEMMA TreeSplit ==
    ASSUME NEW T, NEW K, NEW J, NEW r, NEW d, IsTree(T, K, r, d),
           NEW n, NEW l, NEW m, NEW s, NEW x, Splits(T, K, J, n, l, m, s, x)
    PROVE  IsTree(T \cup {s}, J, r,
                  [k \in Nat |-> IF k = s THEN 2 * d[n] + 1 ELSE 2 * d[k]])
  <1> DEFINE U == T \cup {s}
             e == [k \in Nat |-> IF k = s THEN 2 * d[n] + 1 ELSE 2 * d[k]]
  <1>0. /\ n \in T /\ l \in Byte /\ m # Nil /\ K[n][l] = m
        /\ s \in Nat \ {Nil} /\ s \notin T /\ x \in Byte
        /\ J[s] = [NoKids EXCEPT ![x] = m] /\ J[n] = [K[n] EXCEPT ![l] = s]
        /\ \A k \in T \ {n} : J[k] = K[k]
    BY DEF Splits
  <1> USE <1>0
  <1>1. /\ r \in T /\ T \subseteq Nat \ {0} /\ d \in [Nat -> Nat]
        /\ \A k \in T : k \in Nat /\ k # Nil /\ d[k] \in Nat
        /\ \A k \in T : K[k] \in [Byte -> Nat]
        /\ \A k \in T, b \in Byte : K[k][b] # Nil =>
              /\ K[k][b] \in T /\ K[k][b] # r /\ K[k][b] # k
              /\ d[k] < d[K[k][b]]
    BY TreeParts
  <1>2. /\ \A k, h \in T, b, f \in Byte :
              K[k][b] # Nil /\ K[k][b] = K[h][f] => k = h /\ b = f
        /\ \A h \in T \ {r} : \E k \in T, b \in Byte : K[k][b] = h
    BY TreeParts
  <1>3. m \in T /\ m # r /\ d[n] < d[m] /\ m \in Nat /\ r # s
        /\ m # s /\ n # s
    BY <1>1
  <1>4. /\ \A b \in Byte : J[s][b] = IF b = x THEN m ELSE Nil
        /\ \A k \in T, b \in Byte : J[k][b] = IF k = n /\ b = l THEN s
                                                               ELSE K[k][b]
        /\ \A k \in U : J[k] \in [Byte -> Nat]
    <2>1. J[s] = [b \in Byte |-> IF b = x THEN m ELSE Nil]
      BY DEF NoKids
    <2>2. ASSUME NEW k \in T
          PROVE  J[k] = [b \in Byte |-> IF k = n /\ b = l THEN s ELSE K[k][b]]
      <3>1. K[k] \in [Byte -> Nat]
        BY <1>1
      <3>2. CASE k = n
        BY <3>1, <3>2
      <3>3. CASE k # n
        <4>1. J[k] = K[k]
          BY <3>3
        <4> QED BY <3>1, <3>3, <4>1
      <3> QED BY <3>2, <3>3
    <2>3. Nil \in Nat
      BY DEF Nil
    <2>4. \A k \in T : J[k] \in [Byte -> Nat]
      BY <1>1, <2>2
    <2>5. J[s] \in [Byte -> Nat]
      BY <1>3, <2>1, <2>3
    <2> QED BY <2>1, <2>2, <2>4, <2>5
  <1>5. r \in U /\ U \subseteq Nat \ {0} /\ e \in [Nat -> Nat]
        /\ e[s] = 2 * d[n] + 1 /\ \A k \in T : e[k] = 2 * d[k]
    BY <1>1 DEF Nil
  <1>6. s \in U /\ T \subseteq U /\ \A k \in U : k # s => k \in T
    OBVIOUS
  <1>7. ASSUME NEW k \in T, NEW b \in Byte
        PROVE  K[k][b] # s
    <2>1. K[k][b] = Nil \/ K[k][b] \in T
      BY <1>1
    <2> QED BY <2>1
  <1> HIDE DEF U, e
  <1>8. ASSUME NEW k \in U, NEW b \in Byte, J[k][b] # Nil
        PROVE  J[k][b] \in U \ {r} /\ e[k] < e[J[k][b]]
    <2>1. CASE k = s
      <3>1. J[k][b] = m
        BY <1>4, <1>8, <2>1
      <3>2. e[k] = 2 * d[n] + 1 /\ e[m] = 2 * d[m] /\ d[n] \in Nat /\ d[m] \in Nat
        BY <1>1, <1>3, <1>5, <2>1
      <3>3. e[k] < e[m]
        BY <1>3, <3>2
      <3> QED BY <1>3, <1>6, <3>1, <3>3
    <2>2. CASE k = n /\ b = l
      <3>1. J[k][b] = s /\ e[k] = 2 * d[n] /\ e[s] = 2 * d[n] + 1 /\ d[n] \in Nat
        BY <1>1, <1>4, <1>5, <2>2
      <3> QED BY <1>3, <1>6, <3>1
    <2>3. CASE k # s /\ ~(k = n /\ b = l)
      <3>1. k \in T /\ J[k][b] = K[k][b] /\ K[k][b] # Nil
        BY <1>4, <1>6, <1>8, <2>3
      <3>2. K[k][b] \in T /\ K[k][b] # r /\ d[k] < d[K[k][b]]
        BY <1>1, <3>1
      <3>3. e[k] = 2 * d[k] /\ e[K[k][b]] = 2 * d[K[k][b]]
            /\ d[k] \in Nat /\ d[K[k][b]] \in Nat
        BY <1>1, <1>5, <3>1, <3>2
      <3>4. e[k] < e[K[k][b]]
        BY <3>2, <3>3
      <3> QED BY <1>6, <3>1, <3>2, <3>4
    <2> QED BY <2>1, <2>2, <2>3
  <1>9. ASSUME NEW k \in U, NEW h \in U, NEW b \in Byte, NEW f \in Byte,
               J[k][b] # Nil, J[k][b] = J[h][f]
        PROVE  k = h /\ b = f
    <2>1. ASSUME NEW g \in U, NEW i \in Byte
          PROVE  /\ J[g][i] = s => g = n /\ i = l
                 /\ J[g][i] = m => g = s /\ i = x
    
      <3>1. CASE g = s
        BY <1>3, <1>4, <3>1
      <3>2. CASE g # s
        <4>1. g \in T
          BY <1>6, <3>2
        <4>2. CASE g = n /\ i = l
          BY <1>3, <1>4, <4>2
        <4>3. CASE ~(g = n /\ i = l)
          <5>1. J[g][i] = K[g][i]
            BY <1>4, <4>1, <4>3
          <5>2. K[g][i] # m
            BY <1>2, <4>1, <4>3
          <5> QED BY <1>7, <4>1, <5>1, <5>2
        <4> QED BY <4>2, <4>3
      <3> QED BY <3>1, <3>2
    <2>2. CASE J[k][b] \in {s, m}
      BY <1>9, <2>1, <2>2
    <2>3. CASE J[k][b] \notin {s, m}
      <3>1. ASSUME NEW g \in U, NEW i \in Byte, J[g][i] = J[k][b]
            PROVE  g \in T /\ J[g][i] = K[g][i]
        <4>1. g # s
          BY <1>4, <1>9, <2>3, <3>1
        <4>2. g \in T
          BY <1>6, <4>1
        <4> QED BY <1>4, <2>3, <3>1, <4>2
      <3>2. k \in T /\ h \in T /\ K[k][b] # Nil /\ K[k][b] = K[h][f]
        BY <1>9, <3>1
      <3> QED BY <1>2, <3>2
    <2> QED BY <2>2, <2>3
  <1>10. ASSUME NEW y \in U \ {r}
         PROVE  \E k \in U, b \in Byte : J[k][b] = y
    <2>1. CASE y = s
      BY <1>4, <1>6, <2>1
    <2>2. CASE y = m
      BY <1>4, <1>6, <2>2
    <2>3. CASE y # s /\ y # m
      <3>1. PICK k \in T, b \in Byte : K[k][b] = y
        BY <1>2, <1>6, <2>3
      <3>2. J[k][b] = y
        BY <1>4, <2>3, <3>1
      <3> QED BY <1>6, <3>2
    <2> QED BY <2>1, <2>2, <2>3
  <1>11. IsTree(U, J, r, e)
    BY <1>4, <1>5, <1>8, <1>9, <1>10 DEF IsTree
  <1> QED BY <1>11 DEF U, e

\* J is K without the node n between p and its only child c.
Skips(T, K, J, p, l, n, x, c) ==
    /\ p \in T /\ l \in Byte /\ n # Nil /\ K[p][l] = n
    /\ c # Nil /\ x \in Byte /\ K[n][x] = c
    /\ \A b \in Byte \ {x} : K[n][b] = Nil
    /\ J[p] = [K[p] EXCEPT ![l] = c]
    /\ \A k \in T \ {n, p} : J[k] = K[k]

\* The node n between p and its only child c is taken out.
LEMMA TreeSkip ==
    ASSUME NEW T, NEW K, NEW J, NEW r, NEW d, IsTree(T, K, r, d),
           NEW p, NEW l, NEW n, NEW x, NEW c, Skips(T, K, J, p, l, n, x, c)
    PROVE  /\ IsTree(T \ {n}, J, r, d) /\ n \in T
           /\ p \in T \ {n} /\ c \in T \ {n}
  <1> DEFINE U == T \ {n}
  <1>0. /\ p \in T /\ l \in Byte /\ n # Nil /\ K[p][l] = n
        /\ c # Nil /\ x \in Byte /\ K[n][x] = c
        /\ \A b \in Byte \ {x} : K[n][b] = Nil
        /\ J[p] = [K[p] EXCEPT ![l] = c]
        /\ \A k \in T \ {n, p} : J[k] = K[k]
    BY DEF Skips
  <1> USE <1>0
  <1>1. /\ r \in T /\ T \subseteq Nat \ {0} /\ d \in [Nat -> Nat]
        /\ \A k \in T : k \in Nat /\ k # Nil /\ d[k] \in Nat
        /\ \A k \in T : K[k] \in [Byte -> Nat]
        /\ \A k \in T, b \in Byte : K[k][b] # Nil =>
              /\ K[k][b] \in T /\ K[k][b] # r /\ K[k][b] # k
              /\ d[k] < d[K[k][b]]
    BY TreeParts
  <1>2. /\ \A k, h \in T, b, f \in Byte :
              K[k][b] # Nil /\ K[k][b] = K[h][f] => k = h /\ b = f
        /\ \A h \in T \ {r} : \E k \in T, b \in Byte : K[k][b] = h
    BY TreeParts
  <1>3. n \in T /\ n # r /\ d[p] < d[n] /\ n # p
    BY <1>1
  <1>4. c \in T /\ c # r /\ d[n] < d[c] /\ n # c /\ c \in Nat
    BY <1>1, <1>3
  <1>5. d[p] < d[c]
    <2>1. d[p] \in Nat /\ d[n] \in Nat /\ d[c] \in Nat
      BY <1>1, <1>3, <1>4
    <2> QED BY <1>3, <1>4, <2>1
  <1>6. p \in U /\ c \in U /\ r \in U /\ U \subseteq T /\ n \notin U
        /\ \A k \in T : k # n => k \in U
    BY <1>3, <1>4, <1>1
  <1>7. \A k \in U, b \in Byte : J[k][b] = IF k = p /\ b = l THEN c ELSE K[k][b]
    BY <1>1, <1>6
  <1>8. \A k \in U : J[k] \in [Byte -> Nat]
    <2>1. J[p] \in [Byte -> Nat]
      BY <1>1, <1>4
    <2>2. \A k \in T \ {n, p} : J[k] \in [Byte -> Nat]
      BY <1>1
    <2> QED BY <2>1, <2>2
  <1>9. \A k \in U, b \in Byte : K[k][b] # c
    BY <1>2, <1>3, <1>6
  <1>10. \A k \in U, b \in Byte : K[k][b] = n => k = p /\ b = l
    BY <1>2, <1>6
  <1> HIDE DEF U
  <1>11. ASSUME NEW k \in U, NEW b \in Byte, J[k][b] # Nil
         PROVE  J[k][b] \in U \ {r} /\ d[k] < d[J[k][b]]
    <2>1. CASE k = p /\ b = l
      BY <1>4, <1>5, <1>6, <1>7, <2>1
    <2>2. CASE ~(k = p /\ b = l)
      <3>1. J[k][b] = K[k][b] /\ K[k][b] # n /\ k \in T
        BY <1>6, <1>7, <1>10, <2>2
      <3>2. K[k][b] # Nil
        BY <1>11, <3>1
      <3>3. K[k][b] \in T /\ K[k][b] # r /\ d[k] < d[K[k][b]]
        <4>1. \A i \in T, a \in Byte : K[i][a] # Nil =>
                K[i][a] \in T /\ K[i][a] # r /\ d[i] < d[K[i][a]]
          BY <1>1
        <4> HIDE <1>0
        <4> QED BY <3>1, <3>2, <4>1
      <3> QED BY <1>6, <3>1, <3>3
    <2> QED BY <2>1, <2>2
  <1>12. ASSUME NEW k \in U, NEW h \in U, NEW b \in Byte, NEW f \in Byte,
                J[k][b] # Nil, J[k][b] = J[h][f]
         PROVE  k = h /\ b = f
    <2>1. J[k][b] = c => k = p /\ b = l
      BY <1>7, <1>9
    <2>2. J[h][f] = c => h = p /\ f = l
      BY <1>7, <1>9
    <2>3. CASE J[k][b] = c
      BY <1>12, <2>1, <2>2, <2>3
    <2>4. CASE J[k][b] # c
      <3>1. K[k][b] # Nil /\ K[k][b] = K[h][f] /\ k \in T /\ h \in T
        BY <1>6, <1>7, <1>12, <2>4
      <3> QED BY <1>2, <3>1
    <2> QED BY <2>3, <2>4
  <1>13. ASSUME NEW y \in U \ {r}
         PROVE  \E k \in U, b \in Byte : J[k][b] = y
    <2>1. CASE y = c
      BY <1>6, <1>7, <2>1
    <2>2. CASE y # c
      <3>1. PICK k \in T, b \in Byte : K[k][b] = y
        BY <1>2, <1>6
      <3>2. y # Nil /\ y # n
        BY <1>1, <1>6
      <3>3. k # n
        BY <2>2, <3>1, <3>2
      <3>4. k \in U /\ J[k][b] = y
        <4>1. k \in U
          BY <1>6, <3>3
        <4>2. ~(k = p /\ b = l)
          BY <3>1, <3>2
        <4> QED BY <1>7, <3>1, <4>1, <4>2
      <3> QED BY <3>4
    <2> QED BY <2>1, <2>2
  <1>14. U \subseteq Nat \ {0}
    BY <1>1, <1>6
  <1>15. IsTree(U, J, r, d)
    BY <1>1, <1>6, <1>8, <1>11, <1>12, <1>13, <1>14 DEF IsTree
  <1> QED BY <1>3, <1>6, <1>15 DEF U

-----------------------------------------------------------------------------
(* Cutting a subtree *)

\* A set with the children of its members.
Closed(S, K) == \A n \in S, b \in Byte : K[n][b] # Nil => K[n][b] \in S

\* m and all that hangs below it.
Below(T, K, m) ==
    {k \in T : \A S \in SUBSET T : m \in S /\ Closed(S, K) => k \in S}

\* The subtree below m is closed, holds m, and nothing above m.
LEMMA BelowFacts ==
    ASSUME NEW T, NEW K, NEW r, NEW d, IsTree(T, K, r, d), NEW m \in T
    PROVE  LET B == Below(T, K, m) IN
           /\ m \in B /\ B \subseteq T /\ Closed(B, K)
           /\ \A k \in B : k = m \/ d[m] < d[k]
           /\ \A k \in B \ {m} : \E n \in B, b \in Byte : K[n][b] = k
  <1> DEFINE B == Below(T, K, m)
  <1>1. /\ r \in T /\ T \subseteq Nat \ {0} /\ d \in [Nat -> Nat]
        /\ \A k \in T : k \in Nat /\ k # Nil /\ d[k] \in Nat
        /\ \A k \in T, b \in Byte : K[k][b] # Nil =>
              /\ K[k][b] \in T /\ K[k][b] # r /\ K[k][b] # k
              /\ d[k] < d[K[k][b]]
    BY TreeParts
  <1>2. m \in B /\ B \subseteq T
    BY DEF Below
  <1>3. \A S \in SUBSET T : m \in S /\ Closed(S, K) => B \subseteq S
    BY DEF Below
  <1>4. Closed(B, K)
    <2> SUFFICES ASSUME NEW n \in B, NEW b \in Byte, K[n][b] # Nil
                 PROVE  K[n][b] \in B
      BY DEF Closed
    <2>1. K[n][b] \in T
      BY <1>1, <1>2
    <2>2. ASSUME NEW S \in SUBSET T, m \in S, Closed(S, K)
          PROVE  K[n][b] \in S
      <3>1. n \in S
        BY <1>3, <2>2
      <3> QED BY <2>2, <3>1 DEF Closed
    <2> QED BY <2>1, <2>2 DEF Below
  <1> HIDE DEF B
  <1>5. \A k \in B : k = m \/ d[m] < d[k]
    <2> DEFINE S == {k \in T : k = m \/ d[m] < d[k]}
    <2>1. S \in SUBSET T /\ m \in S
      OBVIOUS
    <2>2. Closed(S, K)
      <3> SUFFICES ASSUME NEW n \in S, NEW b \in Byte, K[n][b] # Nil
                   PROVE  K[n][b] \in T /\ d[m] < d[K[n][b]]
        BY DEF Closed
      <3>1. n \in T /\ (n = m \/ d[m] < d[n])
        OBVIOUS
      <3>2. K[n][b] \in T /\ d[n] < d[K[n][b]]
        BY <1>1, <3>1
      <3>3. d[n] \in Nat /\ d[m] \in Nat /\ d[K[n][b]] \in Nat
        BY <1>1, <3>1, <3>2
      <3> QED BY <3>1, <3>2, <3>3
    <2>3. B \subseteq S
      <3> HIDE DEF S
      <3> QED BY <1>3, <2>1, <2>2
    <2> QED BY <2>3
  <1>6. ASSUME NEW k \in B \ {m}
        PROVE  \E n \in B, b \in Byte : K[n][b] = k
    <2> SUFFICES ASSUME ~\E n \in B, b \in Byte : K[n][b] = k PROVE FALSE
      OBVIOUS
    <2> DEFINE S == B \ {k}
    <2>1. S \in SUBSET T /\ m \in S
      BY <1>2
    <2>2. Closed(S, K)
      BY <1>4 DEF Closed
    <2>3. B \subseteq S
      <3> HIDE DEF S
      <3> QED BY <1>3, <2>1, <2>2
    <2> QED BY <2>3
  <1> QED BY <1>2, <1>4, <1>5, <1>6 DEF B

\* J is K without the edge from p to m.
Cuts(T, K, J, p, l, m) ==
    /\ p \in T /\ l \in Byte /\ m # Nil /\ K[p][l] = m
    /\ J[p] = [K[p] EXCEPT ![l] = Nil]
    /\ \A k \in T \ {p} : J[k] = K[k]

\* The edge from p to m is cut.
LEMMA TreeCut ==
    ASSUME NEW T, NEW K, NEW J, NEW r, NEW d, IsTree(T, K, r, d),
           NEW p, NEW l, NEW m, Cuts(T, K, J, p, l, m)
    PROVE  /\ IsTree(T \ Below(T, K, m), J, r, d) /\ m \in Below(T, K, m)
           /\ m \in T
           /\ \A k \in T : d[k] < d[m] => k \in T \ Below(T, K, m)
  <1> DEFINE B == Below(T, K, m)
             U == T \ B
  <1>0. /\ p \in T /\ l \in Byte /\ m # Nil /\ K[p][l] = m
        /\ J[p] = [K[p] EXCEPT ![l] = Nil]
        /\ \A k \in T \ {p} : J[k] = K[k]
    BY DEF Cuts
  <1> USE <1>0
  <1>1. /\ r \in T /\ T \subseteq Nat \ {0} /\ d \in [Nat -> Nat]
        /\ \A k \in T : k \in Nat /\ k # Nil /\ d[k] \in Nat
        /\ \A k \in T : K[k] \in [Byte -> Nat]
        /\ \A k \in T, b \in Byte : K[k][b] # Nil =>
              /\ K[k][b] \in T /\ K[k][b] # r /\ K[k][b] # k
              /\ d[k] < d[K[k][b]]
    BY TreeParts
  <1>2. /\ \A k, h \in T, b, f \in Byte :
              K[k][b] # Nil /\ K[k][b] = K[h][f] => k = h /\ b = f
        /\ \A h \in T \ {r} : \E k \in T, b \in Byte : K[k][b] = h
    BY TreeParts
  <1>3. m \in T /\ m # r /\ d[p] < d[m]
    BY <1>1
  <1>4. /\ m \in B /\ B \subseteq T /\ Closed(B, K)
        /\ \A k \in B : k = m \/ d[m] < d[k]
        /\ \A k \in B \ {m} : \E n \in B, b \in Byte : K[n][b] = k
    BY <1>3, BelowFacts
  <1> HIDE DEF B
  <1>5. \A k \in T : d[k] < d[m] => k \in U
    <2> SUFFICES ASSUME NEW k \in T, d[k] < d[m], k \in B PROVE FALSE
      OBVIOUS
    <2>1. d[k] \in Nat /\ d[m] \in Nat
      BY <1>1, <1>3
    <2> QED BY <1>4, <2>1
  <1>6. r \in U /\ p \in U /\ U \subseteq T /\ U \subseteq Nat \ {0}
    <2>1. r \notin B
      BY <1>1, <1>3, <1>4
    <2> QED BY <1>1, <1>3, <1>5, <2>1
  <1>7. \A k \in U, b \in Byte : J[k][b] = IF k = p /\ b = l THEN Nil ELSE K[k][b]
    BY <1>1, <1>6
  <1>8. \A k \in U : J[k] \in [Byte -> Nat]
    BY <1>1, <1>6 DEF Nil
  <1>9. ASSUME NEW k \in U, NEW b \in Byte, J[k][b] # Nil
        PROVE  /\ J[k][b] = K[k][b] /\ K[k][b] # Nil
               /\ J[k][b] \in U \ {r} /\ d[k] < d[J[k][b]]
    <2>1. J[k][b] = K[k][b] /\ ~(k = p /\ b = l) /\ k \in T
      BY <1>6, <1>7, <1>9
    <2>2. K[k][b] \in T /\ K[k][b] # r /\ d[k] < d[K[k][b]]
      BY <1>1, <1>9, <2>1
    <2>3. K[k][b] # m
      BY <1>2, <2>1
    <2>4. K[k][b] \notin B
      <3> SUFFICES ASSUME K[k][b] \in B PROVE FALSE
        OBVIOUS
      <3>1. PICK n \in B, f \in Byte : K[n][f] = K[k][b]
        BY <1>4, <2>3
      <3>2. n = k
        BY <1>2, <1>4, <1>9, <2>1, <3>1
      <3> QED BY <3>2
    <2> QED BY <1>9, <2>1, <2>2, <2>4
  <1>10. ASSUME NEW y \in U \ {r}
         PROVE  \E k \in U, b \in Byte : J[k][b] = y
    <2>1. PICK k \in T, b \in Byte : K[k][b] = y
      BY <1>2
    <2>2. y # Nil /\ y \notin B /\ y # m
      BY <1>1, <1>4
    <2>3. k \in U
      BY <1>4, <2>1, <2>2 DEF Closed
    <2>4. J[k][b] = y
      BY <1>7, <2>1, <2>2, <2>3
    <2> QED BY <2>3, <2>4
  <1> HIDE DEF U
  <1>11. ASSUME NEW k \in U, NEW h \in U, NEW b \in Byte, NEW f \in Byte,
                J[k][b] # Nil, J[k][b] = J[h][f]
         PROVE  k = h /\ b = f
    <2>1. K[k][b] # Nil /\ K[k][b] = K[h][f]
      BY <1>9, <1>11
    <2> QED BY <1>2, <1>6, <2>1
  <1>12. IsTree(U, J, r, d)
    <2>1. \A k \in U, b \in Byte : J[k][b] # Nil =>
             J[k][b] \in U \ {r} /\ d[k] < d[J[k][b]]
      BY <1>9
    <2> QED BY <1>1, <1>6, <1>8, <1>10, <1>11, <2>1 DEF IsTree
  <1> QED BY <1>3, <1>4, <1>5, <1>12 DEF U, B

=============================================================================
