-------------------------- MODULE RadixShape_proofs --------------------------
(***************************************************************************)
(* Shape and KidsFit of RadixTrees, for every value of the constants.  The *)
(* invariant says of each published root, and of each open transaction in  *)
(* the middle of whatever call it is in, which nodes make up the tree.     *)
(***************************************************************************)
EXTENDS RadixTxn_proofs, Tree_proofs

-----------------------------------------------------------------------------
(* Radix trees                                                              *)

\* The labels of the children of node k in heap h.
Has(h, k) == {b \in Byte : h[k].kids[b] # Nil}

\* k needs no merging with a child.
Full(h, k) == \/ h[k].prefix = <<>> \/ h[k].val # NoVal
              \/ Cardinality(Has(h, k)) >= 2

\* Every child in f sits under the first byte of its segment.
EdgeShape(h, f) == \A b \in Byte : f[b] # Nil =>
                      h[f[b]].prefix # <<>> /\ Head(h[f[b]].prefix) = b

\* T is a radix tree of nodes of h with the edges K.
RadixTree(h, T, K, r, d) ==
    /\ IsTree(T, K, r, d) /\ h[r].prefix = <<>>
    /\ \A k \in T : Full(h, k) /\ EdgeShape(h, K[k])

\* Nothing that matters to the shape of the tree changes.
LEMMA Unchanged ==
    ASSUME NEW h, NEW g, NEW T, NEW K, NEW J, NEW r, NEW d,
           RadixTree(h, T, K, r, d),
           \A k \in T : g[k].prefix = h[k].prefix /\ J[k] = K[k] /\ Full(g, k)
    PROVE  RadixTree(g, T, J, r, d)
  <1>1. IsTree(T, K, r, d) /\ h[r].prefix = <<>>
        /\ \A k \in T : EdgeShape(h, K[k])
    BY DEF RadixTree
  <1>2. r \in T /\ \A k \in T, b \in Byte : K[k][b] # Nil => K[k][b] \in T
    BY <1>1, TreeParts
  <1>3. IsTree(T, J, r, d)
    BY <1>1, TreeSame
  <1>4. g[r].prefix = <<>>
    BY <1>1, <1>2
  <1>5. ASSUME NEW k \in T
        PROVE  EdgeShape(g, J[k])
    BY <1>1, <1>2 DEF EdgeShape
  <1> QED BY <1>3, <1>4, <1>5 DEF RadixTree

\* A node that keeps its segment, its value and its number of children stays full.
LEMMA FullSame ==
    ASSUME NEW h, NEW g, NEW k, NEW j, Full(h, k), g[j].prefix = h[k].prefix,
           g[j].val = h[k].val, Has(g, j) = Has(h, k)
    PROVE  Full(g, j)
  BY DEF Full

\* Heap g differs from h in that a copy c has taken n's place.
Copies(h, g, T, K, J, r, p, l, n, c) ==
    /\ HangsAt(T, K, r, p, l, n) /\ Replaces(T, K, J, p, l, n, c)
    /\ g[c].prefix = h[n].prefix /\ Full(g, c)
    /\ \A k \in T \ {n} : g[k].prefix = h[k].prefix /\ Full(g, k)

\* The tree stays a radix tree.
LEMMA Recopied ==
    ASSUME NEW h, NEW g, NEW T, NEW K, NEW J, NEW r, NEW d,
           RadixTree(h, T, K, r, d), NEW n, NEW c, NEW p, NEW l,
           Copies(h, g, T, K, J, r, p, l, n, c)
    PROVE  RadixTree(g, (T \ {n}) \cup {c}, J, IF p = Nil THEN c ELSE r,
                     [d EXCEPT ![c] = d[n]])
  <1> DEFINE U == (T \ {n}) \cup {c}
             s == IF p = Nil THEN c ELSE r
             e == [d EXCEPT ![c] = d[n]]
  <1>0. /\ n \in T /\ c \in Nat \ {Nil} /\ c \notin T /\ J[c] = K[n]
        /\ \A k \in T \ {n} : J[k] = IF k = p THEN [K[k] EXCEPT ![l] = c]
                                              ELSE K[k]
        /\ HangsAt(T, K, r, p, l, n) /\ Replaces(T, K, J, p, l, n, c)
        /\ g[c].prefix = h[n].prefix /\ Full(g, c)
        /\ \A k \in T \ {n} : g[k].prefix = h[k].prefix /\ Full(g, k)
    BY DEF Copies, Replaces
  <1> USE <1>0
  <1>1. IsTree(T, K, r, d) /\ h[r].prefix = <<>>
        /\ \A k \in T : EdgeShape(h, K[k])
    BY DEF RadixTree
  <1>2. /\ r \in T /\ \A k \in T : k # Nil /\ K[k] \in [Byte -> Nat]
        /\ \A k \in T, b \in Byte : K[k][b] # Nil =>
              K[k][b] \in T /\ K[k][b] # r
        /\ \A k, m \in T, b, f \in Byte :
              K[k][b] # Nil /\ K[k][b] = K[m][f] => k = m /\ b = f
    <2>1. IsTree(T, K, r, d)
      BY <1>1
    <2> QED BY <2>1, TreeParts
  <1>3. IsTree(U, J, s, e)
    <2>1. /\ IsTree(T, K, r, d) /\ HangsAt(T, K, r, p, l, n)
          /\ Replaces(T, K, J, p, l, n, c)
      BY <1>1
    <2> HIDE <1>0
    <2> QED BY <2>1, TreeReplace
  <1>4. g[s].prefix = <<>>
    <2>1. CASE p = Nil
      BY <1>1, <2>1 DEF HangsAt
    <2>2. CASE p # Nil
      <3>1. n # r
        BY <1>2, <2>2 DEF HangsAt
      <3> QED BY <1>1, <1>2, <2>2, <3>1
    <2> QED BY <2>1, <2>2
  <1>5. ASSUME NEW k \in T
        PROVE  \A b \in Byte : K[k][b] # Nil =>
                  /\ K[k][b] \in T
                  /\ h[K[k][b]].prefix # <<>> /\ Head(h[K[k][b]].prefix) = b
    BY <1>1, <1>2 DEF EdgeShape
  <1>6. ASSUME NEW k \in T, NEW b \in Byte, K[k][b] # Nil, K[k][b] # n
        PROVE  g[K[k][b]].prefix # <<>> /\ Head(g[K[k][b]].prefix) = b
    <2>1. K[k][b] \in T \ {n}
      BY <1>2, <1>6
    <2>2. g[K[k][b]].prefix = h[K[k][b]].prefix
      BY <2>1
    <2> QED BY <1>5, <1>6, <2>2
  <1>7. \A b \in Byte : K[n][b] # n
    <2>1. IsTree(T, K, r, d) /\ n \in T /\ n # Nil
      BY <1>1, <1>2
    <2> HIDE <1>0
    <2>2. \A b \in Byte : K[n][b] # Nil => K[n][b] # n
      BY <2>1, TreeParts
    <2> QED BY <2>1, <2>2
  <1>8. EdgeShape(g, J[c])
    BY <1>6, <1>7 DEF EdgeShape
  <1>9. ASSUME NEW k \in T \ {n}
        PROVE  EdgeShape(g, J[k])
    <2>1. ASSUME NEW b \in Byte, K[k][b] = n
          PROVE  k = p /\ b = l
      <3>1. n # Nil /\ n # r
        BY <1>2, <2>1
      <3>2. p # Nil /\ p \in T /\ l \in Byte /\ K[p][l] = n
        BY <3>1 DEF HangsAt
      <3> QED BY <1>2, <2>1, <3>1, <3>2
    <2>2. CASE k = p
      <3>1. J[k] = [K[k] EXCEPT ![l] = c] /\ K[k] \in [Byte -> Nat]
        BY <1>2, <2>2
      <3>2. p # Nil
        BY <1>2, <2>2
      <3>3. l \in Byte /\ K[p][l] = n
        BY <3>2 DEF HangsAt
      <3>4. n # Nil
        BY <1>2
      <3>5. h[n].prefix # <<>> /\ Head(h[n].prefix) = l
        BY <1>5, <2>2, <3>3, <3>4
      <3>6. ASSUME NEW b \in Byte, J[k][b] # Nil
            PROVE  g[J[k][b]].prefix # <<>> /\ Head(g[J[k][b]].prefix) = b
        <4>1. CASE b = l
          <5>1. J[k][b] = c
            BY <3>1, <4>1
          <5> QED BY <3>5, <4>1, <5>1
        <4>2. CASE b # l
          <5>1. J[k][b] = K[k][b]
            BY <3>1, <4>2
          <5>2. K[k][b] # n
            BY <2>1, <4>2
          <5> QED BY <1>6, <3>6, <5>1, <5>2
        <4> QED BY <4>1, <4>2
      <3> QED BY <3>6 DEF EdgeShape
    <2>3. CASE k # p
      <3>1. J[k] = K[k]
        BY <2>3
      <3>2. \A b \in Byte : K[k][b] # n
        BY <2>1, <2>3
      <3> QED BY <1>6, <3>1, <3>2 DEF EdgeShape
    <2> QED BY <2>2, <2>3
  <1>10. \A k \in U : Full(g, k) /\ EdgeShape(g, J[k])
    BY <1>8, <1>9
  <1> QED BY <1>3, <1>4, <1>10 DEF RadixTree

\* A childless node with a value is hung below n.
LEMMA Hung ==
    ASSUME NEW h, NEW g, NEW T, NEW K, NEW J, NEW r, NEW d,
           RadixTree(h, T, K, r, d),
           NEW n, NEW l, NEW c, Hangs(T, K, J, n, l, c),
           g[c].prefix # <<>>, Head(g[c].prefix) = l, g[c].val # NoVal,
           \A k \in T : g[k].prefix = h[k].prefix /\ Full(g, k)
    PROVE  RadixTree(g, T \cup {c}, J, r, [d EXCEPT ![c] = d[n] + 1])
  <1>0. /\ n \in T /\ l \in Byte /\ K[n][l] = Nil
        /\ c \in Nat \ {Nil} /\ c \notin T
        /\ J[c] = NoKids /\ J[n] = [K[n] EXCEPT ![l] = c]
        /\ \A k \in T \ {n} : J[k] = K[k]
    BY DEF Hangs
  <1> USE <1>0
  <1>1. IsTree(T, K, r, d) /\ h[r].prefix = <<>>
        /\ \A k \in T : EdgeShape(h, K[k])
    BY DEF RadixTree
  <1>2. /\ r \in T /\ \A k \in T : K[k] \in [Byte -> Nat]
        /\ \A k \in T, b \in Byte : K[k][b] # Nil => K[k][b] \in T
    <2>1. IsTree(T, K, r, d)
      BY <1>1
    <2> QED BY <2>1, TreeParts
  <1>3. IsTree(T \cup {c}, J, r, [d EXCEPT ![c] = d[n] + 1])
    <2>1. IsTree(T, K, r, d)
      BY <1>1
    <2> QED BY <2>1, TreeHang
  <1>4. g[r].prefix = <<>>
    BY <1>1, <1>2
  <1>5. Full(g, c)
    BY DEF Full
  <1>6. EdgeShape(g, J[c])
    BY DEF EdgeShape, NoKids
  <1>7. ASSUME NEW k \in T
        PROVE  EdgeShape(g, J[k])
    <2>1. ASSUME NEW b \in Byte, K[k][b] # Nil
          PROVE  g[K[k][b]].prefix # <<>> /\ Head(g[K[k][b]].prefix) = b
      <3>1. h[K[k][b]].prefix # <<>> /\ Head(h[K[k][b]].prefix) = b
        BY <1>1, <2>1 DEF EdgeShape
      <3>2. g[K[k][b]].prefix = h[K[k][b]].prefix
        BY <1>2, <2>1
      <3> QED BY <3>1, <3>2
    <2>2. ASSUME NEW b \in Byte
          PROVE  J[k][b] = K[k][b] \/ (b = l /\ J[k][b] = c)
      <3>1. K[k] \in [Byte -> Nat]
        BY <1>2
      <3>2. CASE k = n
        BY <3>1, <3>2
      <3>3. CASE k # n
        BY <3>3
      <3> QED BY <3>2, <3>3
    <2> QED BY <2>1, <2>2 DEF EdgeShape
  <1> QED BY <1>3, <1>4, <1>5, <1>6, <1>7 DEF RadixTree

\* Heap g differs from h in that a node s is in the middle of the edge to m,
\* which has lost the front of its segment.
Forks(h, g, T, K, J, n, l, m, s, x) ==
    /\ Splits(T, K, J, n, l, m, s, x)
    /\ g[s].prefix # <<>> /\ Head(g[s].prefix) = l /\ Full(g, s)
    /\ g[m].prefix # <<>> /\ Head(g[m].prefix) = x
    /\ \A k \in T \ {m} : g[k].prefix = h[k].prefix
    /\ \A k \in T : Full(g, k)

\* Of a tree's parts, those that say what an edge leads to.
LEMMA TreeLinks ==
    ASSUME NEW T, NEW K, NEW r, NEW d, IsTree(T, K, r, d)
    PROVE  /\ r \in T /\ \A k \in T : K[k] \in [Byte -> Nat]
           /\ \A k \in T, b \in Byte : K[k][b] # Nil =>
                 K[k][b] \in T /\ K[k][b] # r
           /\ \A k, j \in T, b, f \in Byte :
                 K[k][b] # Nil /\ K[k][b] = K[j][f] => k = j /\ b = f
  <1>1. r \in T /\ \A k \in T : K[k] \in [Byte -> Nat]
    BY TreeParts
  <1>2. ASSUME NEW k \in T, NEW b \in Byte, K[k][b] # Nil
        PROVE  K[k][b] \in T /\ K[k][b] # r
    BY <1>2, TreeParts
  <1>3. ASSUME NEW k \in T, NEW j \in T, NEW b \in Byte, NEW f \in Byte,
               K[k][b] # Nil, K[k][b] = K[j][f]
        PROVE  k = j /\ b = f
    BY <1>3, TreeParts
  <1> QED BY <1>1, <1>2, <1>3

\* The tree stays a radix tree.
LEMMA SplitUp ==
    ASSUME NEW h, NEW g, NEW T, NEW K, NEW J, NEW r, NEW d,
           RadixTree(h, T, K, r, d), NEW n, NEW l, NEW m, NEW s, NEW x,
           Forks(h, g, T, K, J, n, l, m, s, x)
    PROVE  RadixTree(g, T \cup {s}, J, r,
                  [k \in Nat |-> IF k = s THEN 2 * d[n] + 1 ELSE 2 * d[k]])
  <1>0. /\ n \in T /\ l \in Byte /\ m # Nil /\ K[n][l] = m
        /\ s \in Nat \ {Nil} /\ s \notin T /\ x \in Byte
        /\ J[s] = [NoKids EXCEPT ![x] = m] /\ J[n] = [K[n] EXCEPT ![l] = s]
        /\ \A k \in T \ {n} : J[k] = K[k]
    BY DEF Splits, Forks
  <1> USE DEF Forks
  <1>1. IsTree(T, K, r, d) /\ h[r].prefix = <<>>
        /\ \A k \in T : EdgeShape(h, K[k])
    BY DEF RadixTree
  <1>2. /\ r \in T /\ \A k \in T : K[k] \in [Byte -> Nat]
        /\ \A k \in T, b \in Byte : K[k][b] # Nil =>
              K[k][b] \in T /\ K[k][b] # r
        /\ \A k, j \in T, b, f \in Byte :
              K[k][b] # Nil /\ K[k][b] = K[j][f] => k = j /\ b = f
    <2>1. IsTree(T, K, r, d)
      BY <1>1
    <2> HIDE DEF Forks
    <2> QED BY <2>1, TreeLinks
  <1>3. IsTree(T \cup {s}, J, r,
               [k \in Nat |-> IF k = s THEN 2 * d[n] + 1 ELSE 2 * d[k]])
    <2>1. IsTree(T, K, r, d)
      BY <1>1
    <2> QED BY <2>1, TreeSplit
  <1>4. g[r].prefix = <<>>
    <2>1. r # m
      BY <1>0, <1>2
    <2> QED BY <1>1, <1>2, <2>1
  <1>5. EdgeShape(g, J[s])
    <2>1. \A b \in Byte : J[s][b] = IF b = x THEN m ELSE Nil
      BY <1>0 DEF NoKids
    <2> QED BY <2>1 DEF EdgeShape
  <1>6. ASSUME NEW k \in T
        PROVE  EdgeShape(g, J[k])
    <2>1. ASSUME NEW b \in Byte, K[k][b] # Nil, K[k][b] # m
          PROVE  g[K[k][b]].prefix # <<>> /\ Head(g[K[k][b]].prefix) = b
      <3>1. h[K[k][b]].prefix # <<>> /\ Head(h[K[k][b]].prefix) = b
        BY <1>1, <2>1 DEF EdgeShape
      <3>2. g[K[k][b]].prefix = h[K[k][b]].prefix
        BY <1>2, <2>1
      <3> QED BY <3>1, <3>2
    <2>2. ASSUME NEW b \in Byte, J[k][b] # Nil
          PROVE  g[J[k][b]].prefix # <<>> /\ Head(g[J[k][b]].prefix) = b
      <3>1. K[k] \in [Byte -> Nat]
        BY <1>2
      <3>2. CASE k = n /\ b = l
        <4>1. J[k][b] = s
          BY <1>0, <3>1, <3>2
        <4> QED BY <3>2, <4>1
      <3>3. CASE ~(k = n /\ b = l)
        <4>1. J[k][b] = K[k][b]
          <5>1. CASE k = n
            BY <1>0, <3>1, <3>3, <5>1
          <5>2. CASE k # n
            BY <1>0, <5>2
          <5> QED BY <5>1, <5>2
        <4>2. K[k][b] # m
          BY <1>0, <1>2, <3>3
        <4> QED BY <2>1, <2>2, <4>1, <4>2
      <3> QED BY <3>2, <3>3
    <2> QED BY <2>2 DEF EdgeShape
  <1> QED BY <1>3, <1>4, <1>5, <1>6 DEF RadixTree

\* The subtree below m is cut off.
LEMMA CutOff ==
    ASSUME NEW h, NEW T, NEW K, NEW J, NEW r, NEW d,
           RadixTree(h, T, K, r, d), NEW p, NEW l, NEW m,
           Cuts(T, K, J, p, l, m)
    PROVE  /\ RadixTree(h, T \ Below(T, K, m), J, r, d)
           /\ m \in Below(T, K, m) /\ m \in T
           /\ \A k \in T : d[k] < d[m] => k \in T \ Below(T, K, m)
  <1>0. /\ p \in T /\ l \in Byte /\ m # Nil /\ K[p][l] = m
        /\ J[p] = [K[p] EXCEPT ![l] = Nil]
        /\ \A k \in T \ {p} : J[k] = K[k]
    BY DEF Cuts
  <1>1. IsTree(T, K, r, d) /\ h[r].prefix = <<>>
        /\ \A k \in T : Full(h, k) /\ EdgeShape(h, K[k])
    BY DEF RadixTree
  <1>2. /\ IsTree(T \ Below(T, K, m), J, r, d) /\ m \in Below(T, K, m)
        /\ m \in T
        /\ \A k \in T : d[k] < d[m] => k \in T \ Below(T, K, m)
    <2>1. IsTree(T, K, r, d)
      BY <1>1
    <2> QED BY <2>1, TreeCut
  <1>3. \A k \in T : K[k] \in [Byte -> Nat]
    <2>1. IsTree(T, K, r, d)
      BY <1>1
    <2> QED BY <2>1, TreeParts
  <1>4. ASSUME NEW k \in T
        PROVE  EdgeShape(h, J[k])
    <2>1. CASE k = p
      <3>1. \A b \in Byte : J[k][b] = IF b = l THEN Nil ELSE K[k][b]
        BY <1>0, <1>3, <2>1
      <3>2. EdgeShape(h, K[k])
        BY <1>1
      <3> QED BY <3>1, <3>2 DEF EdgeShape
    <2>2. CASE k # p
      BY <1>0, <1>1, <2>2
    <2> QED BY <2>1, <2>2
  <1> QED BY <1>1, <1>2, <1>4 DEF RadixTree

\* The only child c of n takes n's place and n's segment.
LEMMA Skipped ==
    ASSUME NEW h, NEW g, NEW T, NEW K, NEW J, NEW r, NEW d,
           RadixTree(h, T, K, r, d), NEW p, NEW l, NEW n, NEW x, NEW c,
           Skips(T, K, J, p, l, n, x, c),
           g[c].prefix # <<>>, Head(g[c].prefix) = Head(h[n].prefix),
           \A k \in T \ {n, c} : g[k].prefix = h[k].prefix,
           \A k \in T \ {n} : Full(g, k)
    PROVE  /\ RadixTree(g, T \ {n}, J, r, d) /\ n \in T
           /\ p \in T \ {n} /\ c \in T \ {n}
  <1>0. /\ p \in T /\ l \in Byte /\ n # Nil /\ K[p][l] = n
        /\ c # Nil /\ x \in Byte /\ K[n][x] = c
        /\ J[p] = [K[p] EXCEPT ![l] = c]
        /\ \A k \in T \ {n, p} : J[k] = K[k]
    BY DEF Skips
  <1>1. IsTree(T, K, r, d) /\ h[r].prefix = <<>>
        /\ \A k \in T : EdgeShape(h, K[k])
    BY DEF RadixTree
  <1>2. /\ r \in T /\ \A k \in T : K[k] \in [Byte -> Nat]
        /\ \A k \in T, b \in Byte : K[k][b] # Nil =>
              K[k][b] \in T /\ K[k][b] # r
        /\ \A k, j \in T, b, f \in Byte :
              K[k][b] # Nil /\ K[k][b] = K[j][f] => k = j /\ b = f
    <2>1. IsTree(T, K, r, d)
      BY <1>1
    <2> QED BY <2>1, TreeLinks
  <1>3. /\ IsTree(T \ {n}, J, r, d) /\ n \in T
        /\ p \in T \ {n} /\ c \in T \ {n}
    <2>1. IsTree(T, K, r, d)
      BY <1>1
    <2> QED BY <2>1, TreeSkip
  <1>4. g[r].prefix = <<>>
    <2>1. r # n /\ r # c
      BY <1>0, <1>2, <1>3
    <2> QED BY <1>1, <1>2, <2>1
  <1>5. Head(g[c].prefix) = l
    BY <1>0, <1>1 DEF EdgeShape
  <1>6. ASSUME NEW k \in T \ {n}
        PROVE  EdgeShape(g, J[k])
    <2>1. ASSUME NEW b \in Byte, J[k][b] # Nil
          PROVE  g[J[k][b]].prefix # <<>> /\ Head(g[J[k][b]].prefix) = b
      <3>1. K[k] \in [Byte -> Nat]
        BY <1>2
      <3>2. CASE k = p /\ b = l
        <4>1. J[k][b] = c
          BY <1>0, <3>1, <3>2
        <4> QED BY <1>5, <3>2, <4>1
      <3>3. CASE ~(k = p /\ b = l)
        <4>1. J[k][b] = K[k][b]
          <5>1. CASE k = p
            BY <1>0, <3>1, <3>3, <5>1
          <5>2. CASE k # p
            BY <1>0, <5>2
          <5> QED BY <5>1, <5>2
        <4>2. K[k][b] # n /\ K[k][b] # c /\ K[k][b] \in T
          BY <1>0, <1>2, <1>3, <2>1, <3>3, <4>1
        <4>3. h[K[k][b]].prefix # <<>> /\ Head(h[K[k][b]].prefix) = b
          BY <1>1, <2>1, <4>1 DEF EdgeShape
        <4>4. g[K[k][b]].prefix = h[K[k][b]].prefix
          BY <4>2
        <4> QED BY <4>1, <4>3, <4>4
      <3> QED BY <3>2, <3>3
    <2> QED BY <2>1 DEF EdgeShape
  <1> QED BY <1>3, <1>4, <1>6 DEF RadixTree

-----------------------------------------------------------------------------
(* What own, mergeChild and the others make of the heap                     *)

\* newNode's array has room for k children, or for one under every label.
LEMMA ClassRoom ==
    ASSUME NEW k \in 0..(2 * Cardinality(Byte) + 1),
           NEW j \in Nat, j <= k, j <= Cardinality(Byte)
    PROVE  j <= Class(k)
  <1>0. Cardinality(Byte) \in Nat
    BY ByteAssumption, FS_CardinalityType
  <1>1. CASE k = 0
    BY <1>1 DEF Class
  <1>2. CASE k # 0
    <2>1. PICK c \in Classes : IsClass(c, k)
      BY <1>0, <1>2, ClassesAssumption
    <2> DEFINE e == CHOOSE d \in Classes : IsClass(d, k)
    <2>2. e \in Classes /\ IsClass(e, k)
      BY <2>1
    <2>3. PICK f \in Classes : f >= Cardinality(Byte)
      BY RoomAssumption
    <2>4. Class(k) = e
      BY <1>2 DEF Class
    <2>5. e \in Nat /\ f \in Nat
      BY <2>2, <2>3, ClassesAssumption
    <2> HIDE DEF e
    <2>6. e >= k \/ f <= e
      BY <2>2, <2>3 DEF IsClass
    <2> QED BY <1>0, <2>3, <2>4, <2>5, <2>6
  <1> QED BY <1>1, <1>2

\* x and y agree in what the shape of a tree depends on, children aside.
Like(x, y) == x.prefix = y.prefix /\ x.val = y.val /\ x.cap = y.cap

\* g is h with nodes added and, unless p is Nil, c as p's child under l.
Relinked(h, g, p, l, c) ==
    /\ Len(h) <= Len(g)
    /\ \A k \in 1..Len(h) :
          /\ Like(g[k], h[k])
          /\ g[k].kids = IF k = p THEN [h[k].kids EXCEPT ![l] = c] ELSE h[k].kids

\* What link does to the nodes.
LEMMA LinkSame ==
    ASSUME NEW g \in Seq(NodeType), NEW p \in 0..Len(g), NEW l, NEW c \in Nat
    PROVE  Relinked(g, link(g, p, l, c), p, l, c)
  <1>1. Len(link(g, p, l, c)) = Len(g) /\ Len(g) \in Nat
    BY LinkType
  <1>2. CASE p = Nil
    <2>1. \A k \in 1..Len(g) : k # p
      BY <1>2 DEF Nil
    <2> QED BY <1>1, <1>2, <2>1 DEF link, Relinked, Like
  <1>3. CASE p # Nil
    <2> DEFINE x == [g[p] EXCEPT !.kids = [g[p].kids EXCEPT ![l] = c]]
    <2>1. p \in 1..Len(g) /\ g[p] \in NodeType
      BY <1>3 DEF Nil
    <2>2. Like(x, g[p]) /\ x.kids = [g[p].kids EXCEPT ![l] = c]
      BY <2>1 DEF NodeType, Like
    <2>3. \A k \in 1..Len(g) : link(g, p, l, c)[k] = IF k = p THEN x ELSE g[k]
      BY <1>3 DEF link
    <2> HIDE DEF x
    <2>4. ASSUME NEW k \in 1..Len(g)
          PROVE  /\ Like(link(g, p, l, c)[k], g[k])
                 /\ link(g, p, l, c)[k].kids =
                       IF k = p THEN [g[k].kids EXCEPT ![l] = c] ELSE g[k].kids
      <3>1. CASE k = p
        BY <2>2, <2>3, <3>1
      <3>2. CASE k # p
        BY <2>3, <3>2 DEF Like
      <3> QED BY <3>1, <3>2
    <2> QED BY <1>1, <2>4 DEF Relinked
  <1> QED BY <1>2, <1>3

\* leafOf changes no more than a leaf pointer.
LEMMA WithLeafSame ==
    ASSUME IInv, NEW w \in Writer, NEW n \in Nodes
    PROVE  /\ WithLeaf(w, n) \in Seq(NodeType)
           /\ Relinked(heap, WithLeaf(w, n), Nil, 0, Nil)
           /\ Len(WithLeaf(w, n)) = Len(heap)
  <1>1. /\ heap \in Seq(NodeType) /\ Len(heap) \in Nat /\ Len(leaves) \in Nat
        /\ \A k \in Nodes : heap[k] \in NodeType /\ k # Nil
    BY Facts DEF Nodes, Nil
  <1>2. CASE ~NeedsLeaf(w, n)
    <2>1. WithLeaf(w, n) = heap
      BY <1>2 DEF WithLeaf
    <2> QED BY <1>1, <2>1 DEF Relinked, Like, Nodes
  <1>3. CASE NeedsLeaf(w, n)
    <2> DEFINE x == [heap[n] EXCEPT !.leaf = Len(leaves) + 1]
    <2>1. WithLeaf(w, n) = [heap EXCEPT ![n] = x]
      BY <1>3 DEF WithLeaf
    <2>2. x \in NodeType /\ Like(x, heap[n]) /\ x.kids = heap[n].kids
      <3>1. heap[n] \in NodeType /\ Len(leaves) + 1 \in Nat
        BY <1>1
      <3> QED BY <3>1 DEF NodeType, Like
    <2> HIDE DEF x
    <2>3. /\ WithLeaf(w, n) \in Seq(NodeType)
          /\ Len(WithLeaf(w, n)) = Len(heap)
          /\ \A k \in 1..Len(heap) :
                WithLeaf(w, n)[k] = IF k = n THEN x ELSE heap[k]
      BY <1>1, <2>1, <2>2, ExceptSeq DEF Nodes
    <2>4. ASSUME NEW k \in 1..Len(heap)
          PROVE  /\ Like(WithLeaf(w, n)[k], heap[k]) /\ k # Nil
                 /\ WithLeaf(w, n)[k].kids = heap[k].kids
      <3>1. CASE k = n
        BY <1>1, <2>2, <2>3, <3>1
      <3>2. CASE k # n
        BY <1>1, <2>3, <3>2 DEF Like, Nodes
      <3> QED BY <3>1, <3>2
    <2> QED BY <1>1, <2>3, <2>4 DEF Relinked
  <1> QED BY <1>2, <1>3

\* A node appended to a relinked heap.
LEMMA AppendSame ==
    ASSUME NEW h \in Seq(NodeType), NEW f \in Seq(NodeType), NEW p, NEW l, NEW c,
           Relinked(h, f, p, l, c), NEW x \in NodeType
    PROVE  /\ Relinked(h, Append(f, x), p, l, c)
           /\ Append(f, x) \in Seq(NodeType)
           /\ Len(Append(f, x)) = Len(f) + 1 /\ Append(f, x)[Len(f) + 1] = x
  <1>1. /\ Append(f, x) \in Seq(NodeType)
        /\ Len(Append(f, x)) = Len(f) + 1 /\ Append(f, x)[Len(f) + 1] = x
        /\ \A i \in 1..Len(f) : Append(f, x)[i] = f[i]
    BY AppendProperties
  <1>2. Len(h) <= Len(f) /\ Len(h) \in Nat /\ Len(f) \in Nat
    BY DEF Relinked
  <1>3. \A i \in 1..Len(h) : Append(f, x)[i] = f[i]
    BY <1>1, <1>2
  <1>4. Len(h) <= Len(Append(f, x))
    BY <1>1, <1>2
  <1> QED BY <1>1, <1>3, <1>4 DEF Relinked

\* Relinked heaps one after the other, when the first only got its leaf.
LEMMA RelinkedAfter ==
    ASSUME NEW h, NEW f, NEW g, NEW p, NEW l, NEW c,
           Relinked(h, f, Nil, 0, Nil), Len(f) = Len(h), Len(h) \in Nat,
           Relinked(f, g, p, l, c)
    PROVE  Relinked(h, g, p, l, c)
  <1>1. ASSUME NEW k \in 1..Len(h)
        PROVE  /\ Like(g[k], h[k])
               /\ g[k].kids = IF k = p THEN [h[k].kids EXCEPT ![l] = c]
                                       ELSE h[k].kids
    <2>1. k # Nil /\ k \in 1..Len(f)
      BY DEF Nil
    <2>2. Like(f[k], h[k]) /\ f[k].kids = h[k].kids
      BY <2>1 DEF Relinked
    <2>3. /\ Like(g[k], f[k])
          /\ g[k].kids = IF k = p THEN [f[k].kids EXCEPT ![l] = c] ELSE f[k].kids
      BY <2>1 DEF Relinked
    <2> QED BY <2>2, <2>3 DEF Like
  <1> QED BY <1>1 DEF Relinked

\* w's step puts New in n's place: a node with n's segment and children, value
\* v, and room for k children.
PutNew(w, n, v, k) ==
    /\ heap' \in Seq(NodeType) /\ Len(heap') = New
    /\ Relinked(heap, heap', op[w].parent, op[w].l, New)
    /\ heap'[New].prefix = heap[n].prefix /\ heap'[New].kids = heap[n].kids
    /\ heap'[New].val = v
    /\ \A i \in 0..k : i <= Cardinality(Byte) => i <= heap'[New].cap
    /\ txn' = IF op[w].parent = Nil THEN [txn EXCEPT ![w].root = New] ELSE txn

\* A copy appended to what link made of the heap.
LEMMA PutsNew ==
    ASSUME IInv, NEW w \in Writer, NEW n \in Nodes, NEW g \in Seq(NodeType),
           Relinked(heap, g, Nil, 0, Nil), Len(g) = Len(heap),
           NEW x \in NodeType,
           heap' = Append(link(g, op[w].parent, op[w].l, New), x)
    PROVE  /\ heap' \in Seq(NodeType) /\ Len(heap') = New
           /\ Relinked(heap, heap', op[w].parent, op[w].l, New)
           /\ heap'[New] = x
  <1> DEFINE p == op[w].parent
             l == op[w].l
             f == link(g, p, l, New)
  <1>1. /\ heap \in Seq(NodeType) /\ Len(heap) \in Nat /\ p \in 0..Len(g)
        /\ New = Len(heap) + 1 /\ New \in Nat
    BY Facts DEF New, Ref
  <1>2. f \in Seq(NodeType) /\ Len(f) = Len(g) /\ Relinked(g, f, p, l, New)
    BY <1>1, LinkType, LinkSame
  <1>3. Relinked(heap, f, p, l, New)
    BY <1>1, <1>2, RelinkedAfter
  <1>4. /\ Relinked(heap, Append(f, x), p, l, New)
        /\ Append(f, x) \in Seq(NodeType)
        /\ Len(Append(f, x)) = Len(f) + 1 /\ Append(f, x)[Len(f) + 1] = x
    <2> HIDE DEF f, p, l
    <2> QED BY <1>1, <1>2, <1>3, AppendSame
  <1> QED BY <1>1, <1>2, <1>4

\* The heap is a relinked heap of its own.
LEMMA RelinkedSelf ==
    ASSUME IInv, NEW w \in Writer
    PROVE  heap \in Seq(NodeType) /\ Relinked(heap, heap, Nil, 0, Nil)
  <1>1. heap \in Seq(NodeType) /\ Len(heap) \in Nat
    BY Facts
  <1>2. \A k \in 1..Len(heap) : k # Nil
    BY <1>1 DEF Nil
  <1> QED BY <1>1, <1>2 DEF Relinked, Like

\* copyShape and copyNode keep segment and children, and have the room asked for.
LEMMA CopyFields ==
    ASSUME IInv, NEW w \in Writer, NEW n \in Nodes,
           NEW extra \in 0..(Cardinality(Byte) + 1)
    PROVE  /\ copyShape(w, n, extra) \in NodeType
           /\ copyShape(w, n, extra).prefix = heap[n].prefix
           /\ copyShape(w, n, extra).kids = heap[n].kids
           /\ copyNode(w, n, extra) \in NodeType
           /\ copyNode(w, n, extra).prefix = heap[n].prefix
           /\ copyNode(w, n, extra).kids = heap[n].kids
           /\ copyNode(w, n, extra).val = heap[n].val
           /\ copyNode(w, n, extra).cap = copyShape(w, n, extra).cap
           /\ \A j \in 0..(KidCount(n) + extra) : j <= Cardinality(Byte) =>
                 j <= copyShape(w, n, extra).cap
  <1>1. heap[n] \in NodeType
    BY Facts
  <1>2. copyShape(w, n, extra) \in NodeType /\ copyNode(w, n, extra) \in NodeType
        /\ copyShape(w, n, extra).kids = heap[n].kids
        /\ copyNode(w, n, extra).kids = heap[n].kids
        /\ copyNode(w, n, extra).val = heap[n].val
    BY CopyType
  <1>3. /\ copyShape(w, n, extra).prefix = heap[n].prefix
        /\ copyShape(w, n, extra).cap = Class(KidCount(n) + extra)
    BY <1>1 DEF copyShape, NodeType
  <1>4. /\ copyNode(w, n, extra).prefix = copyShape(w, n, extra).prefix
        /\ copyNode(w, n, extra).cap = copyShape(w, n, extra).cap
    <2> DEFINE s == copyShape(w, n, extra)
    <2>1. copyNode(w, n, extra) =
             [s EXCEPT !.val = heap[n].val, !.leaf = shareLeaf(w, n)]
      BY DEF copyNode
    <2>2. s \in NodeType
      BY <1>2
    <2> HIDE DEF s
    <2>3. copyNode(w, n, extra).prefix = s.prefix
          /\ copyNode(w, n, extra).cap = s.cap
      BY <2>1, <2>2 DEF NodeType
    <2> QED BY <2>3 DEF s
  <1>5. ASSUME NEW j \in 0..(KidCount(n) + extra), j <= Cardinality(Byte)
        PROVE  j <= Class(KidCount(n) + extra)
    <2>1. Cardinality(Byte) \in Nat
      BY ByteAssumption, FS_CardinalityType
    <2>2. KidCount(n) \in 0..Cardinality(Byte)
      BY KidCountType
    <2>3. KidCount(n) + extra \in 0..(2 * Cardinality(Byte) + 1)
          /\ j \in Nat /\ j <= KidCount(n) + extra
      BY <2>1, <2>2
    <2> QED BY <1>5, <2>3, ClassRoom
  <1> QED BY <1>2, <1>3, <1>4, <1>5

\* own leaves everything as it is, or puts a copy in n's place.
LEMMA OwnEffect ==
    ASSUME IInv, NEW w \in Writer, NEW n \in Nodes, NEW extra \in {0, 1},
           own(w, n, extra)
    PROVE  \/ /\ ownResult(w, n, extra) = n
              /\ heap' = heap /\ txn' = txn /\ notifier' = notifier
              /\ KidCount(n) + extra <= heap[n].cap
           \/ /\ ownResult(w, n, extra) = New
              /\ PutNew(w, n, heap[n].val, KidCount(n) + extra)
              /\ IF Owns(w, n) THEN notifier' = notifier
                 ELSE notifier' = dropNode(w, notifier, n)
  <1>1. CASE ownKeep(w, n, extra)
    BY <1>1 DEF ownKeep, ownResult, ownFits
  <1> DEFINE c == Cardinality(Byte)
  <1>2. /\ c \in Nat /\ KidCount(n) \in 0..c /\ n \in Nodes
        /\ heap \in Seq(NodeType) /\ heap[n] \in NodeType
        /\ heap[n].lob \in {0, 1}
    BY ByteAssumption, FS_CardinalityType, KidCountType, Facts DEF NodeType
  <1>3. CASE ownGrow(w, n, extra)
    <2> DEFINE y == copyNode(w, n, KidCount(n) + extra)
               x == [y EXCEPT !.lob = heap[n].lob]
               j == KidCount(n) + extra
    <2>1. /\ ownResult(w, n, extra) = New /\ Owns(w, n) /\ notifier' = notifier
          /\ linkRoot(w, op[w].parent, New)
          /\ heap' = Append(link(heap, op[w].parent, op[w].l, New), x)
      BY <1>3 DEF ownGrow, ownResult
    <2>2. j \in 0..(c + 1) /\ \A i \in 0..j : i \in 0..(KidCount(n) + j)
      BY <1>2
    <2>3. /\ y \in NodeType /\ y.prefix = heap[n].prefix
          /\ y.kids = heap[n].kids /\ y.val = heap[n].val
          /\ \A i \in 0..j : i <= c => i <= y.cap
      <3> HIDE DEF j
      <3> QED BY <2>2, CopyFields DEF j
    <2> HIDE DEF y, j
    <2>4. /\ x \in NodeType /\ x.prefix = y.prefix
          /\ x.kids = y.kids /\ x.val = y.val /\ x.cap = y.cap
      BY <1>2, <2>3 DEF NodeType
    <2> HIDE DEF x
    <2>5. /\ heap' \in Seq(NodeType) /\ Len(heap') = New /\ heap'[New] = x
          /\ Relinked(heap, heap', op[w].parent, op[w].l, New)
      BY <1>2, <2>1, <2>4, RelinkedSelf, PutsNew
    <2>6. PutNew(w, n, heap[n].val, j)
      BY <2>1, <2>3, <2>4, <2>5 DEF PutNew, linkRoot
    <2> QED BY <2>1, <2>6 DEF j
  <1>4. CASE ownCopy(w, n, extra)
    <2> DEFINE x == copyNode(w, n, extra)
               g == WithLeaf(w, n)
               j == KidCount(n) + extra
    <2>1. /\ ownResult(w, n, extra) = New /\ ~Owns(w, n)
          /\ notifier' = dropNode(w, notifier, n)
          /\ linkRoot(w, op[w].parent, New)
          /\ heap' = Append(link(g, op[w].parent, op[w].l, New), x)
      BY <1>4 DEF ownCopy, ownResult, ownFits
    <2>2. extra \in 0..(c + 1)
          /\ \A i \in 0..j : i \in 0..(KidCount(n) + extra)
      BY <1>2
    <2>3. /\ x \in NodeType /\ x.prefix = heap[n].prefix
          /\ x.kids = heap[n].kids /\ x.val = heap[n].val
          /\ \A i \in 0..j : i <= c => i <= x.cap
      <3> HIDE DEF j
      <3> QED BY <2>2, CopyFields
    <2>4. g \in Seq(NodeType) /\ Len(g) = Len(heap)
          /\ Relinked(heap, g, Nil, 0, Nil)
      BY <1>2, WithLeafSame
    <2> HIDE DEF x, g
    <2>5. /\ heap' \in Seq(NodeType) /\ Len(heap') = New /\ heap'[New] = x
          /\ Relinked(heap, heap', op[w].parent, op[w].l, New)
      BY <1>2, <2>1, <2>3, <2>4, PutsNew
    <2> HIDE DEF j
    <2>6. PutNew(w, n, heap[n].val, j)
      BY <2>1, <2>3, <2>5 DEF PutNew, linkRoot
    <2> QED BY <2>1, <2>6 DEF j
  <1> QED BY <1>1, <1>3, <1>4 DEF own

\* So does ownValueless, for the value it stores.
LEMMA ValuelessEffect ==
    ASSUME IInv, NEW w \in Writer, NEW n \in Nodes, NEW v \in Nat,
           NEW bit \in {0, 1}, ownValueless(w, n, v, bit)
    PROVE  LET nf == IF heap[n].val = NoVal THEN notifier
                                            ELSE releaseValue(w, notifier, n)
           IN  \/ /\ Owns(w, n) /\ txn' = txn /\ notifier' = nf
                  /\ heap' \in Seq(NodeType) /\ Len(heap') = Len(heap)
                  /\ \A k \in Nodes : /\ heap'[k].prefix = heap[k].prefix
                                      /\ heap'[k].kids = heap[k].kids
                                      /\ heap'[k].cap = heap[k].cap
                                      /\ heap'[k].val = IF k = n THEN v
                                                        ELSE heap[k].val
               \/ /\ ~Owns(w, n) /\ PutNew(w, n, v, KidCount(n))
                  /\ notifier' = dropNode(w, nf, n)
  <1> DEFINE nf == IF heap[n].val = NoVal THEN notifier
                                          ELSE releaseValue(w, notifier, n)
             c == Cardinality(Byte)
  <1>1. /\ c \in Nat /\ KidCount(n) \in 0..c /\ n \in 1..Len(heap)
        /\ heap \in Seq(NodeType) /\ heap[n] \in NodeType /\ Nodes = 1..Len(heap)
    BY ByteAssumption, FS_CardinalityType, KidCountType, Facts
       DEF NodeType, Nodes
  <1>2. CASE Owns(w, n) /\ txn' = txn
    <2> DEFINE x == [heap[n] EXCEPT !.leaf = Nil, !.val = v, !.lob = bit]
    <2>1. heap' = [heap EXCEPT ![n] = x] /\ notifier' = nf
      BY <1>2 DEF ownValueless
    <2>2. x \in NodeType /\ x.prefix = heap[n].prefix /\ x.kids = heap[n].kids
          /\ x.cap = heap[n].cap /\ x.val = v
      BY <1>1 DEF NodeType, Nil
    <2> HIDE DEF x
    <2>3. /\ heap' \in Seq(NodeType) /\ Len(heap') = Len(heap)
          /\ \A k \in 1..Len(heap) : heap'[k] = IF k = n THEN x ELSE heap[k]
      BY <1>1, <2>1, <2>2, ExceptSeq
    <2>4. ASSUME NEW k \in Nodes
          PROVE  /\ heap'[k].prefix = heap[k].prefix
                 /\ heap'[k].kids = heap[k].kids
                 /\ heap'[k].cap = heap[k].cap
                 /\ heap'[k].val = IF k = n THEN v ELSE heap[k].val
      <3>1. heap'[k] = IF k = n THEN x ELSE heap[k]
        BY <1>1, <2>3
      <3> QED BY <2>2, <3>1
    <2> QED BY <1>2, <2>1, <2>3, <2>4
  <1>3. CASE ~(Owns(w, n) /\ txn' = txn)
    <2> DEFINE s == copyShape(w, n, 0)
               x == [s EXCEPT !.val = v, !.lob = bit]
               j == KidCount(n)
    <2>1. /\ ~Owns(w, n) /\ notifier' = dropNode(w, nf, n)
          /\ linkRoot(w, op[w].parent, New)
          /\ heap' = Append(link(heap, op[w].parent, op[w].l, New), x)
      BY <1>3 DEF ownValueless
    <2>2. 0 \in 0..(c + 1) /\ \A i \in 0..j : i \in 0..(KidCount(n) + 0)
      BY <1>1
    <2>3. /\ s \in NodeType /\ s.prefix = heap[n].prefix
          /\ s.kids = heap[n].kids
          /\ \A i \in 0..j : i <= c => i <= s.cap
      <3> HIDE DEF j
      <3> QED BY <2>2, CopyFields
    <2> HIDE DEF s, j
    <2>4. /\ x \in NodeType /\ x.prefix = s.prefix
          /\ x.kids = s.kids /\ x.val = v /\ x.cap = s.cap
      BY <1>1, <2>3 DEF NodeType
    <2> HIDE DEF x
    <2>5. /\ heap' \in Seq(NodeType) /\ Len(heap') = New /\ heap'[New] = x
          /\ Relinked(heap, heap', op[w].parent, op[w].l, New)
      BY <1>1, <2>1, <2>4, RelinkedSelf, PutsNew
    <2>6. PutNew(w, n, v, j)
      BY <2>1, <2>3, <2>4, <2>5 DEF PutNew, linkRoot
    <2> QED BY <2>1, <2>6 DEF j
  <1> QED BY <1>2, <1>3

\* mergeChild gives c the joined segment where it is, or puts a copy that has
\* it in n's place.
LEMMA MergeEffect ==
    ASSUME IInv, NEW w \in Writer, NEW n \in Nodes, NEW c \in Nodes, NEW nf,
           op[w].parent # Nil, mergeChild(w, nf, n, c)
    PROVE  LET p == op[w].parent
               l == op[w].l
               joined == heap[n].prefix \o heap[c].prefix
           IN  /\ txn' = txn /\ notifier' = dropReplaced(w, nf, c)
               /\ heap' \in Seq(NodeType)
               /\ \/ /\ Owns(w, c) /\ Len(heap') = Len(heap)
                     /\ \A k \in Nodes :
                           /\ heap'[k].prefix = IF k = c THEN joined
                                                         ELSE heap[k].prefix
                           /\ heap'[k].val = heap[k].val
                           /\ heap'[k].cap = heap[k].cap
                           /\ heap'[k].kids =
                                 IF k = p THEN [heap[k].kids EXCEPT ![l] = c]
                                          ELSE heap[k].kids
                  \/ /\ Len(heap') = New
                     /\ Relinked(heap, heap', p, l, New)
                     /\ heap'[New].prefix = joined
                     /\ heap'[New].kids = heap[c].kids
                     /\ heap'[New].val = heap[c].val
                     /\ KidCount(c) <= heap'[New].cap
  <1> DEFINE p == op[w].parent
             l == op[w].l
             joined == heap[n].prefix \o heap[c].prefix
             N == Cardinality(Byte)
  <1>1. /\ N \in Nat /\ KidCount(c) \in 0..N /\ c \in 1..Len(heap)
        /\ heap \in Seq(NodeType) /\ heap[c] \in NodeType /\ Nodes = 1..Len(heap)
        /\ p \in 0..Len(heap) /\ c \in Nat /\ Len(heap) \in Nat
    BY ByteAssumption, FS_CardinalityType, KidCountType, Facts
       DEF NodeType, Nodes, Ref
  <1>2. joined \in Seq(Byte)
    <2>1. heap[n].prefix \in Seq(Byte) /\ heap[c].prefix \in Seq(Byte)
      BY Facts DEF NodeType
    <2> QED BY <2>1
  <1>3. txn' = txn /\ notifier' = dropReplaced(w, nf, c)
    BY DEF mergeChild
  <1>4. CASE /\ Owns(w, c) /\ ~Childless(c)
             /\ heap' = [[heap EXCEPT ![c].prefix = joined]
                               EXCEPT ![p].kids[l] = c]
    <2> DEFINE x == [heap[c] EXCEPT !.prefix = joined]
               h == [heap EXCEPT ![c] = x]
    <2>1. heap' = link(h, p, l, c)
      BY <1>4 DEF link
    <2>2. x \in NodeType /\ x.prefix = joined /\ x.kids = heap[c].kids
          /\ x.cap = heap[c].cap /\ x.val = heap[c].val
      BY <1>1, <1>2 DEF NodeType
    <2> HIDE DEF x, joined
    <2>3. /\ h \in Seq(NodeType) /\ Len(h) = Len(heap)
          /\ \A k \in 1..Len(heap) : h[k] = IF k = c THEN x ELSE heap[k]
      BY <1>1, <2>2, ExceptSeq
    <2> HIDE DEF h
    <2>4. /\ heap' \in Seq(NodeType) /\ Len(heap') = Len(heap)
          /\ Relinked(h, heap', p, l, c)
      <3> HIDE DEF p, l
      <3> QED BY <1>1, <2>1, <2>3, LinkType, LinkSame
    <2>5. ASSUME NEW k \in Nodes
          PROVE  /\ heap'[k].prefix = IF k = c THEN joined ELSE heap[k].prefix
                 /\ heap'[k].val = heap[k].val
                 /\ heap'[k].cap = heap[k].cap
                 /\ heap'[k].kids = IF k = p THEN [heap[k].kids EXCEPT ![l] = c]
                                             ELSE heap[k].kids
      <3>1. /\ Like(heap'[k], h[k])
            /\ heap'[k].kids = IF k = p THEN [h[k].kids EXCEPT ![l] = c]
                                        ELSE h[k].kids
        BY <1>1, <2>3, <2>4 DEF Relinked
      <3>2. h[k] = IF k = c THEN x ELSE heap[k]
        BY <1>1, <2>3
      <3> QED BY <2>2, <3>1, <3>2 DEF Like
    <2> QED BY <1>3, <1>4, <2>4, <2>5 DEF joined
  <1>5. CASE heap' = Append(link(WithLeaf(w, c), p, l, New),
                            [copyNode(w, c, 0) EXCEPT
                               !.prefix = joined,
                               !.lob = IF Owns(w, c) THEN heap[c].lob ELSE 0])
    <2> DEFINE y == copyNode(w, c, 0)
               bit == IF Owns(w, c) THEN heap[c].lob ELSE 0
               x == [y EXCEPT !.prefix = joined, !.lob = bit]
               g == WithLeaf(w, c)
               j == KidCount(c)
    <2>1. heap' = Append(link(g, p, l, New), x)
      BY <1>5
    <2>2. 0 \in 0..(N + 1) /\ j \in 0..(KidCount(c) + 0) /\ j <= N
      BY <1>1
    <2>7. bit \in {0, 1}
      BY <1>1 DEF NodeType
    <2>3. /\ y \in NodeType /\ y.prefix = heap[c].prefix
          /\ y.kids = heap[c].kids /\ y.val = heap[c].val /\ j <= y.cap
      <3> HIDE DEF j
      <3> QED BY <1>1, <2>2, CopyFields
    <2>4. g \in Seq(NodeType) /\ Len(g) = Len(heap)
          /\ Relinked(heap, g, Nil, 0, Nil)
      BY <1>1, WithLeafSame
    <2> HIDE DEF y, j, g, bit, joined
    <2>5. /\ x \in NodeType /\ x.prefix = joined
          /\ x.kids = y.kids /\ x.val = y.val /\ x.cap = y.cap
      BY <1>2, <2>7, <2>3 DEF NodeType
    <2> HIDE DEF x
    <2>6. /\ heap' \in Seq(NodeType) /\ Len(heap') = New /\ heap'[New] = x
          /\ Relinked(heap, heap', p, l, New)
      BY <1>1, <2>1, <2>4, <2>5, PutsNew
    <2> QED BY <1>3, <2>3, <2>5, <2>6 DEF j, joined
  <1> QED BY <1>4, <1>5 DEF mergeChild

-----------------------------------------------------------------------------
(* The tree of a transaction in the middle of a call                        *)

\* The call has decided to take a child away from a node, and not done so yet:
\* the node and the label of the child.
Cutting(o) == \/ o.pc \in {"cut", "pull"}
              \/ o.pc = "ownpath" /\ o.goal \in {"cut", "pull"}
LastEntry(o) == o.path[Len(o.path)]
CutAt(o) == IF o.pc = "cut" THEN o.parent ELSE LastEntry(o).n
CutLabel(o) == IF o.pc = "cut" THEN o.l ELSE LastEntry(o).l

\* The children of node k as the call o is about to leave them.
View(h, o, k) ==
    IF o.pc = "fork" /\ k = o.n
    THEN [h[k].kids EXCEPT ![Head(o.search)] = o.m]
    ELSE IF Cutting(o) /\ k = CutAt(o)
    THEN [h[k].kids EXCEPT ![CutLabel(o)] = Nil]
    ELSE h[k].kids
Edges(h, o) == [k \in 1..Len(h) |-> View(h, o, k)]

\* The nodes on the way from parent to the node the call works on; that one is
\* gone when the call is cutting.
Target(o) == IF o.pc \in {"insert", "find"} THEN o.n ELSE o.m
Stop(o, i) == IF i <= Len(o.path) THEN o.path[i].n ELSE Target(o)
Stops(o) == IF Cutting(o) THEN Len(o.path) ELSE Len(o.path) + 1

Way(o, T, K, r, d) ==
    /\ HangsAt(T, K, r, o.parent, o.l, Stop(o, 1))
    /\ \A i \in 1..Stops(o) : Stop(o, i) \in T
    /\ \A i \in 1..Len(o.path) : o.path[i].l \in Byte
    /\ \A i \in 1..Len(o.path) : i < Stops(o) =>
          K[o.path[i].n][o.path[i].l] = Stop(o, i + 1)
    /\ \A i, j \in 1..Stops(o) : i < j => d[Stop(o, i)] < d[Stop(o, j)]
    /\ o.parent # Nil => \A i \in 1..Stops(o) : d[o.parent] < d[Stop(o, i)]

\* Where o is in tree T, and what it has found out about the nodes at hand.
Goal(o) == IF o.pc = "ownpath" THEN o.goal ELSE o.pc
Place(h, o, T, K, r, d) ==
    /\ o.pc \in {"insert", "find", "remove", "ownpath", "pull", "fold", "clear"}
          => Way(o, T, K, r, d)
    /\ o.pc \in {"hang", "down", "split", "fork"} => o.n \in T
    /\ o.pc = "cut" => o.parent \in T /\ o.l \in Byte
    /\ o.pc \in InsertPc \cup {"fold", "clear"} => o.path = <<>>
    /\ o.pc \in {"find", "remove"} => o.parent = Nil
    /\ o.pc = "ownpath" => Len(o.path) # 0
    /\ o.pc = "pull" => Len(o.path) = 1
    /\ o.pc \in InsertPc => o.val # NoVal
    /\ o.pc = "hang" => /\ h[o.n].kids[Head(o.search)] = Nil
                        /\ Cardinality(Has(h, o.n)) < h[o.n].cap
    /\ o.pc = "fork" => h[o.n].kids[Head(o.search)] # Nil
    /\ Goal(o) = "cut" => \/ h[CutAt(o)].prefix = <<>>
                          \/ h[CutAt(o)].val # NoVal
                          \/ Cardinality(Has(h, CutAt(o))) >= 3
    /\ Goal(o) = "pull" => /\ h[CutAt(o)].val = NoVal
                           /\ Cardinality(Has(h, CutAt(o))) = 2
    /\ Cutting(o) => h[CutAt(o)].kids[CutLabel(o)] # Nil
    /\ Goal(o) = "fold" => Cardinality(Has(h, o.m)) = 1
    /\ Goal(o) = "clear" => \/ h[o.m].prefix = <<>>
                            \/ Cardinality(Has(h, o.m)) >= 2

Live(h, o, r, T, d) == /\ RadixTree(h, T, Edges(h, o), r, d)
                       /\ Place(h, o, T, Edges(h, o), r, d)
LiveTree(h, o, r) == \E T, d : Live(h, o, r, T, d)

Fits(h) == \A k \in 1..Len(h) : Cardinality(Has(h, k)) <= h[k].cap

\* Below every published root, and below the root of every transaction, hangs a
\* radix tree, but for what the transaction's call has just taken out of it.
SInv ==
    /\ Fits(heap)
    /\ \A t \in trees : LiveTree(heap, IdleOp, t)
    /\ \A w \in Writer : txn[w].root # Nil => LiveTree(heap, op[w], txn[w].root)

\* A node is the same in h and in g, as far as that matters.
Same(h, g, k) == Like(g[k], h[k]) /\ g[k].kids = h[k].kids

\* The locals of a call are the ones a call starts from.
LEMMA IdleType == IdleOp \in OpType /\ IdleOp.path = <<>> /\ IdleOp.pc = "idle"
  BY DEF IdleOp, OpType, PathType, Nil, NoVal

\* A call that cuts or forks nothing sees the children there are.
LEMMA PlainEdges ==
    ASSUME NEW h, NEW o, o.pc # "fork", ~Cutting(o)
    PROVE  Edges(h, o) = [k \in 1..Len(h) |-> h[k].kids]
  BY DEF Edges, View

\* What a call sees of a node that is the same in two heaps is the same.
LEMMA SameView ==
    ASSUME NEW h, NEW g, NEW o, NEW k, Same(h, g, k)
    PROVE  View(g, o, k) = View(h, o, k)
  BY DEF Same, View

\* The way of a call depends on the edges between nodes of the tree only.
LEMMA WaySame ==
    ASSUME NEW o \in OpType, NEW T, NEW K, NEW J, NEW r, NEW d,
           Way(o, T, K, r, d), \A k \in T : J[k] = K[k]
    PROVE  Way(o, T, J, r, d)
  <1>1. Len(o.path) \in Nat
    BY DEF OpType, PathType
  <1>2. HangsAt(T, J, r, o.parent, o.l, Stop(o, 1))
    BY DEF Way, HangsAt
  <1>3. ASSUME NEW i \in 1..Len(o.path), i < Stops(o)
        PROVE  J[o.path[i].n][o.path[i].l] = Stop(o, i + 1)
    <2>1. Stop(o, i) = o.path[i].n
      BY DEF Stop
    <2>2. i \in 1..Stops(o)
      BY <1>1, <1>3 DEF Stops
    <2>3. o.path[i].n \in T
      BY <2>1, <2>2 DEF Way
    <2> QED BY <1>3, <2>3 DEF Way
  <1> QED BY <1>2, <1>3 DEF Way

\* A tree none of whose nodes changes goes on being what it was to its call.
LEMMA LiveSame ==
    ASSUME NEW h, NEW g, NEW o \in OpType, NEW r, NEW T, NEW d,
           Live(h, o, r, T, d), T \subseteq 1..Len(h),
           Len(h) \in Nat, Len(g) \in Nat, Len(h) <= Len(g),
           \A k \in T : Same(h, g, k)
    PROVE  Live(g, o, r, T, d)
  <1> DEFINE K == Edges(h, o)
             J == Edges(g, o)
  <1>1. RadixTree(h, T, K, r, d) /\ Place(h, o, T, K, r, d)
    BY DEF Live
  <1>2. \A k \in T : k \in 1..Len(h) /\ k \in 1..Len(g)
    OBVIOUS
  <1>3. \A k \in T : J[k] = K[k]
    BY <1>2, SameView DEF Edges
  <1>4. \A k \in T : g[k].prefix = h[k].prefix /\ g[k].val = h[k].val
                     /\ g[k].cap = h[k].cap /\ g[k].kids = h[k].kids
    BY DEF Same, Like
  <1>5. \A k \in T : Has(g, k) = Has(h, k)
    BY <1>4 DEF Has
  <1> HIDE DEF K, J
  <1>6. RadixTree(g, T, J, r, d)
    <2>1. \A k \in T : Full(h, k)
      BY <1>1 DEF RadixTree
    <2>2. \A k \in T : Full(g, k)
      BY <1>4, <1>5, <2>1 DEF Full
    <2>3. RadixTree(h, T, K, r, d)
      BY <1>1
    <2> QED BY <1>3, <1>4, <2>2, <2>3, Unchanged
  <1>7. Place(g, o, T, J, r, d)
    <2> DEFINE pcs == {"insert", "find", "remove", "ownpath", "pull", "fold",
                       "clear"}
    <2>1. o.pc \in pcs => Way(o, T, K, r, d)
      BY <1>1 DEF Place
    <2>2. o.pc \in pcs => Way(o, T, J, r, d)
      BY <1>3, <2>1, WaySame
    <2>3. Len(o.path) \in Nat
      BY DEF OpType, PathType
    <2>4. ASSUME Goal(o) \in {"cut", "pull"} \/ Cutting(o)
          PROVE  CutAt(o) \in T
      <3>1. CASE o.pc = "cut"
        BY <1>1, <3>1 DEF Place, CutAt
      <3>2. CASE o.pc # "cut"
        <4>1. o.pc \in {"ownpath", "pull"} /\ Cutting(o)
          BY <2>4, <3>2 DEF Goal, Cutting
        <4>2. Way(o, T, K, r, d) /\ Stops(o) = Len(o.path)
          BY <2>1, <4>1 DEF Stops
        <4>3. Len(o.path) # 0
          BY <1>1, <4>1, <4>2 DEF Place
        <4>4. Stop(o, Len(o.path)) \in T
          BY <2>3, <4>2, <4>3 DEF Way
        <4>5. Stop(o, Len(o.path)) = LastEntry(o).n
          BY <2>3 DEF Stop, LastEntry
        <4> QED BY <3>2, <4>4, <4>5 DEF CutAt
      <3> QED BY <3>1, <3>2
    <2>5. ASSUME Goal(o) \in {"fold", "clear"}
          PROVE  o.m \in T
      <3>1. o.pc \in {"ownpath", "fold", "clear"} /\ ~Cutting(o)
        BY <2>5 DEF Goal, Cutting
      <3>2. Way(o, T, K, r, d) /\ Stops(o) = Len(o.path) + 1
        BY <2>1, <3>1 DEF Stops
      <3>3. Stop(o, Len(o.path) + 1) = o.m
        BY <2>3, <3>1 DEF Stop, Target
      <3>4. Len(o.path) + 1 \in 1..Stops(o)
        BY <2>3, <3>2
      <3> QED BY <3>2, <3>3, <3>4 DEF Way
    <2>6. o.pc \in {"hang", "down", "split", "fork"} => o.n \in T
      BY <1>1 DEF Place
    <2> QED
      BY <1>1, <1>4, <1>5, <2>2, <2>4, <2>5, <2>6 DEF Place
  <1> QED BY <1>6, <1>7 DEF Live, J

\* The tree of a transaction is made of nodes it may see.
LEMMA LiveNodes ==
    ASSUME IInv, NEW w \in Writer, txn[w].root # Nil, NEW T, NEW d,
           Live(heap, op[w], txn[w].root, T, d)
    PROVE  T \subseteq Nodes /\ \A k \in T : Visible(w, k)
  <1> DEFINE K == Edges(heap, op[w])
             r == txn[w].root
             S == {k \in Nodes : Visible(w, k)}
  <1>1. IsTree(T, K, r, d)
    BY DEF Live, RadixTree
  <1>2. r \in S
    BY Facts DEF CallVisible
  <1>3. ASSUME NEW k \in S \cap T, NEW b \in Byte, K[k][b] # Nil
        PROVE  K[k][b] \in S
    <2>1. k \in Nodes /\ Visible(w, k) /\ heap[k].kids \in [Byte -> Nat]
          /\ k \in 1..Len(heap)
      BY Facts DEF NodeType, Nodes
    <2>2. K[k][b] = View(heap, op[w], k)[b]
      BY <2>1 DEF Edges
    <2>3. heap[k].kids[b] # Nil => heap[k].kids[b] \in S
      BY <2>1, KidVisible DEF Kid
    <2>4. CASE op[w].pc = "fork" /\ k = op[w].n
      <3>1. \/ K[k][b] = heap[k].kids[b]
            \/ K[k][b] = op[w].m
        BY <2>1, <2>2, <2>4 DEF View
      <3>2. op[w].m \in S
        BY <2>4, Facts DEF CallVisible, CallAt
      <3> QED BY <1>3, <2>3, <3>1, <3>2
    <2>5. CASE /\ ~(op[w].pc = "fork" /\ k = op[w].n)
               /\ Cutting(op[w]) /\ k = CutAt(op[w])
      <3>1. \/ K[k][b] = heap[k].kids[b]
            \/ K[k][b] = Nil
        BY <2>1, <2>2, <2>5 DEF View
      <3> QED BY <1>3, <2>3, <3>1
    <2>6. CASE /\ ~(op[w].pc = "fork" /\ k = op[w].n)
               /\ ~(Cutting(op[w]) /\ k = CutAt(op[w]))
      BY <1>3, <2>2, <2>3, <2>6 DEF View
    <2> QED BY <2>4, <2>5, <2>6
  <1> HIDE DEF S, K, r
  <1>4. T \subseteq S
    BY <1>1, <1>2, <1>3, TreeLeast
  <1> QED BY <1>4 DEF S

\* A published tree is made of frozen nodes.
LEMMA PubNodes ==
    ASSUME IInv, NEW t \in trees, NEW F, NEW d, Live(heap, IdleOp, t, F, d)
    PROVE  F \subseteq Nodes /\ \A k \in F : Frozen(k)
  <1> DEFINE K == Edges(heap, IdleOp)
             S == {k \in Nodes : Frozen(k)}
  <1>1. IsTree(F, K, t, d)
    BY DEF Live, RadixTree
  <1>2. t \in S /\ OwnedBelowOwned
    BY DEF IInv, TypeOK, PubOK, Ownership, SharedIsFrozen
  <1>3. ASSUME NEW k \in S \cap F, NEW b \in Byte, K[k][b] # Nil
        PROVE  K[k][b] \in S
    <2>1. k \in Nodes /\ k \in 1..Len(heap) /\ Frozen(k)
      BY DEF Nodes
    <2>2. K[k][b] = heap[k].kids[b]
      BY <2>1, IdleType, PlainEdges DEF Cutting
    <2>3. heap[k].kids[b] \in Nodes
      BY <1>3, <2>1, <2>2, MainAssumption, Facts
    <2> QED BY <1>2, <1>3, <2>1, <2>2, <2>3 DEF OwnedBelowOwned, Frozen
  <1> HIDE DEF S, K
  <1>4. F \subseteq S
    BY <1>1, <1>2, <1>3, TreeLeast
  <1> QED BY <1>4 DEF S

\* w's step changes no node but its own, publishes nothing, and moves on in no
\* call but its own.
Spares(w) ==
    /\ heap' \in Seq(NodeType) /\ Len(heap) <= Len(heap')
    /\ \A k \in Nodes : ~Mine(w, k) => Same(heap, heap', k)
    /\ \A v \in Writer : v # w => op'[v] = op[v] /\ txn'[v].root = txn[v].root
    /\ trees' = trees

\* Then it is enough to look at w's own tree.
LEMMA SparedStay ==
    ASSUME IInv, SInv, NEW w \in Writer, Spares(w), Fits(heap'),
           txn'[w].root # Nil => LiveTree(heap', op'[w], txn'[w].root)
    PROVE  SInv'
  <1>1. Len(heap) \in Nat /\ Len(heap') \in Nat /\ Len(heap) <= Len(heap')
        /\ Nodes = 1..Len(heap)
    BY Facts DEF Spares, Nodes
  <1>2. ASSUME NEW t \in trees
        PROVE  LiveTree(heap', IdleOp, t)
    <2>1. PICK F, d : Live(heap, IdleOp, t, F, d)
      BY DEF SInv, LiveTree
    <2>2. F \subseteq Nodes /\ \A k \in F : Frozen(k)
      BY <2>1, PubNodes
    <2>3. \A k \in F : Same(heap, heap', k)
      BY <2>2 DEF Frozen, Spares
    <2>4. Live(heap', IdleOp, t, F, d)
      BY <1>1, <2>1, <2>2, <2>3, IdleType, LiveSame
    <2> QED BY <2>4 DEF LiveTree
  <1>3. ASSUME NEW v \in Writer, v # w, txn'[v].root # Nil
        PROVE  LiveTree(heap', op'[v], txn'[v].root)
    <2>1. op'[v] = op[v] /\ txn'[v].root = txn[v].root
      BY <1>3 DEF Spares
    <2>2. PICK T, d : Live(heap, op[v], txn[v].root, T, d)
      BY <1>3, <2>1 DEF SInv, LiveTree
    <2>3. T \subseteq Nodes /\ \A k \in T : Visible(v, k)
      BY <1>3, <2>1, <2>2, LiveNodes
    <2>4. \A k \in T : Same(heap, heap', k)
      BY <1>3, <2>3 DEF Visible, Spares
    <2>5. op[v] \in OpType
      BY Facts
    <2>6. Live(heap', op[v], txn[v].root, T, d)
      BY <1>1, <2>2, <2>3, <2>4, <2>5, LiveSame
    <2> QED BY <2>1, <2>6 DEF LiveTree
  <1> QED BY <1>2, <1>3 DEF SInv, Spares

\* The nodes are what they were.
LEMMA StillSpares ==
    ASSUME IInv, NEW w \in Writer, heap' = heap, trees' = trees,
           \A v \in Writer : v # w => op'[v] = op[v] /\ txn'[v].root = txn[v].root
    PROVE  Spares(w)
  <1>1. heap \in Seq(NodeType) /\ Len(heap) \in Nat
    BY Facts
  <1> QED BY <1>1 DEF Spares, Same, Like

-----------------------------------------------------------------------------
(* The steps of a call, one by one                                          *)

\* The children of the nodes of heap h.
Plain(h) == [k \in 1..Len(h) |-> h[k].kids]

\* What a step of w has to show.
Moved(w) == /\ Spares(w) /\ Fits(heap')
            /\ txn'[w].root # Nil => LiveTree(heap', op'[w], txn'[w].root)

\* Between calls, the tree is a radix tree and that is all.
LEMMA IdleLive ==
    ASSUME NEW h, NEW o, o.pc \in {"idle", "notify"}, NEW T, NEW r, NEW d,
           RadixTree(h, T, Plain(h), r, d)
    PROVE  Live(h, o, r, T, d) /\ LiveTree(h, o, r)
  <1>1. Edges(h, o) = Plain(h)
    BY PlainEdges DEF Cutting, Plain
  <1>2. Place(h, o, T, Plain(h), r, d)
    BY DEF Place, Goal, Cutting, InsertPc
  <1> QED BY <1>1, <1>2 DEF LiveTree, Live

\* The other way round.
LEMMA LiveIdle ==
    ASSUME NEW h, NEW o, o.pc \in {"idle", "notify"}, NEW r, LiveTree(h, o, r)
    PROVE  \E T, d : RadixTree(h, T, Plain(h), r, d)
  <1>1. Edges(h, o) = Plain(h)
    BY PlainEdges DEF Cutting, Plain
  <1> QED BY <1>1 DEF LiveTree, Live

\* The tree w's call is in, and what w's step finds.
LEMMA MyTree ==
    ASSUME IInv, SInv, NEW w \in Writer, txn[w].root # Nil
    PROVE  \E T, d : /\ RadixTree(heap, T, Edges(heap, op[w]), txn[w].root, d)
                     /\ IsTree(T, Edges(heap, op[w]), txn[w].root, d)
                     /\ Place(heap, op[w], T, Edges(heap, op[w]), txn[w].root, d)
                     /\ T \subseteq Nodes /\ T \subseteq 1..Len(heap)
                     /\ \A k \in T : k \in Nat /\ k # New /\ k # New + 1
  <1>1. PICK T, d : Live(heap, op[w], txn[w].root, T, d)
    BY DEF SInv, LiveTree
  <1>2. T \subseteq Nodes
    BY <1>1, LiveNodes
  <1>3. \A k \in Nodes : k \in Nat /\ k # New /\ k # New + 1
    BY Facts DEF Nodes, New
  <1> QED BY <1>1, <1>2, <1>3 DEF Live, Nodes, RadixTree

\* The tree T of w's call becomes S in w's step, and no node outside of T gets
\* other children.
Turns(w, T, S) ==
    /\ \E d : Live(heap, op[w], txn[w].root, T, d)
    /\ \E d : Live(heap', op'[w], txn'[w].root, S, d)
    /\ \A k \in Nodes \ T : heap'[k].kids = heap[k].kids

\* The tree stays what it is, or New takes n's place.
Swaps(w, n) ==
    \E T, S : /\ Turns(w, T, S) /\ n \in T
              /\ S = IF Len(heap') = Len(heap) THEN T ELSE (T \ {n}) \cup {New}

\* The step put New in n's place.
LEMMA PutTurns ==
    ASSUME IInv, NEW w \in Writer, NEW n, NEW v, NEW j, PutNew(w, n, v, j),
           NEW T, NEW d, Live(heap, op[w], txn[w].root, T, d), n \in T,
           NEW K, NEW r, HangsAt(T, K, r, op[w].parent, op[w].l, n),
           NEW e, Live(heap', op'[w], txn'[w].root, (T \ {n}) \cup {New}, e)
    PROVE  Swaps(w, n)
  <1> DEFINE S == (T \ {n}) \cup {New}
  <1>1. Len(heap) \in Nat /\ Nodes = 1..Len(heap)
    BY Facts DEF Nodes
  <1>2. Len(heap') = New /\ New # Len(heap)
    BY <1>1 DEF PutNew, New
  <1>3. \A k \in Nodes \ T : heap'[k].kids = heap[k].kids
    <2>1. op[w].parent \in T \cup {Nil}
      BY DEF HangsAt
    <2>2. Nil \notin Nodes
      BY <1>1 DEF Nil
    <2> QED BY <1>1, <2>1, <2>2 DEF PutNew, Relinked
  <1>4. S = IF Len(heap') = Len(heap) THEN T ELSE (T \ {n}) \cup {New}
    BY <1>2
  <1>5. Live(heap', op'[w], txn'[w].root, S, e)
    OBVIOUS
  <1> HIDE DEF S
  <1>6. Turns(w, T, S)
    BY <1>3, <1>5 DEF Turns
  <1> QED BY <1>4, <1>6 DEF Swaps

\* The step put nothing in anybody's place.
LEMMA StayTurns ==
    ASSUME Len(heap') = Len(heap), \A k \in Nodes : heap'[k].kids = heap[k].kids,
           NEW w, NEW n, NEW T, NEW d, Live(heap, op[w], txn[w].root, T, d),
           n \in T, NEW e, Live(heap', op'[w], txn'[w].root, T, e)
    PROVE  Swaps(w, n)
  <1>1. Turns(w, T, T)
    BY DEF Turns
  <1> QED BY <1>1 DEF Swaps

\* A call that is on its way starts at the root.
LEMMA StartWay ==
    ASSUME NEW o, NEW T, NEW K, NEW r, NEW d, r \in T, o.parent = Nil,
           o.path = <<>>, o.pc \in {"insert", "find"}, o.n = r
    PROVE  Way(o, T, K, r, d)
  <1>1. Len(o.path) = 0 /\ Stops(o) = 1 /\ Stop(o, 1) = r
    BY DEF Stops, Cutting, Stop, Target
  <1> QED BY <1>1 DEF Way, HangsAt

\* Insert, Delete, DeletePrefix: the call stands at the root.
LEMMA StartMoves ==
    ASSUME IInv, SInv, NEW w \in Writer, NEW k \in Key,
           Insert(w, k) \/ Delete(w, k) \/ DeletePrefix(w, k)
    PROVE  Moved(w)
  <1> DEFINE r == txn[w].root
  <1>1. /\ op[w].pc = "idle" /\ r # Nil /\ heap' = heap /\ UNCHANGED pub
    BY DEF Insert, Delete, DeletePrefix, Ready, mem
  <1>2. k \in Seq(Byte) /\ txn \in [Writer -> [root : Ref, epoch : Nat]]
        /\ op \in [Writer -> OpType] /\ ops \in Nat
    BY KeyAssumption, Facts, Counts
  <1>3. txn'[w].root = r
        /\ \A v \in Writer : v # w => txn'[v].root = txn[v].root
    <2>1. CASE Insert(w, k)
      <3>1. begin(w)
        BY <2>1 DEF Insert
      <3> QED BY <1>2, <3>1, BeginEpoch
    <2>2. CASE ~Insert(w, k)
      BY <2>2 DEF Delete, DeletePrefix
    <2> QED BY <2>1, <2>2
  <1>4. \E o : /\ op' = [op EXCEPT ![w] = o]
               /\ o.pc \in {"insert", "find"} /\ o.n = r
               /\ o.parent = Nil /\ o.path = <<>>
               /\ o.pc = "insert" => o.val # NoVal
    <2>1. CASE Insert(w, k)
      <3> DEFINE c == Call(w, "Insert", k, "insert")
                 o == [c EXCEPT !.val = ops + 1]
      <3>1. /\ c \in OpType /\ c.pc = "insert" /\ c.n = r
            /\ c.parent = Nil /\ c.path = <<>>
        BY <1>2, CallType
      <3>2. op' = [op EXCEPT ![w] = o] /\ ops + 1 # NoVal
        BY <1>2, <2>1 DEF Insert, Goto, NoVal
      <3> HIDE DEF c
      <3>3. /\ o.pc = "insert" /\ o.n = r /\ o.val = ops + 1
            /\ o.parent = Nil /\ o.path = <<>>
        BY <3>1 DEF OpType
      <3> QED BY <3>2, <3>3
    <2>2. CASE Delete(w, k)
      <3>1. op' = [op EXCEPT ![w] = Call(w, "Delete", k, "find")]
        BY <2>2 DEF Delete, Goto
      <3> QED BY <1>2, <3>1, CallType
    <2>3. CASE DeletePrefix(w, k)
      <3>1. op' = [op EXCEPT ![w] = Call(w, "DeletePrefix", k, "find")]
        BY <2>3 DEF DeletePrefix, Goto
      <3> QED BY <1>2, <3>1, CallType
    <2> QED BY <2>1, <2>2, <2>3
  <1>5. PICK o : /\ op' = [op EXCEPT ![w] = o]
                 /\ o.pc \in {"insert", "find"} /\ o.n = r
                 /\ o.parent = Nil /\ o.path = <<>>
                 /\ o.pc = "insert" => o.val # NoVal
    BY <1>4
  <1>6. op'[w] = o /\ \A v \in Writer : v # w => op'[v] = op[v]
    BY <1>2, <1>5
  <1>7. PICK T, d : RadixTree(heap, T, Plain(heap), r, d)
    BY <1>1, LiveIdle DEF SInv
  <1>8. Edges(heap, o) = Plain(heap)
    BY <1>5, PlainEdges DEF Cutting, Plain
  <1>9. r \in T
    BY <1>7 DEF RadixTree, IsTree
  <1>10. Way(o, T, Plain(heap), r, d)
    BY <1>5, <1>9, StartWay
  <1>11. Place(heap, o, T, Plain(heap), r, d)
    BY <1>5, <1>10 DEF Place, Goal, Cutting, InsertPc
  <1>12. LiveTree(heap, o, r)
    BY <1>7, <1>8, <1>11 DEF LiveTree, Live
  <1>13. Spares(w)
    BY <1>1, <1>3, <1>6, StillSpares DEF pub
  <1> QED BY <1>1, <1>3, <1>6, <1>12, <1>13 DEF Moved, SInv

\* Where a call stands in the tree that is on its way nowhere in particular.
LEMMA AtNode ==
    ASSUME NEW o \in OpType, NEW T, NEW K, NEW r, NEW d, o.path = <<>>,
           Way(o, T, K, r, d), ~Cutting(o)
    PROVE  HangsAt(T, K, r, o.parent, o.l, Target(o)) /\ Target(o) \in T
  <1>1. Len(o.path) = 0 /\ Stops(o) = 1 /\ Stop(o, 1) = Target(o)
    BY DEF Stops, Stop
  <1> QED BY <1>1 DEF Way

\* When w puts a copy of n in n's place, every node keeps the children it had.
LEMMA PutKeeps ==
    ASSUME IInv, SInv, NEW w \in Writer, NEW n \in Nodes, NEW v, NEW j \in Nat,
           PutNew(w, n, v, j), KidCount(n) <= j,
           op[w].parent # Nil => /\ op[w].l \in Byte
                                 /\ heap[op[w].parent].kids[op[w].l] = n
    PROVE  /\ Fits(heap')
           /\ \A k \in Nodes : Like(heap'[k], heap[k])
                               /\ Has(heap', k) = Has(heap, k)
           /\ Has(heap', New) = Has(heap, n) /\ New # Nil /\ n # Nil
           /\ Len(heap') = New /\ Nodes = 1..Len(heap) /\ New = Len(heap) + 1
           /\ \A k \in Nodes : k # op[w].parent => heap'[k].kids = heap[k].kids
           /\ op[w].parent \in Nodes => heap'[op[w].parent].kids =
                 [heap[op[w].parent].kids EXCEPT ![op[w].l] = New]
  <1> DEFINE p == op[w].parent
             l == op[w].l
  <1>1. /\ Len(heap) \in Nat /\ New = Len(heap) + 1 /\ New # Nil
        /\ Nodes = 1..Len(heap) /\ n # Nil
        /\ \A k \in Nodes : heap[k].kids \in [Byte -> Nat] /\ k # Nil
    <2>1. \A k \in Nodes : heap[k].kids \in [Byte -> Nat]
      BY Facts DEF NodeType
    <2>2. Len(heap) \in Nat /\ Nodes = 1..Len(heap)
      BY Facts DEF Nodes
    <2> QED BY <2>1, <2>2 DEF New, Nil
  <1>2. /\ Len(heap') = New /\ Relinked(heap, heap', p, l, New)
        /\ heap'[New].kids = heap[n].kids
        /\ \A i \in 0..j : i <= Cardinality(Byte) => i <= heap'[New].cap
    BY DEF PutNew
  <1>3. ASSUME NEW k \in Nodes
        PROVE  Like(heap'[k], heap[k]) /\ Has(heap', k) = Has(heap, k)
    <2>1. /\ Like(heap'[k], heap[k])
          /\ heap'[k].kids = IF k = p THEN [heap[k].kids EXCEPT ![l] = New]
                                      ELSE heap[k].kids
      BY <1>1, <1>2 DEF Relinked
    <2>2. CASE k = p
      <3>1. l \in Byte /\ heap[k].kids[l] = n
        BY <1>1, <2>2
      <3>2. \A b \in Byte : heap'[k].kids[b] # Nil <=> heap[k].kids[b] # Nil
        BY <1>1, <2>1, <2>2, <3>1
      <3> QED BY <2>1, <3>2 DEF Has
    <2>3. CASE k # p
      BY <2>1, <2>3 DEF Has
    <2> QED BY <2>2, <2>3
  <1>4. Has(heap', New) = Has(heap, n)
    BY <1>2 DEF Has
  <1>5. Cardinality(Has(heap', New)) <= heap'[New].cap
    <2>1. Has(heap, n) = Labels(n)
      BY DEF Has, Labels, Kid
    <2>2. Cardinality(Has(heap', New)) = KidCount(n)
      BY <1>4, <2>1 DEF KidCount
    <2>3. KidCount(n) \in 0..Cardinality(Byte) /\ Cardinality(Byte) \in Nat
      BY KidCountType, ByteAssumption, FS_CardinalityType
    <2>4. KidCount(n) \in 0..j /\ KidCount(n) <= Cardinality(Byte)
      BY <2>3
    <2> QED BY <1>2, <2>2, <2>4
  <1>6. Fits(heap')
    <2>1. ASSUME NEW k \in 1..Len(heap')
          PROVE  Cardinality(Has(heap', k)) <= heap'[k].cap
      <3>1. CASE k = New
        BY <1>5, <3>1
      <3>2. CASE k # New
        <4>1. k \in Nodes
          BY <1>1, <1>2, <3>2
        <4>2. Cardinality(Has(heap, k)) <= heap[k].cap
          BY <4>1, <1>1 DEF SInv, Fits
        <4> QED BY <1>3, <4>1, <4>2 DEF Like
      <3> QED BY <3>1, <3>2
    <2> QED BY <2>1 DEF Fits
  <1> QED BY <1>1, <1>2, <1>3, <1>4, <1>6 DEF Relinked

\* The step itself changes the parent at most, which is w's own.
LEMMA PutSpares ==
    ASSUME IInv, NEW w \in Writer, NEW n, NEW v, NEW j, PutNew(w, n, v, j),
           NEW o, op' = [op EXCEPT ![w] = o], trees' = trees
    PROVE  Spares(w)
  <1>1. heap' \in Seq(NodeType) /\ Relinked(heap, heap', op[w].parent, op[w].l, New)
    BY DEF PutNew
  <1>2. Len(heap) <= Len(heap') /\ Nodes = 1..Len(heap)
    BY <1>1 DEF Relinked, Nodes
  <1>3. ASSUME NEW k \in Nodes, ~Mine(w, k)
        PROVE  Same(heap, heap', k)
    <2>1. k # op[w].parent
      <3>1. op[w].parent # Nil => Mine(w, op[w].parent)
        BY Facts DEF CallOwns
      <3>2. k # Nil
        BY Facts DEF Nodes, Nil
      <3> QED BY <1>3, <3>1, <3>2
    <2> QED BY <1>1, <1>2, <2>1 DEF Relinked, Same
  <1>4. ASSUME NEW u \in Writer, u # w
        PROVE  op'[u] = op[u] /\ txn'[u].root = txn[u].root
    <2>1. op \in [Writer -> OpType] /\ txn \in [Writer -> [root : Ref, epoch : Nat]]
      BY Facts
    <2>2. txn' = txn \/ txn' = [txn EXCEPT ![w].root = New]
      BY DEF PutNew
    <2> QED BY <1>4, <2>1, <2>2
  <1> QED BY <1>1, <1>2, <1>3, <1>4 DEF Spares

\* What the tree becomes.
LEMMA PutTree ==
    ASSUME IInv, SInv, NEW w \in Writer, NEW n \in Nodes, NEW v, NEW j \in Nat,
           PutNew(w, n, v, j), KidCount(n) <= j,
           NEW T, NEW K, NEW J, NEW d,
           RadixTree(heap, T, K, txn[w].root, d), T \subseteq Nodes,
           HangsAt(T, K, txn[w].root, op[w].parent, op[w].l, n),
           op[w].parent # Nil => heap[op[w].parent].kids[op[w].l] = n,
           Replaces(T, K, J, op[w].parent, op[w].l, n, New),
           v = heap[n].val \/ Full(heap', New)
    PROVE  RadixTree(heap', (T \ {n}) \cup {New}, J, txn'[w].root,
                     [d EXCEPT ![New] = d[n]])
  <1> DEFINE p == op[w].parent
             l == op[w].l
             r == txn[w].root
  <1>1. n \in T /\ (p # Nil => l \in Byte)
    BY DEF Replaces, HangsAt
  <1>2. /\ \A k \in Nodes : Like(heap'[k], heap[k])
                            /\ Has(heap', k) = Has(heap, k)
        /\ Has(heap', New) = Has(heap, n)
    <2>1. p # Nil => l \in Byte /\ heap[p].kids[l] = n
      BY <1>1
    <2> QED BY <2>1, PutKeeps
  <1>3. /\ heap'[New].prefix = heap[n].prefix /\ heap'[New].val = v
        /\ txn' = IF p = Nil THEN [txn EXCEPT ![w].root = New] ELSE txn
    BY DEF PutNew
  <1>4. txn'[w].root = IF p = Nil THEN New ELSE r
    <2>1. txn \in [Writer -> [root : Ref, epoch : Nat]]
      BY Facts
    <2> QED BY <1>3, <2>1
  <1>5. \A k \in T : Full(heap, k)
    BY DEF RadixTree
  <1>6. Full(heap', New)
    <2>1. n \in T
      BY DEF Replaces
    <2> QED BY <1>2, <1>3, <1>5, <2>1, FullSame
  <1>7. \A k \in T \ {n} : heap'[k].prefix = heap[k].prefix /\ Full(heap', k)
    BY <1>2, <1>5, FullSame DEF Like
  <1>8. RadixTree(heap, T, K, r, d)
    OBVIOUS
  <1>9. Copies(heap, heap', T, K, J, r, p, l, n, New)
    BY <1>3, <1>6, <1>7 DEF Copies
  <1>10. RadixTree(heap', (T \ {n}) \cup {New}, J, IF p = Nil THEN New ELSE r,
                   [d EXCEPT ![New] = d[n]])
    <2> HIDE DEF p, l, r
    <2> QED BY <1>8, <1>9, Recopied
  <1> QED BY <1>4, <1>10

\* The edges it replaces, when nothing is about to be cut.
LEMMA PutPlain ==
    ASSUME IInv, SInv, NEW w \in Writer, NEW n \in Nodes, NEW v, NEW j \in Nat,
           PutNew(w, n, v, j), KidCount(n) <= j, NEW T, T \subseteq Nodes,
           n \in T, NEW r,
           HangsAt(T, Plain(heap), r, op[w].parent, op[w].l, n)
    PROVE  /\ Replaces(T, Plain(heap), Plain(heap'), op[w].parent, op[w].l, n, New)
           /\ op[w].parent # Nil => /\ op[w].parent \in Nodes /\ op[w].l \in Byte
                                    /\ heap[op[w].parent].kids[op[w].l] = n
  <1> DEFINE p == op[w].parent
             l == op[w].l
  <1>1. p # Nil => p \in Nodes /\ l \in Byte /\ heap[p].kids[l] = n
    BY DEF HangsAt, Plain, Nodes
  <1>2. /\ New # Nil /\ Len(heap') = New /\ Nodes = 1..Len(heap)
        /\ New = Len(heap) + 1
        /\ \A k \in Nodes : k # p => heap'[k].kids = heap[k].kids
        /\ p \in Nodes => heap'[p].kids = [heap[p].kids EXCEPT ![l] = New]
    BY <1>1, PutKeeps
  <1>3. Len(heap) \in Nat /\ heap'[New].kids = heap[n].kids
    BY Facts DEF PutNew
  <1>4. /\ \A k \in Nodes : Plain(heap)[k] = heap[k].kids
        /\ \A k \in Nodes : Plain(heap')[k] = heap'[k].kids
        /\ Plain(heap')[New] = heap'[New].kids
        /\ New \in Nat /\ New \notin Nodes
    BY <1>2, <1>3 DEF Plain
  <1> QED BY <1>1, <1>2, <1>3, <1>4 DEF Replaces

\* All of this together.
LEMMA PutAll ==
    ASSUME IInv, SInv, NEW w \in Writer, NEW n \in Nodes, NEW v, NEW j \in Nat,
           PutNew(w, n, v, j), KidCount(n) <= j, NEW T, NEW d,
           RadixTree(heap, T, Plain(heap), txn[w].root, d), T \subseteq Nodes,
           n \in T,
           HangsAt(T, Plain(heap), txn[w].root, op[w].parent, op[w].l, n),
           v = heap[n].val \/ Full(heap', New),
           NEW o, op' = [op EXCEPT ![w] = o], trees' = trees
    PROVE  /\ Fits(heap') /\ Spares(w)
           /\ RadixTree(heap', (T \ {n}) \cup {New}, Plain(heap'), txn'[w].root,
                        [d EXCEPT ![New] = d[n]])
  <1>1. PutNew(w, n, v, j)
    OBVIOUS
  <1>2. KidCount(n) <= j
    OBVIOUS
  <1>3. HangsAt(T, Plain(heap), txn[w].root, op[w].parent, op[w].l, n)
    OBVIOUS
  <1>4. Replaces(T, Plain(heap), Plain(heap'), op[w].parent, op[w].l, n, New)
    BY <1>1, <1>2, <1>3, PutPlain
  <1>5. op[w].parent # Nil => /\ op[w].l \in Byte
                              /\ heap[op[w].parent].kids[op[w].l] = n
    BY <1>1, <1>2, <1>3, PutPlain
  <1>6. Fits(heap')
    BY <1>1, <1>2, <1>5, PutKeeps
  <1>7. RadixTree(heap, T, Plain(heap), txn[w].root, d)
    OBVIOUS
  <1>8. op[w].parent # Nil => heap[op[w].parent].kids[op[w].l] = n
    BY <1>5
  <1>9. RadixTree(heap', (T \ {n}) \cup {New}, Plain(heap'), txn'[w].root,
                  [d EXCEPT ![New] = d[n]])
    BY <1>1, <1>2, <1>3, <1>4, <1>7, <1>8, PutTree
  <1>10. Spares(w)
    BY <1>1, PutSpares
  <1> QED BY <1>6, <1>9, <1>10

\* A call stores v in the node it works on, or takes the value away, and returns.
Stores(w, n, v, o) ==
    /\ op[w].pc \in {"insert", "clear"} /\ n = Target(op[w])
    /\ trees' = trees /\ op' = [op EXCEPT ![w] = o] /\ o.pc = "idle"
    /\ \/ v # NoVal \/ heap[n].prefix = <<>>
       \/ Cardinality(Has(heap, n)) >= 2
    /\ \/ /\ Owns(w, n) /\ txn' = txn
          /\ heap' \in Seq(NodeType) /\ Len(heap') = Len(heap)
          /\ \A k \in Nodes : /\ heap'[k].prefix = heap[k].prefix
                              /\ heap'[k].kids = heap[k].kids
                              /\ heap'[k].cap = heap[k].cap
                              /\ heap'[k].val = IF k = n THEN v
                                                ELSE heap[k].val
       \/ PutNew(w, n, v, KidCount(n))

\* A value that is stored or removed leaves a radix tree.
LEMMA StoreMoves ==
    ASSUME IInv, SInv, NEW w \in Writer, NEW n, NEW v, NEW o, Stores(w, n, v, o)
    PROVE  Moved(w) /\ Swaps(w, n)
  <1> DEFINE r == txn[w].root
             K == Plain(heap)
             J == Plain(heap')
  <1>1. /\ op[w].pc \in {"insert", "clear"} /\ n = Target(op[w])
        /\ trees' = trees /\ op' = [op EXCEPT ![w] = o] /\ o.pc = "idle"
        /\ \/ v # NoVal \/ heap[n].prefix = <<>>
           \/ Cardinality(Has(heap, n)) >= 2
    BY DEF Stores
  <1>2. /\ r # Nil /\ op[w] \in OpType /\ op \in [Writer -> OpType]
        /\ heap \in Seq(NodeType) /\ Len(heap) \in Nat
        /\ Nodes = 1..Len(heap)
    BY <1>1, Facts DEF CallAt, InsertPc, WritePc, GoalPc, Nodes
  <1>3. op'[w] = o
    BY <1>1, <1>2
  <1>4. Edges(heap, op[w]) = K
    BY <1>1, PlainEdges DEF Cutting, Plain
  <1>5. PICK T, d : /\ RadixTree(heap, T, K, r, d)
                    /\ Place(heap, op[w], T, K, r, d)
                    /\ T \subseteq Nodes
    BY <1>2, <1>4, MyTree
  <1>6. HangsAt(T, K, r, op[w].parent, op[w].l, n) /\ n \in T
    BY <1>1, <1>2, <1>5, AtNode DEF Place, Cutting, InsertPc
  <1>7. CASE PutNew(w, n, v, KidCount(n))
    <2> DEFINE c == KidCount(n)
    <2>1. c \in Nat /\ c <= c
      <3>1. c \in 0..Cardinality(Byte) /\ Cardinality(Byte) \in Nat
        BY KidCountType, ByteAssumption, FS_CardinalityType
      <3> QED BY <3>1
    <2> HIDE DEF c
    <2>2. PutNew(w, n, v, c) /\ KidCount(n) <= c
      BY <1>7, <2>1 DEF c
    <2>3. Full(heap', New)
      <3>1. /\ heap'[New].prefix = heap[n].prefix /\ heap'[New].val = v
            /\ heap'[New].kids = heap[n].kids
        BY <2>2 DEF PutNew
      <3> QED BY <1>1, <3>1 DEF Full, Has
    <2>4. n \in Nodes /\ n \in T /\ T \subseteq Nodes
      BY <1>5, <1>6
    <2>5. RadixTree(heap, T, Plain(heap), txn[w].root, d)
      BY <1>5
    <2>6. HangsAt(T, Plain(heap), txn[w].root, op[w].parent, op[w].l, n)
      BY <1>6
    <2> HIDE DEF K, J, r
    <2>7. /\ Fits(heap') /\ Spares(w)
          /\ RadixTree(heap', (T \ {n}) \cup {New}, Plain(heap'), txn'[w].root,
                       [d EXCEPT ![New] = d[n]])
      BY <1>1, <2>1, <2>2, <2>3, <2>4, <2>5, <2>6, PutAll
    <2> DEFINE e == [d EXCEPT ![New] = d[n]]
    <2>8. /\ Live(heap', o, txn'[w].root, (T \ {n}) \cup {New}, e)
          /\ LiveTree(heap', o, txn'[w].root)
      <3>1. RadixTree(heap', (T \ {n}) \cup {New}, Plain(heap'), txn'[w].root, e)
        BY <2>7
      <3> HIDE DEF e
      <3> QED BY <1>1, <3>1, IdleLive
    <2> HIDE DEF e
    <2>9. Live(heap, op[w], txn[w].root, T, d)
      BY <1>4, <1>5 DEF Live, r
    <2>10. Live(heap', op'[w], txn'[w].root, (T \ {n}) \cup {New}, e)
      BY <1>3, <2>8
    <2>11. Swaps(w, n)
      BY <2>2, <2>4, <2>6, <2>9, <2>10, PutTurns
    <2> QED BY <1>3, <2>7, <2>8, <2>11 DEF Moved
  <1>8. CASE ~PutNew(w, n, v, KidCount(n))
    <2>0. /\ Owns(w, n) /\ txn' = txn
          /\ heap' \in Seq(NodeType) /\ Len(heap') = Len(heap)
          /\ \A k \in Nodes : /\ heap'[k].prefix = heap[k].prefix
                              /\ heap'[k].kids = heap[k].kids
                              /\ heap'[k].cap = heap[k].cap
                              /\ heap'[k].val = IF k = n THEN v
                                                ELSE heap[k].val
      BY <1>8 DEF Stores
    <2>1. ASSUME NEW k \in Nodes
          PROVE  /\ J[k] = K[k] /\ Has(heap', k) = Has(heap, k)
                 /\ Cardinality(Has(heap', k)) <= heap'[k].cap
                 /\ Full(heap, k) => Full(heap', k)
                 /\ heap'[k].prefix = heap[k].prefix
      <3>1. J[k] = K[k] /\ Has(heap', k) = Has(heap, k)
        BY <1>2, <2>0 DEF Plain, Has
      <3>2. Cardinality(Has(heap, k)) <= heap[k].cap
        BY <1>2 DEF SInv, Fits
      <3>3. Full(heap, k) => Full(heap', k)
        BY <1>1, <2>0, <3>1 DEF Full
      <3> QED BY <2>0, <3>1, <3>2, <3>3
    <2>2. Fits(heap')
      BY <1>2, <2>0, <2>1 DEF Fits
    <2>3. RadixTree(heap, T, K, r, d) /\ \A k \in T : Full(heap, k)
      BY <1>5 DEF RadixTree
    <2>4. \A k \in T : /\ heap'[k].prefix = heap[k].prefix /\ J[k] = K[k]
                       /\ Full(heap', k)
      BY <1>5, <2>1, <2>3
    <2>5. RadixTree(heap', T, J, r, d)
      <3> HIDE DEF J, K
      <3> QED BY <2>3, <2>4, Unchanged
    <2>6. Live(heap', o, r, T, d) /\ LiveTree(heap', o, r)
      <3> HIDE DEF r
      <3>1. RadixTree(heap', T, Plain(heap'), r, d)
        BY <2>5
      <3> QED BY <1>1, <3>1, IdleLive
    <2>7. Mine(w, n)
      BY <1>1, <2>0, Facts DEF Mine, Owns, CallAt, WritePc, InsertPc, GoalPc
    <2>8. \A k \in Nodes : ~Mine(w, k) => Same(heap, heap', k)
      BY <2>0, <2>7 DEF Same, Like
    <2>9. Len(heap) <= Len(heap')
      BY <1>2, <2>0
    <2>10. \A u \in Writer : u # w => op'[u] = op[u] /\ txn'[u].root = txn[u].root
      BY <1>1, <1>2, <2>0
    <2>11. Spares(w)
      BY <1>1, <2>0, <2>8, <2>9, <2>10 DEF Spares
    <2>12. Swaps(w, n)
      <3>1. Live(heap, op[w], txn[w].root, T, d)
        BY <1>4, <1>5 DEF Live
      <3>2. Live(heap', op'[w], txn'[w].root, T, d)
        BY <1>3, <2>0, <2>6
      <3> QED BY <1>6, <2>0, <3>1, <3>2, StayTurns
    <2> QED BY <1>3, <2>0, <2>2, <2>6, <2>11, <2>12 DEF Moved
  <1> QED BY <1>7, <1>8

\* A call that returns goes idle.
LEMMA ReturnIdle ==
    ASSUME NEW w, NEW v, Return(w, v)
    PROVE  \E o : op' = [op EXCEPT ![w] = o] /\ o.pc = "idle"
  <1> DEFINE o == [IdleOp EXCEPT !.ret = v]
  <1>1. o.pc = "idle"
    BY DEF IdleOp
  <1>2. op' = [op EXCEPT ![w] = o]
    BY DEF Return
  <1> HIDE DEF o
  <1> QED BY <1>1, <1>2

\* Insert stores the value.
LEMMA InsertValueMoves ==
    ASSUME IInv, SInv, NEW w \in Writer, InsertValue(w)
    PROVE  Moved(w) /\ Swaps(w, op[w].n)
  <1> DEFINE n == op[w].n
             v == op[w].val
  <1>1. op[w].pc = "insert" /\ trees' = trees /\ Return(w, heap[n].val)
    BY DEF InsertValue, At, Rest, pub
  <1>2. PICK o : op' = [op EXCEPT ![w] = o] /\ o.pc = "idle"
    BY <1>1, ReturnIdle
  <1>3. /\ n \in Nodes /\ v \in Nat /\ heap[n] \in NodeType
        /\ heap \in Seq(NodeType) /\ Len(heap) \in Nat
        /\ Nodes = 1..Len(heap) /\ txn[w].root # Nil
    BY <1>1, Facts DEF CallAt, InsertPc, WritePc, OpType, Nodes
  <1>4. v # NoVal
    BY <1>1, <1>3, MyTree DEF Place, InsertPc
  <1>5. n = Target(op[w])
    BY <1>1 DEF Target
  <1>6. CASE /\ heap[n].val # NoVal /\ Owns(w, n)
             /\ heap' = [heap EXCEPT ![n].val = v]
             /\ txn' = txn
    <2> DEFINE x == [heap[n] EXCEPT !.val = v]
    <2>1. x \in NodeType /\ x.prefix = heap[n].prefix /\ x.kids = heap[n].kids
          /\ x.cap = heap[n].cap /\ x.val = v
      BY <1>3 DEF NodeType
    <2>2. heap' = [heap EXCEPT ![n] = x]
      BY <1>6
    <2> HIDE DEF x
    <2>3. /\ heap' \in Seq(NodeType) /\ Len(heap') = Len(heap)
          /\ \A k \in 1..Len(heap) : heap'[k] = IF k = n THEN x ELSE heap[k]
      BY <1>3, <2>1, <2>2, ExceptSeq
    <2>4. \A k \in Nodes : /\ heap'[k].prefix = heap[k].prefix
                           /\ heap'[k].kids = heap[k].kids
                           /\ heap'[k].cap = heap[k].cap
                           /\ heap'[k].val = IF k = n THEN v ELSE heap[k].val
      BY <1>3, <2>1, <2>3
    <2>5. Stores(w, n, v, o)
      BY <1>1, <1>2, <1>4, <1>5, <1>6, <2>3, <2>4 DEF Stores
    <2> QED BY <2>5, StoreMoves
  <1>7. CASE ownValueless(w, n, v, 1)
    <2>1. Stores(w, n, v, o)
      <3> HIDE DEF n, v
      <3> QED BY <1>1, <1>2, <1>3, <1>4, <1>5, <1>7, ValuelessEffect DEF Stores
    <2> QED BY <2>1, StoreMoves
  <1> QED BY <1>6, <1>7 DEF InsertValue

\* Delete takes it away.
LEMMA ClearMoves ==
    ASSUME IInv, SInv, NEW w \in Writer, Clear(w)
    PROVE  Moved(w) /\ Swaps(w, op[w].m)
  <1> DEFINE n == op[w].m
  <1>1. /\ op[w].pc = "clear" /\ trees' = trees /\ Return(w, op[w].val)
        /\ ownValueless(w, n, NoVal, 0)
    BY DEF Clear, At, Rest, pub
  <1>2. PICK o : op' = [op EXCEPT ![w] = o] /\ o.pc = "idle"
    BY <1>1, ReturnIdle
  <1>3. n \in Nodes /\ txn[w].root # Nil
    BY <1>1, Facts DEF CallAt, GoalPc, WritePc
  <1>4. heap[n].prefix = <<>> \/ Cardinality(Has(heap, n)) >= 2
    BY <1>1, <1>3, MyTree DEF Place, Goal
  <1>5. n = Target(op[w]) /\ NoVal \in Nat /\ 0 \in {0, 1}
    BY <1>1 DEF Target, NoVal
  <1>6. Stores(w, n, NoVal, o)
    <2> HIDE DEF n
    <2> QED BY <1>1, <1>2, <1>3, <1>4, <1>5, ValuelessEffect DEF Stores
  <1> QED BY <1>6, StoreMoves

\* Insert makes the node its own.
LEMMA InsertOwnMoves ==
    ASSUME IInv, SInv, NEW w \in Writer, InsertOwn(w)
    PROVE  Moved(w) /\ Swaps(w, op[w].n)
  <1> DEFINE n == op[w].n
             b == Head(op[w].search)
             r == txn[w].root
             extra == IF Kid(n, b) = Nil THEN 1 ELSE 0
             c == ownResult(w, n, extra)
  <1>1. /\ op[w].pc = "insert" /\ trees' = trees /\ own(w, n, extra)
        /\ op[w].search # <<>>
    BY DEF InsertOwn, At, Rest, pub
  <1>2. PICK pc \in {"hang", "down", "split"} :
            /\ Goto(w, [op[w] EXCEPT !.n = c, !.pc = pc])
            /\ pc = "hang" <=> Kid(n, b) = Nil
    BY DEF InsertOwn
  <1> DEFINE o == [op[w] EXCEPT !.n = c, !.pc = pc]
  <1>3. /\ n \in Nodes /\ op[w] \in OpType /\ op \in [Writer -> OpType]
        /\ heap \in Seq(NodeType) /\ Len(heap) \in Nat /\ r # Nil
        /\ Nodes = 1..Len(heap) /\ op[w].search \in Seq(Byte)
        /\ txn \in [Writer -> [root : Ref, epoch : Nat]]
    BY <1>1, Facts DEF CallAt, InsertPc, WritePc, OpType, Nodes
  <1>4. b \in Byte /\ extra \in {0, 1}
    BY <1>1, <1>3
  <1>5. /\ op' = [op EXCEPT ![w] = o] /\ op'[w] = o /\ o.n = c /\ o.pc = pc
        /\ o.val = op[w].val /\ o.search = op[w].search
        /\ o.path = op[w].path
    BY <1>2, <1>3 DEF Goto, OpType
  <1> HIDE DEF o
  <1>6. Edges(heap, op[w]) = Plain(heap)
    BY <1>1, PlainEdges DEF Cutting, Plain
  <1>7. PICK T, d : /\ RadixTree(heap, T, Plain(heap), r, d)
                    /\ Place(heap, op[w], T, Plain(heap), r, d)
                    /\ T \subseteq Nodes
    BY <1>3, <1>6, MyTree
  <1>8. /\ HangsAt(T, Plain(heap), r, op[w].parent, op[w].l, n)
        /\ n \in T /\ op[w].val # NoVal /\ op[w].path = <<>>
    <2>1. Way(op[w], T, Plain(heap), r, d) /\ op[w].path = <<>>
          /\ op[w].val # NoVal
      BY <1>1, <1>7 DEF Place, InsertPc
    <2>2. ~Cutting(op[w]) /\ Target(op[w]) = n
      BY <1>1 DEF Cutting, Target
    <2> QED BY <1>3, <2>1, <2>2, AtNode
  <1>9. ASSUME NEW h
        PROVE  Edges(h, o) = Plain(h)
    BY <1>5, PlainEdges DEF Cutting, Plain
  <1>10. Cardinality(Byte) \in Nat /\ KidCount(n) \in 0..Cardinality(Byte)
         /\ (Kid(n, b) = Nil => KidCount(n) + 1 <= Cardinality(Byte))
    <2>1. Cardinality(Byte) \in Nat /\ KidCount(n) \in 0..Cardinality(Byte)
      BY KidCountType, ByteAssumption, FS_CardinalityType
    <2>2. ASSUME Kid(n, b) = Nil
          PROVE  KidCount(n) + 1 <= Cardinality(Byte)
      <3>1. Labels(n) \subseteq Byte \ {b}
        BY <2>2 DEF Labels
      <3>2. /\ IsFiniteSet(Byte \ {b})
            /\ Cardinality(Byte \ {b}) = Cardinality(Byte) - 1
        <4>1. b \in Byte /\ IsFiniteSet(Byte)
          BY <1>4, ByteAssumption
        <4> HIDE DEF b
        <4> QED BY <4>1, FS_RemoveElement
      <3>3. KidCount(n) <= Cardinality(Byte \ {b})
        BY <3>1, <3>2, FS_Subset DEF KidCount
      <3> QED BY <2>1, <3>2, <3>3
    <2> QED BY <2>1, <2>2
  <1>11. Cardinality(Has(heap, n)) = KidCount(n)
    BY DEF Has, KidCount, Labels, Kid
  <1>12. ASSUME NEW h, NEW S, NEW s, NEW e, c \in S,
                pc = "hang" => h[c].kids[b] = Nil
                               /\ Cardinality(Has(h, c)) < h[c].cap
         PROVE  Place(h, o, S, Plain(h), s, e)
    BY <1>5, <1>8, <1>12 DEF Place, Goal, Cutting, InsertPc
  <1>13. CASE /\ c = n /\ heap' = heap /\ txn' = txn
              /\ KidCount(n) + extra <= heap[n].cap
    <2>1. heap[n].cap \in Nat
      <3>1. heap[n] \in NodeType
        BY <1>3, Facts
      <3> QED BY <3>1 DEF NodeType
    <2>2. ASSUME pc = "hang"
          PROVE  /\ heap[c].kids[b] = Nil
                 /\ Cardinality(Has(heap, c)) < heap[c].cap
      <3>1. Kid(n, b) = Nil /\ extra = 1
        BY <1>2, <2>2
      <3> HIDE DEF n, b, c, extra
      <3>2. KidCount(n) < heap[n].cap
        BY <1>10, <1>13, <2>1, <3>1
      <3> QED BY <1>11, <1>13, <3>1, <3>2 DEF Kid
    <2>3. Place(heap, o, T, Plain(heap), r, d)
      BY <1>8, <1>12, <1>13, <2>2
    <2>4. LiveTree(heap, o, r)
      BY <1>7, <1>9, <2>3 DEF LiveTree, Live
    <2>5. Spares(w)
      BY <1>1, <1>3, <1>5, <1>13, StillSpares
    <2>6. Live(heap, op[w], r, T, d)
      BY <1>6, <1>7 DEF Live
    <2>7. Live(heap', op'[w], txn'[w].root, T, d)
      BY <1>5, <1>7, <1>9, <1>13, <2>3 DEF Live
    <2>8. Len(heap') = Len(heap) /\ \A k \in Nodes : heap'[k].kids = heap[k].kids
      BY <1>13
    <2>9. Swaps(w, n)
      <3>1. Live(heap, op[w], txn[w].root, T, d) /\ n \in T
        BY <1>8, <2>6
      <3> HIDE DEF n, r
      <3> QED BY <2>7, <2>8, <3>1, StayTurns
    <2> QED BY <1>5, <1>13, <2>4, <2>5, <2>9 DEF Moved, SInv
  <1>14. CASE c = New /\ PutNew(w, n, heap[n].val, KidCount(n) + extra)
    <2> DEFINE j == KidCount(n) + extra
    <2>1. j \in Nat /\ KidCount(n) <= j
      BY <1>4, <1>10
    <2>2. PutNew(w, n, heap[n].val, j)
      BY <1>14
    <2> HIDE DEF j
    <2>3. HangsAt(T, Plain(heap), r, op[w].parent, op[w].l, n)
      BY <1>8
    <2>4. RadixTree(heap, T, Plain(heap), r, d)
      BY <1>7
    <2> DEFINE U == (T \ {n}) \cup {New}
               e == [d EXCEPT ![New] = d[n]]
               s == txn'[w].root
    <2>5. Fits(heap') /\ Spares(w) /\ RadixTree(heap', U, Plain(heap'), s, e)
      <3> DEFINE v == heap[n].val
      <3>1. PutNew(w, n, v, j) /\ v = heap[n].val
        BY <2>2
      <3>2. /\ n \in Nodes /\ n \in T /\ T \subseteq Nodes /\ trees' = trees
            /\ op' = [op EXCEPT ![w] = o]
        BY <1>1, <1>3, <1>5, <1>7, <1>8
      <3>3. HangsAt(T, Plain(heap), txn[w].root, op[w].parent, op[w].l, n)
        BY <2>3
      <3>4. RadixTree(heap, T, Plain(heap), txn[w].root, d)
        BY <2>4
      <3> HIDE DEF n, v, r
      <3> QED BY <2>1, <3>1, <3>2, <3>3, <3>4, PutAll
    <2>6. pc = "hang" => heap'[c].kids[b] = Nil
                         /\ Cardinality(Has(heap', c)) < heap'[c].cap
      <3>1. /\ heap'[New].kids = heap[n].kids
            /\ \A i \in 0..j : i <= Cardinality(Byte) => i <= heap'[New].cap
        BY <2>2 DEF PutNew
      <3>2. Has(heap', New) = Has(heap, n)
        BY <3>1 DEF Has
      <3>3. ASSUME pc = "hang"
            PROVE  Kid(n, b) = Nil /\ KidCount(n) + 1 <= heap'[New].cap
        <4>1. Kid(n, b) = Nil /\ j = KidCount(n) + 1
          BY <1>2, <3>3 DEF j
        <4>2. j \in 0..j
          BY <2>1
        <4> QED BY <1>10, <3>1, <4>1, <4>2
      <3>4. heap' \in Seq(NodeType) /\ New \in 1..Len(heap')
        BY <1>3, <2>2 DEF PutNew, New
      <3>5. heap'[New] \in NodeType
        BY <3>4
      <3>6. heap'[New].cap \in Nat
        BY <3>5 DEF NodeType
      <3>7. ASSUME pc = "hang"
            PROVE  KidCount(n) < heap'[New].cap
        <4> DEFINE k == KidCount(n)
        <4>1. k \in Nat /\ k + 1 <= heap'[New].cap
          BY <1>10, <3>3, <3>7
        <4> HIDE DEF k
        <4>2. k < heap'[New].cap
          BY <3>6, <4>1
        <4> QED BY <4>2 DEF k
      <3> HIDE DEF n, b, c
      <3> QED BY <1>11, <1>14, <3>1, <3>2, <3>3, <3>7 DEF Kid
    <2>7. Place(heap', o, U, Plain(heap'), s, e)
      BY <1>12, <1>14, <2>6
    <2>8. LiveTree(heap', o, s)
      BY <1>9, <2>5, <2>7 DEF LiveTree, Live
    <2>9. Swaps(w, n)
      <3>1. Live(heap, op[w], txn[w].root, T, d) /\ n \in T
        BY <1>6, <1>7, <1>8 DEF Live
      <3>2. Live(heap', op'[w], txn'[w].root, (T \ {n}) \cup {New}, e)
        BY <1>5, <1>9, <2>5, <2>7 DEF Live
      <3> HIDE DEF n, r, e
      <3> QED BY <2>2, <2>3, <3>1, <3>2, PutTurns
    <2> QED BY <1>5, <2>5, <2>8, <2>9 DEF Moved
  <1> QED BY <1>1, <1>3, <1>4, <1>13, <1>14, OwnEffect

\* Insert goes a level down.
LEMMA InsertDownMoves ==
    ASSUME IInv, SInv, NEW w \in Writer, InsertDown(w)
    PROVE  Moved(w)
  <1> DEFINE n == op[w].n
             b == Head(op[w].search)
             r == txn[w].root
             m == Kid(n, b)
             o == [op[w] EXCEPT !.pc = "insert", !.parent = n, !.l = b,
                                !.n = m,
                                !.search = Drop(@, Len(heap[m].prefix))]
  <1>1. /\ op[w].pc = "down" /\ trees' = trees /\ heap' = heap /\ txn' = txn
        /\ op' = [op EXCEPT ![w] = o]
    BY DEF InsertDown, At, Rest, pub, mem, Goto
  <1>2. /\ op[w] \in OpType /\ op \in [Writer -> OpType] /\ r # Nil
        /\ op[w].search # <<>> /\ op[w].search \in Seq(Byte)
        /\ m # Nil /\ Nodes = 1..Len(heap) /\ n \in Nodes
    BY <1>1, Facts DEF CallAt, InsertPc, WritePc, OpType, Nodes
  <1>3. b \in Byte /\ op'[w] = o
    BY <1>1, <1>2
  <1>4. Edges(heap, op[w]) = Plain(heap)
    BY <1>1, PlainEdges DEF Cutting, Plain
  <1>5. PICK T, d : /\ RadixTree(heap, T, Plain(heap), r, d)
                    /\ IsTree(T, Plain(heap), r, d)
                    /\ Place(heap, op[w], T, Plain(heap), r, d)
                    /\ T \subseteq Nodes
    BY <1>2, <1>4, MyTree
  <1>6. n \in T /\ op[w].val # NoVal /\ op[w].path = <<>>
    BY <1>1, <1>5 DEF Place, InsertPc
  <1>7. /\ o.pc = "insert" /\ o.parent = n /\ o.l = b /\ o.n = m
        /\ o.val = op[w].val /\ o.path = <<>>
    BY <1>2, <1>6 DEF OpType
  <1> HIDE DEF o
  <1>8. Plain(heap)[n][b] = m /\ n # Nil
    BY <1>2, Facts DEF Plain, Kid, Nil
  <1>9. m \in T /\ d[n] < d[m]
    <2>1. IsTree(T, Plain(heap), r, d)
      BY <1>5
    <2>2. n \in T /\ b \in Byte /\ Plain(heap)[n][b] # Nil
      BY <1>2, <1>3, <1>6, <1>8
    <2>3. Plain(heap)[n][b] \in T /\ d[n] < d[Plain(heap)[n][b]]
      <3> HIDE DEF n, b, r
      <3> QED BY <2>1, <2>2, TreeParts
    <2> QED BY <1>8, <2>3
  <1>10. Way(o, T, Plain(heap), r, d)
    <2>1. Len(o.path) = 0 /\ Stops(o) = 1 /\ Stop(o, 1) = m
      BY <1>7 DEF Stops, Cutting, Stop, Target
    <2>2. HangsAt(T, Plain(heap), r, o.parent, o.l, Stop(o, 1))
      BY <1>3, <1>6, <1>7, <1>8, <1>9, <2>1 DEF HangsAt
    <2> HIDE DEF n, m
    <2> QED BY <1>7, <1>9, <2>1, <2>2 DEF Way
  <1>11. Place(heap, o, T, Plain(heap), r, d)
    BY <1>6, <1>7, <1>10 DEF Place, Goal, Cutting, InsertPc
  <1>12. Edges(heap, o) = Plain(heap)
    BY <1>7, PlainEdges DEF Cutting, Plain
  <1>13. LiveTree(heap, o, r)
    BY <1>5, <1>11, <1>12 DEF LiveTree, Live
  <1>14. Spares(w)
    BY <1>1, <1>2, StillSpares
  <1> QED BY <1>1, <1>3, <1>13, <1>14 DEF Moved, SInv

\* Nodes that others may hold are not relinked.
LEMMA LinkSpares ==
    ASSUME IInv, NEW w \in Writer, heap' \in Seq(NodeType), NEW p, NEW l, NEW c,
           p = Nil \/ Mine(w, p), Relinked(heap, heap', p, l, c), txn' = txn,
           NEW o, op' = [op EXCEPT ![w] = o], trees' = trees
    PROVE  Spares(w) /\ op'[w] = o
  <1>1. Len(heap) <= Len(heap') /\ Nodes = 1..Len(heap)
    BY DEF Relinked, Nodes
  <1>2. ASSUME NEW k \in Nodes, ~Mine(w, k)
        PROVE  Same(heap, heap', k)
    <2>1. k # p
      BY <1>2 DEF Nodes, Nil
    <2> QED BY <1>1, <2>1 DEF Relinked, Same
  <1>3. op \in [Writer -> OpType]
    BY Facts
  <1> QED BY <1>1, <1>2, <1>3 DEF Spares

\* A node that a child is hung below has one more than before, or as many.
LEMMA RelinkedHas ==
    ASSUME NEW h, NEW g, NEW p, NEW l \in Byte, NEW c, c # Nil,
           Relinked(h, g, p, l, c), NEW k \in 1..Len(h),
           h[k].kids \in [Byte -> Nat]
    PROVE  /\ Has(g, k) = IF k = p THEN Has(h, k) \cup {l} ELSE Has(h, k)
           /\ Full(h, k) => Full(g, k)
           /\ Cardinality(Has(g, k)) \in Nat /\ Cardinality(Has(h, k)) \in Nat
           /\ Cardinality(Has(g, k)) <=
                 Cardinality(Has(h, k)) + IF k = p /\ h[k].kids[l] = Nil THEN 1
                                                                         ELSE 0
  <1>1. /\ Like(g[k], h[k])
        /\ g[k].kids = IF k = p THEN [h[k].kids EXCEPT ![l] = c] ELSE h[k].kids
    BY DEF Relinked
  <1>2. Has(g, k) = IF k = p THEN Has(h, k) \cup {l} ELSE Has(h, k)
    <2>1. CASE k = p
      <3>1. \A b \in Byte : g[k].kids[b] = IF b = l THEN c ELSE h[k].kids[b]
        BY <1>1, <2>1
      <3> QED BY <2>1, <3>1 DEF Has
    <2>2. CASE k # p
      BY <1>1, <2>2 DEF Has
    <2> QED BY <2>1, <2>2
  <1>3. IsFiniteSet(Byte) /\ Has(g, k) \subseteq Byte /\ Has(h, k) \subseteq Byte
    BY ByteAssumption DEF Has
  <1>4. IsFiniteSet(Has(g, k)) /\ IsFiniteSet(Has(h, k))
    BY <1>3, FS_Subset
  <1>5. Cardinality(Has(g, k)) \in Nat /\ Cardinality(Has(h, k)) \in Nat
    BY <1>4, FS_CardinalityType
  <1>6. Cardinality(Has(h, k)) <= Cardinality(Has(g, k))
    <2>1. Has(h, k) \subseteq Has(g, k)
      BY <1>2
    <2> QED BY <1>4, <2>1, FS_Subset
  <1>7. Full(h, k) => Full(g, k)
    BY <1>1, <1>5, <1>6 DEF Full, Like
  <1>8. Cardinality(Has(g, k)) <=
           Cardinality(Has(h, k)) + IF k = p /\ h[k].kids[l] = Nil THEN 1 ELSE 0
    <2>1. CASE k = p /\ h[k].kids[l] = Nil
      <3>1. l \notin Has(h, k) /\ Has(g, k) = Has(h, k) \cup {l}
        BY <1>2, <2>1 DEF Has
      <3>2. Cardinality(Has(g, k)) = Cardinality(Has(h, k)) + 1
        BY <1>4, <3>1, FS_AddElement
      <3> QED BY <1>5, <2>1, <3>2
    <2>2. CASE ~(k = p /\ h[k].kids[l] = Nil)
      <3>1. Has(g, k) = Has(h, k)
        BY <1>2, <2>2 DEF Has
      <3> QED BY <1>5, <2>2, <3>1
    <2> QED BY <2>1, <2>2
  <1> QED BY <1>2, <1>5, <1>7, <1>8

\* What newLeafNode returns.
LEMMA LeafFields ==
    ASSUME IInv, NEW w \in Writer, NEW prefix \in Seq(Byte), NEW v \in Nat
    PROVE  /\ leafNode(w, prefix, v) \in NodeType
           /\ leafNode(w, prefix, v).prefix = prefix
           /\ leafNode(w, prefix, v).val = v
           /\ leafNode(w, prefix, v).kids = NoKids
           /\ leafNode(w, prefix, v).cap = 0
  <1>1. txn[w].epoch \in Nat
    BY Facts
  <1>2. EmptyNode(txn[w].epoch) \in NodeType
        /\ EmptyNode(txn[w].epoch).kids = NoKids
        /\ EmptyNode(txn[w].epoch).cap = 0
    BY <1>1, NewNodeType DEF EmptyNode
  <1> DEFINE e == EmptyNode(txn[w].epoch)
  <1> HIDE DEF e
  <1>3. leafNode(w, prefix, v) = [e EXCEPT !.prefix = prefix, !.val = v, !.lob = 1]
    BY DEF leafNode, e
  <1>4. e \in NodeType /\ e.kids = NoKids /\ e.cap = 0
    BY <1>2 DEF e
  <1> QED BY <1>3, <1>4 DEF NodeType

\* A node without children needs no room.
LEMMA NoKidsFit ==
    ASSUME NEW h, NEW k, h[k].kids = NoKids
    PROVE  Has(h, k) = {} /\ Cardinality(Has(h, k)) = 0
  <1>1. Has(h, k) = {}
    BY DEF Has, NoKids
  <1> QED BY <1>1, FS_EmptySet

\* Insert hangs a leaf.
LEMMA InsertHangMoves ==
    ASSUME IInv, SInv, NEW w \in Writer, InsertHang(w)
    PROVE  Moved(w) /\ \E T : Turns(w, T, T \cup {New})
  <1> DEFINE n == op[w].n
             b == Head(op[w].search)
             r == txn[w].root
             x == leafNode(w, op[w].search, op[w].val)
             g == link(heap, n, b, New)
  <1>1. op[w].pc = "hang" /\ trees' = trees /\ txn' = txn /\ Return(w, NoVal)
        /\ heap' = Append([heap EXCEPT ![n].kids[b] = New], x)
    BY DEF InsertHang, At, Rest, pub
  <1>2. PICK o : op' = [op EXCEPT ![w] = o] /\ o.pc = "idle"
    BY <1>1, ReturnIdle
  <1>3. /\ n \in Nodes /\ n # Nil /\ op[w] \in OpType /\ r # Nil
        /\ heap \in Seq(NodeType) /\ Len(heap) \in Nat
        /\ Nodes = 1..Len(heap) /\ op[w].search \in Seq(Byte)
        /\ op[w].search # <<>> /\ op[w].val \in Nat /\ Mine(w, n)
        /\ \A k \in Nodes : heap[k].kids \in [Byte -> Nat] /\ heap[k].cap \in Nat
    <2>1. \A k \in Nodes : heap[k].kids \in [Byte -> Nat] /\ heap[k].cap \in Nat
      BY Facts DEF NodeType
    <2> QED BY <1>1, <2>1, Facts DEF CallAt, CallOwns, InsertPc, WritePc, OpType,
                                     Nodes
  <1>4. b \in Byte /\ New = Len(heap) + 1 /\ New # Nil /\ New \in Nat
    BY <1>3 DEF New, Nil
  <1>5. /\ x \in NodeType /\ x.prefix = op[w].search /\ x.val = op[w].val
        /\ x.kids = NoKids /\ x.cap = 0
    BY <1>3, LeafFields
  <1>6. /\ heap' \in Seq(NodeType) /\ Len(heap') = New /\ heap'[New] = x
        /\ Relinked(heap, heap', n, b, New)
    <2>1. heap' = Append(g, x)
      BY <1>1, <1>3 DEF link
    <2>2. n \in 0..Len(heap)
      BY <1>3
    <2> HIDE DEF n, b, x
    <2>3. g \in Seq(NodeType) /\ Len(g) = Len(heap) /\ Relinked(heap, g, n, b, New)
      BY <1>3, <1>4, <2>2, LinkType, LinkSame
    <2> HIDE DEF g
    <2> QED BY <1>3, <1>4, <1>5, <2>1, <2>3, AppendSame
  <1>7. Edges(heap, op[w]) = Plain(heap)
    BY <1>1, PlainEdges DEF Cutting, Plain
  <1>8. PICK T, d : /\ RadixTree(heap, T, Plain(heap), r, d)
                    /\ Place(heap, op[w], T, Plain(heap), r, d)
                    /\ T \subseteq Nodes
    BY <1>3, <1>7, MyTree
  <1>9. /\ n \in T /\ op[w].val # NoVal /\ heap[n].kids[b] = Nil
        /\ Cardinality(Has(heap, n)) < heap[n].cap
    BY <1>1, <1>8 DEF Place, InsertPc
  <1> HIDE DEF n, b, x
  <1>10. ASSUME NEW k \in Nodes
         PROVE  /\ heap'[k].prefix = heap[k].prefix
                /\ Full(heap, k) => Full(heap', k)
                /\ Cardinality(Has(heap', k)) <= heap'[k].cap
    <2>1. Like(heap'[k], heap[k])
      BY <1>3, <1>6 DEF Relinked
    <2>2. /\ Full(heap, k) => Full(heap', k)
          /\ Cardinality(Has(heap', k)) \in Nat /\ Cardinality(Has(heap, k)) \in Nat
          /\ Cardinality(Has(heap', k)) <=
                Cardinality(Has(heap, k)) + IF k = n /\ heap[k].kids[b] = Nil
                                            THEN 1 ELSE 0
      BY <1>3, <1>4, <1>6, RelinkedHas
    <2>3. Cardinality(Has(heap, k)) <= heap[k].cap
      BY <1>3 DEF SInv, Fits
    <2> DEFINE i == Cardinality(Has(heap', k))
               j == Cardinality(Has(heap, k))
               f == heap[k].cap
    <2>4. f \in Nat /\ j <= f /\ i \in Nat /\ j \in Nat /\ (k = n => j < f)
          /\ i <= j + (IF k = n /\ heap[k].kids[b] = Nil THEN 1 ELSE 0)
      BY <1>3, <1>9, <2>2, <2>3
    <2> HIDE DEF i, j, f
    <2>5. i <= f
      BY <2>4
    <2> QED BY <2>1, <2>2, <2>5 DEF i, f, Like
  <1>11. Fits(heap')
    <2>1. Cardinality(Has(heap', New)) <= heap'[New].cap
      BY <1>5, <1>6, NoKidsFit
    <2>2. \A k \in 1..Len(heap') : k = New \/ k \in Nodes
      BY <1>3, <1>4, <1>6
    <2> QED BY <1>10, <2>1, <2>2 DEF Fits
  <1>12. RadixTree(heap', T \cup {New}, Plain(heap'), r, [d EXCEPT ![New] = d[n] + 1])
    <2>1. Hangs(T, Plain(heap), Plain(heap'), n, b, New)
      <3>1. \A k \in Nodes : /\ Plain(heap)[k] = heap[k].kids
                             /\ Plain(heap')[k] = heap'[k].kids
        BY <1>3, <1>4, <1>6 DEF Plain
      <3>2. Plain(heap')[New] = NoKids
        BY <1>3, <1>4, <1>5, <1>6 DEF Plain
      <3>3. New \notin Nodes
        BY <1>3, <1>4
      <3>4. \A k \in Nodes : heap'[k].kids =
               IF k = n THEN [heap[k].kids EXCEPT ![b] = New] ELSE heap[k].kids
        BY <1>3, <1>6 DEF Relinked
      <3> QED BY <1>4, <1>8, <1>9, <3>1, <3>2, <3>3, <3>4 DEF Hangs
    <2>2. /\ heap'[New].prefix # <<>> /\ Head(heap'[New].prefix) = b
          /\ heap'[New].val # NoVal
      BY <1>3, <1>5, <1>6, <1>9 DEF b
    <2>3. \A k \in T : heap'[k].prefix = heap[k].prefix /\ Full(heap', k)
      BY <1>8, <1>10 DEF RadixTree
    <2>4. RadixTree(heap, T, Plain(heap), r, d)
      BY <1>8
    <2> HIDE DEF r
    <2> QED BY <2>1, <2>2, <2>3, <2>4, Hung
  <1>13. /\ Live(heap', o, r, T \cup {New}, [d EXCEPT ![New] = d[n] + 1])
         /\ LiveTree(heap', o, r)
    <2> HIDE DEF r
    <2> QED BY <1>2, <1>12, IdleLive
  <1>14. Spares(w) /\ op'[w] = o
    BY <1>1, <1>2, <1>3, <1>6, LinkSpares
  <1>15. Turns(w, T, T \cup {New})
    <2>1. Live(heap, op[w], txn[w].root, T, d)
      BY <1>7, <1>8 DEF Live
    <2> DEFINE e == [d EXCEPT ![New] = d[n] + 1]
    <2>2. Live(heap', op'[w], txn'[w].root, T \cup {New}, e)
      BY <1>1, <1>13, <1>14
    <2> HIDE DEF e
    <2>3. \A k \in Nodes \ T : heap'[k].kids = heap[k].kids
      BY <1>3, <1>6, <1>9 DEF Relinked
    <2> QED BY <2>1, <2>2, <2>3 DEF Turns
  <1> QED BY <1>1, <1>11, <1>13, <1>14, <1>15 DEF Moved

\* Insert takes up a child that is to be split, or a copy of it: from here on
\* the call sees the copy in the child's place.
LEMMA InsertSplitCopyMoves ==
    ASSUME IInv, SInv, NEW w \in Writer, InsertSplitCopy(w)
    PROVE  Moved(w) /\ Swaps(w, Kid(op[w].n, Head(op[w].search)))
  <1> DEFINE n == op[w].n
             b == Head(op[w].search)
             r == txn[w].root
             m == Kid(n, b)
  <1>1. op[w].pc = "split" /\ trees' = trees /\ txn' = txn
    BY DEF InsertSplitCopy, At, Rest, pub
  <1>2. PICK c \in {m, New} :
           /\ op' = [op EXCEPT ![w] = [op[w] EXCEPT !.pc = "fork", !.m = c]]
           /\ \/ c = m /\ heap' = heap
              \/ c = New /\ heap' = Append(WithLeaf(w, m), copyNode(w, m, 0))
    BY DEF InsertSplitCopy, Goto, mem
  <1> DEFINE o == [op[w] EXCEPT !.pc = "fork", !.m = c]
  <1>3. /\ n \in Nodes /\ n # Nil /\ op[w] \in OpType /\ r # Nil
        /\ op[w].search \in Seq(Byte) /\ op[w].search # <<>>
        /\ m # Nil
    BY <1>1, Facts DEF CallAt, InsertPc, WritePc, OpType, Nodes
  <1>4. b \in Byte
    BY <1>3
  <1>5. /\ heap \in Seq(NodeType) /\ Len(heap) \in Nat /\ Nodes = 1..Len(heap)
        /\ \A k \in Nodes : heap[k].kids \in [Byte -> Nat]
        /\ m \in Nodes /\ New = Len(heap) + 1 /\ New \in Nat \ {Nil}
        /\ New \notin Nodes
    <2>1. \A k \in Nodes : heap[k].kids \in [Byte -> Nat]
      BY Facts DEF NodeType
    <2>2. m \in Nodes
      BY <1>3, <1>4, Facts DEF Kid
    <2>3. heap \in Seq(NodeType) /\ Len(heap) \in Nat /\ Nodes = 1..Len(heap)
      BY Facts DEF Nodes
    <2> QED BY <2>1, <2>2, <2>3 DEF New, Nil
  <1>6. Edges(heap, op[w]) = Plain(heap)
    BY <1>1, PlainEdges DEF Cutting, Plain
  <1>7. PICK T, d : /\ RadixTree(heap, T, Plain(heap), r, d)
                    /\ IsTree(T, Plain(heap), r, d)
                    /\ Place(heap, op[w], T, Plain(heap), r, d)
                    /\ T \subseteq Nodes
    BY <1>3, <1>6, MyTree
  <1>8. n \in T /\ op[w].val # NoVal /\ op[w].path = <<>>
    BY <1>1, <1>7 DEF Place, InsertPc
  <1>9. /\ o.pc = "fork" /\ o.m = c /\ o.n = n /\ o.search = op[w].search
        /\ o.val = op[w].val /\ o.path = <<>> /\ op' = [op EXCEPT ![w] = o]
    BY <1>2, <1>3, <1>8 DEF OpType
  <1> HIDE DEF o
  <1>10. op'[w] = o
    BY <1>9, Facts
  <1>11. /\ \A k \in Nodes : Plain(heap)[k] = heap[k].kids
         /\ Plain(heap)[n][b] = m
    BY <1>3, <1>5 DEF Plain, Kid
  <1>12. /\ ~Cutting(o) /\ Head(o.search) = b
         /\ \A h, k : View(h, o, k) = IF k = n THEN [h[k].kids EXCEPT ![b] = c]
                                               ELSE h[k].kids
    BY <1>9 DEF Cutting, View
  <1>13. ASSUME NEW h, NEW S, NEW K, NEW s, NEW e, n \in S, h[n].kids[b] # Nil
         PROVE  Place(h, o, S, K, s, e)
    BY <1>8, <1>9, <1>13 DEF Place, Goal, Cutting, InsertPc
  <1> HIDE DEF n, b, m
  <1>17. m \in T /\ m # n
    <2>1. Plain(heap)[n][b] # Nil /\ IsTree(T, Plain(heap), r, d)
      BY <1>3, <1>7, <1>11
    <2>2. Plain(heap)[n][b] \in T /\ Plain(heap)[n][b] # n
      <3> HIDE DEF r
      <3> QED BY <1>4, <1>8, <2>1, TreeParts
    <2> QED BY <1>11, <2>2
  <1>14. CASE c = m /\ heap' = heap
    <2>1. \A k \in Nodes : View(heap, o, k) = heap[k].kids
      <3>1. heap[n].kids \in [Byte -> Nat] /\ heap[n].kids[b] = c
        BY <1>3, <1>5, <1>11, <1>14
      <3>2. [heap[n].kids EXCEPT ![b] = c] = heap[n].kids
        BY <1>4, <3>1
      <3> QED BY <1>12, <3>2
    <2>2. Edges(heap, o) = Plain(heap)
      BY <1>5, <2>1 DEF Edges, Plain
    <2>3. heap[n].kids[b] # Nil
      BY <1>3 DEF m, Kid
    <2>4. Place(heap, o, T, Plain(heap), r, d)
      BY <1>8, <1>13, <2>3
    <2>5. LiveTree(heap, o, r)
      BY <1>7, <2>2, <2>4 DEF LiveTree, Live
    <2>6. Spares(w)
      BY <1>1, <1>9, <1>14, Facts, StillSpares
    <2>7. Live(heap, op[w], txn[w].root, T, d)
      BY <1>6, <1>7 DEF Live
    <2>8. Live(heap', op'[w], txn'[w].root, T, d)
      BY <1>1, <1>7, <1>10, <1>14, <2>2, <2>4 DEF Live
    <2>9. m \in T
      BY <1>17
    <2>10. Swaps(w, m)
      <3>1. Len(heap') = Len(heap) /\ \A k \in Nodes : heap'[k].kids = heap[k].kids
        BY <1>14
      <3> QED BY <2>7, <2>8, <2>9, <3>1, StayTurns
    <2> QED BY <1>1, <1>10, <1>14, <2>5, <2>6, <2>10 DEF Moved, SInv, m, n, b
  <1>15. CASE /\ c = New
              /\ heap' = Append(WithLeaf(w, m), copyNode(w, m, 0))
    <2> DEFINE x == copyNode(w, m, 0)
               j == KidCount(m)
               f == WithLeaf(w, m)
    <2>1. j \in Nat /\ j <= Cardinality(Byte) /\ j \in 0..(j + 0)
          /\ 0 \in 0..(Cardinality(Byte) + 1)
      <3>1. j \in 0..Cardinality(Byte) /\ Cardinality(Byte) \in Nat
        BY KidCountType, ByteAssumption, FS_CardinalityType
      <3> QED BY <3>1
    <2>2. /\ x \in NodeType /\ x.prefix = heap[m].prefix
          /\ x.kids = heap[m].kids /\ x.val = heap[m].val /\ j <= x.cap
      BY <1>5, <2>1, CopyFields
    <2>3. f \in Seq(NodeType) /\ Len(f) = Len(heap)
          /\ Relinked(heap, f, Nil, 0, Nil)
      BY <1>5, WithLeafSame
    <2>4. heap' = Append(f, x)
      BY <1>15
    <2> HIDE DEF x, f, j
    <2>5. /\ heap' \in Seq(NodeType) /\ Len(heap') = New /\ heap'[New] = x
          /\ Relinked(heap, heap', Nil, 0, Nil)
      <3>1. /\ heap \in Seq(NodeType) /\ f \in Seq(NodeType) /\ x \in NodeType
            /\ Relinked(heap, f, Nil, 0, Nil) /\ New = Len(f) + 1
        BY <1>5, <2>2, <2>3
      <3>2. /\ Relinked(heap, Append(f, x), Nil, 0, Nil)
            /\ Append(f, x) \in Seq(NodeType)
            /\ Len(Append(f, x)) = New /\ Append(f, x)[New] = x
        BY <3>1, AppendSame
      <3> QED BY <2>4, <3>2
    <2>6. \A k \in Nodes : Like(heap'[k], heap[k]) /\ heap'[k].kids = heap[k].kids
      <3>1. \A k \in Nodes : k \in 1..Len(heap) /\ k # Nil
        BY <1>5 DEF Nil
      <3> QED BY <2>5, <3>1 DEF Relinked
    <2>7. Spares(w)
      BY <1>1, <1>9, <2>5, LinkSpares
    <2>8. \A k \in Nodes : Has(heap', k) = Has(heap, k)
      BY <2>6 DEF Has
    <2>9. Has(heap', New) = Has(heap, m) /\ Cardinality(Has(heap, m)) = j
      BY <2>2, <2>5 DEF Has, j, KidCount, Labels, Kid
    <2>10. Fits(heap')
      <3>1. ASSUME NEW k \in 1..Len(heap')
            PROVE  Cardinality(Has(heap', k)) <= heap'[k].cap
        <4>1. CASE k = New
          BY <2>2, <2>5, <2>9, <4>1
        <4>2. CASE k # New
          <5>1. k \in Nodes
            BY <1>5, <2>5, <4>2
          <5>2. Cardinality(Has(heap, k)) <= heap[k].cap
            BY <1>5, <5>1 DEF SInv, Fits
          <5> QED BY <2>6, <2>8, <5>1, <5>2 DEF Like
        <4> QED BY <4>1, <4>2
      <3> QED BY <3>1 DEF Fits
    <2> DEFINE U == (T \ {m}) \cup {New}
               e == [d EXCEPT ![New] = d[m]]
               J == Edges(heap', o)
    <2>11. m \in T /\ m # n
      BY <1>17
    <2>12. Replaces(T, Plain(heap), J, n, b, m, New)
      <3>1. \A k \in Nodes \cup {New} : J[k] = View(heap', o, k)
        BY <1>5, <2>5 DEF Edges
      <3>2. J[New] = Plain(heap)[m]
        <4>1. New # n
          BY <1>3, <1>5 DEF n
        <4>2. J[New] = heap'[New].kids
          BY <1>12, <3>1, <4>1
        <4> QED BY <1>5, <1>11, <2>2, <2>5, <4>2
      <3> HIDE DEF J
      <3>3. ASSUME NEW k \in Nodes
            PROVE  J[k] = IF k = n THEN [Plain(heap)[k] EXCEPT ![b] = New]
                                   ELSE Plain(heap)[k]
        <4>1. heap'[k].kids = Plain(heap)[k] /\ J[k] = View(heap', o, k)
          BY <1>11, <2>6, <3>1
        <4>2. View(heap', o, k) = IF k = n THEN [heap'[k].kids EXCEPT ![b] = New]
                                           ELSE heap'[k].kids
          BY <1>12, <1>15
        <4> QED BY <4>1, <4>2
      <3> QED BY <1>5, <1>7, <2>11, <3>2, <3>3 DEF Replaces
    <2>13. HangsAt(T, Plain(heap), r, n, b, m)
      BY <1>3, <1>4, <1>8, <1>11 DEF HangsAt
    <2>14. \A k \in T : Full(heap, k)
      BY <1>7 DEF RadixTree
    <2>15. Full(heap', New) /\ heap'[New].prefix = heap[m].prefix
      BY <2>2, <2>5, <2>9, <2>11, <2>14, FullSame
    <2>16. \A k \in T \ {m} : heap'[k].prefix = heap[k].prefix /\ Full(heap', k)
      BY <1>7, <2>6, <2>8, <2>14, FullSame DEF Like
    <2>17. Copies(heap, heap', T, Plain(heap), J, r, n, b, m, New)
      BY <2>12, <2>13, <2>15, <2>16 DEF Copies
    <2>18. RadixTree(heap', U, J, r, e)
      <3>1. RadixTree(heap, T, Plain(heap), r, d)
        BY <1>7
      <3>2. RadixTree(heap', U, J, IF n = Nil THEN New ELSE r, e)
        <4> HIDE DEF J, r
        <4> QED BY <2>17, <3>1, Recopied
      <3> QED BY <1>3, <3>2
    <2>19. n \in U /\ heap'[n].kids[b] # Nil
      BY <1>3, <1>8, <2>6, <2>11 DEF m, Kid
    <2>20. Place(heap', o, U, J, r, e)
      BY <1>13, <2>19
    <2>21. LiveTree(heap', o, r)
      BY <2>18, <2>20 DEF LiveTree, Live
    <2>22. Live(heap, op[w], txn[w].root, T, d)
      BY <1>6, <1>7 DEF Live
    <2>23. Live(heap', op'[w], txn'[w].root, U, e)
      BY <1>1, <1>10, <2>18, <2>20 DEF Live
    <2>24. \A k \in Nodes \ T : heap'[k].kids = heap[k].kids
      BY <2>6
    <2>25. U = IF Len(heap') = Len(heap) THEN T ELSE (T \ {m}) \cup {New}
      BY <1>5, <2>5
    <2> HIDE DEF U, e
    <2>26. Turns(w, T, U)
      BY <2>22, <2>23, <2>24 DEF Turns
    <2>27. Swaps(w, m)
      BY <2>11, <2>25, <2>26 DEF Swaps
    <2> QED BY <1>1, <1>10, <2>7, <2>10, <2>21, <2>27 DEF Moved, m, n, b
  <1> QED BY <1>2, <1>14, <1>15

\* What Drop leaves of a sequence that is longer.
LEMMA DropParts ==
    ASSUME NEW s \in Seq(Byte), NEW i \in Nat, i < Len(s)
    PROVE  /\ Drop(s, i) \in Seq(Byte) /\ Drop(s, i) # <<>>
           /\ Head(Drop(s, i)) = s[i + 1] /\ s[i + 1] \in Byte
  <1>1. Len(s) \in Nat /\ i + 1 \in 1..Len(s) /\ i + 1 \in Int /\ Len(s) \in Int
    OBVIOUS
  <1>2. s[i + 1] \in Byte /\ \A j \in (i + 1)..Len(s) : s[j] \in Byte
    BY <1>1
  <1> DEFINE t == SubSeq(s, i + 1, Len(s))
  <1>3. /\ t \in Seq(Byte)
        /\ Len(t) = IF i + 1 <= Len(s) THEN Len(s) - (i + 1) + 1 ELSE 0
        /\ \A j \in 1..(Len(s) - (i + 1) + 1) : t[j] = s[i + 1 + j - 1]
    BY <1>1, <1>2, SubSeqProperties
  <1> HIDE DEF t
  <1>4. Len(t) > 0 /\ t[1] = s[i + 1]
    BY <1>1, <1>3
  <1>5. t # <<>> /\ Head(t) = t[1]
    BY <1>3, <1>4
  <1> QED BY <1>2, <1>3, <1>4, <1>5 DEF t, Drop

\* The front of a segment.
LEMMA FrontParts ==
    ASSUME NEW s \in Seq(Byte), NEW i \in Nat, 1 <= i, i < Len(s)
    PROVE  /\ SubSeq(s, 1, i) \in Seq(Byte) /\ SubSeq(s, 1, i) # <<>>
           /\ Head(SubSeq(s, 1, i)) = Head(s)
  <1>1. Len(s) \in Nat /\ i \in Int /\ 1 \in Int /\ \A j \in 1..i : s[j] \in Byte
    OBVIOUS
  <1> DEFINE t == SubSeq(s, 1, i)
  <1>2. /\ t \in Seq(Byte) /\ Len(t) = IF 1 <= i THEN i - 1 + 1 ELSE 0
        /\ \A j \in 1..(i - 1 + 1) : t[j] = s[1 + j - 1]
    BY <1>1, SubSeqProperties
  <1> HIDE DEF t
  <1>3. Len(t) > 0 /\ t[1] = s[1]
    BY <1>1, <1>2
  <1>4. t # <<>> /\ Head(t) = t[1] /\ Head(s) = s[1]
    BY <1>1, <1>2, <1>3
  <1> QED BY <1>2, <1>3, <1>4 DEF t

\* What InsertSplit leaves in memory when i labels are common: m is trimmed, and
\* New, the node for the common part, is n's child in its place.
Forked(w, n, b, m, x, i) ==
    /\ heap' \in Seq(NodeType) /\ Len(heap) <= Len(heap')
    /\ \A k \in Nodes : /\ heap'[k].prefix = IF k = m THEN Drop(heap[m].prefix, i)
                                                      ELSE heap[k].prefix
                        /\ heap'[k].val = heap[k].val
                        /\ heap'[k].cap = heap[k].cap
                        /\ heap'[k].kids = IF k = n
                                           THEN [heap[k].kids EXCEPT ![b] = New]
                                           ELSE heap[k].kids
    /\ heap'[New].prefix = SubSeq(heap[m].prefix, 1, i)
    /\ heap'[New].cap = Class(2)

\* The value goes into the node for the common part, or into a new leaf below.
ForkedHere(w, x, m) ==
    /\ Len(heap') = New /\ heap'[New].val = op[w].val
    /\ heap'[New].kids = [NoKids EXCEPT ![x] = m]
ForkedBelow(w, x, m, y) ==
    /\ Len(heap') = New + 1
    /\ heap'[New].kids = [[NoKids EXCEPT ![x] = m] EXCEPT ![y] = New + 1]
    /\ heap'[New + 1].prefix # <<>> /\ Head(heap'[New + 1].prefix) = y
    /\ heap'[New + 1].val = op[w].val /\ heap'[New + 1].kids = NoKids
    /\ heap'[New + 1].cap = 0

\* InsertSplit leaves memory Forked, in one of the two ways.
LEMMA SplitEffect ==
    ASSUME IInv, NEW w \in Writer, InsertSplit(w)
    PROVE  LET n == op[w].n
               m == op[w].m
               b == Head(op[w].search)
           IN  \E i \in Nat, x \in Byte :
                 /\ 1 <= i /\ i < Len(heap[m].prefix) /\ x = heap[m].prefix[i + 1]
                 /\ op[w].search[1] = heap[m].prefix[1]
                 /\ Forked(w, n, b, m, x, i)
                 /\ \/ ForkedHere(w, x, m)
                    \/ \E y \in Byte \ {x} : ForkedBelow(w, x, m, y)
  <1> DEFINE n == op[w].n
             m == op[w].m
             search == op[w].search
             prefix == heap[m].prefix
             b == Head(search)
  <1>1. op[w].pc = "fork"
    BY DEF InsertSplit, At
  <1>2. /\ search \in Seq(Byte) /\ search # <<>> /\ op[w].val \in Nat
        /\ n # Nil /\ n \in Nodes /\ m # Nil /\ m \in Nodes
        /\ heap[m] \in NodeType /\ prefix \in Seq(Byte)
        /\ heap \in Seq(NodeType) /\ Len(heap) \in Nat /\ txn[w].epoch \in Nat
        /\ Nodes = 1..Len(heap)
    <2>1. op[w] \in OpType /\ n # Nil /\ m # Nil /\ search # <<>>
      BY <1>1, Facts DEF CallAt, WritePc, InsertPc
    <2>2. n \in Nodes /\ m \in Nodes
      BY <2>1, Facts
    <2>3. heap[m] \in NodeType
      BY <2>2, Facts
    <2>4. /\ heap \in Seq(NodeType) /\ Len(heap) \in Nat /\ txn[w].epoch \in Nat
          /\ Nodes = 1..Len(heap)
      BY Facts DEF Nodes
    <2> QED BY <2>1, <2>2, <2>3, <2>4 DEF OpType, NodeType
  <1>3. PICK i \in 1..(Len(prefix) - 1) :
            LET split == [EmptyNode(txn[w].epoch) EXCEPT
                            !.prefix = SubSeq(prefix, 1, i),
                            !.kids = [@ EXCEPT ![prefix[i + 1]] = m],
                            !.cap = Class(2)]
                h == [[heap EXCEPT ![m].prefix = Drop(prefix, i)]
                        EXCEPT ![n].kids[b] = New]
            IN  /\ CommonPrefixLen(search, prefix, i)
                /\ \/ /\ i = Len(search)
                      /\ heap' = Append(h, [split EXCEPT !.val = op[w].val,
                                                         !.lob = 1])
                   \/ /\ i < Len(search)
                      /\ heap' = Append(Append(h,
                           [split EXCEPT !.kids[search[i + 1]] = New + 1]),
                           leafNode(w, Drop(search, i), op[w].val))
    BY DEF InsertSplit
  <1> DEFINE e == EmptyNode(txn[w].epoch)
             x == prefix[i + 1]
             y == search[i + 1]
             a == [heap[m] EXCEPT !.prefix = Drop(prefix, i)]
             f == [heap EXCEPT ![m] = a]
             h == link(f, n, b, New)
             kids == [NoKids EXCEPT ![x] = m]
             both == [kids EXCEPT ![y] = New + 1]
             here == [e EXCEPT !.prefix = SubSeq(prefix, 1, i), !.kids = kids,
                               !.cap = Class(2), !.val = op[w].val, !.lob = 1]
             fork == [e EXCEPT !.prefix = SubSeq(prefix, 1, i), !.kids = both,
                               !.cap = Class(2)]
             leaf == leafNode(w, Drop(search, i), op[w].val)
  <1>4. /\ i \in Nat /\ 1 <= i /\ i < Len(prefix) /\ i <= Len(search)
        /\ search[1] = prefix[1] /\ Len(search) \in Nat
        /\ i < Len(search) => x # y
    <2>1. /\ i <= Len(search) /\ \A j \in 1..i : search[j] = prefix[j]
          /\ i < Len(search) /\ i < Len(prefix) => x # y
      BY <1>3 DEF CommonPrefixLen
    <2>2. i \in Nat /\ 1 <= i /\ i < Len(prefix) /\ 1 \in 1..i
          /\ Len(search) \in Nat
      BY <1>2
    <2> QED BY <2>1, <2>2
  <1>5. /\ Drop(prefix, i) \in Seq(Byte) /\ x \in Byte
        /\ SubSeq(prefix, 1, i) \in Seq(Byte)
        /\ i < Len(search) => /\ Drop(search, i) \in Seq(Byte)
                              /\ Drop(search, i) # <<>>
                              /\ Head(Drop(search, i)) = y /\ y \in Byte
    <2> HIDE DEF prefix, search
    <2> QED BY <1>2, <1>4, DropParts, FrontParts
  <1>6. /\ e \in NodeType /\ e.kids = NoKids
        /\ Class(2) \in Nat
    <2>1. Cardinality(Byte) \in Nat
      BY ByteAssumption, FS_CardinalityType
    <2>2. Cardinality(Byte) > 0
      <3>1. Byte # {}
        BY <1>5
      <3> QED BY <2>1, <3>1, ByteAssumption, FS_EmptySet
    <2>3. 2 \in 0..(2 * Cardinality(Byte) + 1)
      BY <2>1, <2>2
    <2> QED BY <1>2, <2>3, NewNodeType, ClassType
  <1>7. /\ kids \in [Byte -> Nat] /\ both \in [Byte -> Nat] /\ New \in Nat
        /\ New + 1 \in Nat /\ New = Len(heap) + 1 /\ m \in Nat
    <2>1. New \in Nat /\ m \in Nat /\ New = Len(heap) + 1
      BY <1>2 DEF New
    <2>2. NoKids \in [Byte -> Nat]
      BY DEF NoKids, Nil
    <2>3. kids \in [Byte -> Nat]
      BY <2>1, <2>2, KidsExcept
    <2> HIDE DEF kids
    <2>4. New + 1 \in Nat
      BY <2>1
    <2>5. both \in [Byte -> Nat]
      BY <2>3, <2>4, KidsExcept
    <2> QED BY <2>1, <2>3, <2>4, <2>5
  <1>8. \/ i = Len(search) /\ heap' = Append(h, here)
        \/ i < Len(search) /\ heap' = Append(Append(h, fork), leaf)
    <2>1. h = [[heap EXCEPT ![m].prefix = Drop(prefix, i)]
                     EXCEPT ![n].kids[b] = New]
      BY <1>2 DEF link
    <2>2. /\ here = [[e EXCEPT !.prefix = SubSeq(prefix, 1, i),
                               !.kids = [@ EXCEPT ![x] = m], !.cap = Class(2)]
                        EXCEPT !.val = op[w].val, !.lob = 1]
          /\ fork = [[e EXCEPT !.prefix = SubSeq(prefix, 1, i),
                               !.kids = [@ EXCEPT ![x] = m], !.cap = Class(2)]
                        EXCEPT !.kids[y] = New + 1]
      BY DEF EmptyNode
    <2> QED BY <1>3, <2>1, <2>2
  <1>9. /\ a \in NodeType /\ a.prefix = Drop(prefix, i)
        /\ a.kids = heap[m].kids /\ a.cap = heap[m].cap /\ a.val = heap[m].val
    BY <1>2, <1>5 DEF NodeType
  <1>10. /\ here \in NodeType /\ here.prefix = SubSeq(prefix, 1, i)
         /\ here.kids = kids /\ here.cap = Class(2) /\ here.val = op[w].val
         /\ fork \in NodeType /\ fork.prefix = SubSeq(prefix, 1, i)
         /\ fork.kids = both /\ fork.cap = Class(2)
    <2> HIDE DEF e, kids, both
    <2> QED BY <1>2, <1>5, <1>6, <1>7 DEF NodeType
  <1>11. i < Len(search) =>
            /\ leaf \in NodeType /\ leaf.prefix = Drop(search, i)
            /\ leaf.val = op[w].val /\ leaf.kids = NoKids /\ leaf.cap = 0
    BY <1>2, <1>5, LeafFields
  <1> HIDE DEF a, here, fork, leaf, e
  <1>12. /\ f \in Seq(NodeType) /\ Len(f) = Len(heap)
         /\ \A j \in 1..Len(heap) : f[j] = IF j = m THEN a ELSE heap[j]
    BY <1>2, <1>9, ExceptSeq
  <1> HIDE DEF f
  <1>13. /\ h \in Seq(NodeType) /\ Len(h) = Len(heap) /\ Relinked(f, h, n, b, New)
    <2>1. n \in 0..Len(f)
      BY <1>2, <1>12
    <2> HIDE DEF n, b
    <2> QED BY <1>7, <1>12, <2>1, LinkType, LinkSame
  <1> HIDE DEF h
  <1>14. ASSUME Relinked(f, heap', n, b, New), heap' \in Seq(NodeType),
                heap'[New].prefix = SubSeq(prefix, 1, i),
                heap'[New].cap = Class(2)
         PROVE  Forked(w, n, b, m, x, i)
    <2>1. Len(heap) <= Len(heap')
      BY <1>12, <1>14 DEF Relinked
    <2>2. ASSUME NEW k \in Nodes
          PROVE  /\ heap'[k].prefix = IF k = m THEN Drop(prefix, i)
                                               ELSE heap[k].prefix
                 /\ heap'[k].val = heap[k].val
                 /\ heap'[k].cap = heap[k].cap
                 /\ heap'[k].kids = IF k = n
                                    THEN [heap[k].kids EXCEPT ![b] = New]
                                    ELSE heap[k].kids
      <3>1. k \in 1..Len(f) /\ f[k] = IF k = m THEN a ELSE heap[k]
        BY <1>2, <1>12
      <3>2. /\ Like(heap'[k], f[k])
            /\ heap'[k].kids = IF k = n THEN [f[k].kids EXCEPT ![b] = New]
                                        ELSE f[k].kids
        BY <1>14, <3>1 DEF Relinked
      <3> HIDE DEF n, m, b, prefix
      <3>3. f[k].kids = heap[k].kids /\ f[k].cap = heap[k].cap
            /\ f[k].val = heap[k].val
            /\ f[k].prefix = IF k = m THEN Drop(prefix, i) ELSE heap[k].prefix
        BY <1>9, <3>1
      <3> QED BY <3>2, <3>3 DEF Like
    <2> QED BY <1>14, <2>1, <2>2 DEF Forked
  <1>15. ASSUME i = Len(search) /\ heap' = Append(h, here)
         PROVE  Forked(w, n, b, m, x, i) /\ ForkedHere(w, x, m)
    <2>1. /\ heap' \in Seq(NodeType) /\ Len(heap') = New /\ heap'[New] = here
          /\ Relinked(f, heap', n, b, New)
      <3> HIDE DEF n, b
      <3>1. /\ f \in Seq(NodeType) /\ h \in Seq(NodeType) /\ here \in NodeType
            /\ Relinked(f, h, n, b, New) /\ New = Len(h) + 1
        BY <1>7, <1>10, <1>12, <1>13
      <3>2. /\ Relinked(f, Append(h, here), n, b, New)
            /\ Append(h, here) \in Seq(NodeType)
            /\ Len(Append(h, here)) = New /\ Append(h, here)[New] = here
        BY <3>1, AppendSame
      <3> QED BY <1>15, <3>2
    <2>2. Forked(w, n, b, m, x, i)
      BY <1>10, <1>14, <2>1
    <2>3. ForkedHere(w, x, m)
      BY <1>10, <2>1 DEF ForkedHere
    <2> QED BY <2>2, <2>3
  <1>16. ASSUME i < Len(search) /\ heap' = Append(Append(h, fork), leaf)
         PROVE  /\ Forked(w, n, b, m, x, i)
                /\ y \in Byte \ {x} /\ ForkedBelow(w, x, m, y)
    <2> DEFINE g == Append(h, fork)
    <2>1. /\ g \in Seq(NodeType) /\ Len(g) = New /\ g[New] = fork
          /\ Relinked(f, g, n, b, New)
      <3> HIDE DEF n, b
      <3>1. /\ f \in Seq(NodeType) /\ h \in Seq(NodeType) /\ fork \in NodeType
            /\ Relinked(f, h, n, b, New) /\ New = Len(h) + 1
        BY <1>7, <1>10, <1>12, <1>13
      <3>2. /\ Relinked(f, Append(h, fork), n, b, New)
            /\ Append(h, fork) \in Seq(NodeType)
            /\ Len(Append(h, fork)) = New /\ Append(h, fork)[New] = fork
        BY <3>1, AppendSame
      <3> QED BY <3>2
    <2> HIDE DEF g
    <2>2. heap' = Append(g, leaf) /\ leaf \in NodeType
      BY <1>11, <1>16 DEF g
    <2>3. /\ heap' \in Seq(NodeType) /\ Len(heap') = New + 1
          /\ heap'[New + 1] = leaf /\ Relinked(f, heap', n, b, New)
      <3> HIDE DEF n, b
      <3> QED BY <1>12, <2>1, <2>2, AppendSame
    <2>4. heap'[New] = fork
      <3>1. New \in 1..Len(g)
        BY <1>2, <1>7, <2>1
      <3> QED BY <2>1, <2>2, <3>1, AppendProperties
    <2>5. Forked(w, n, b, m, x, i)
      BY <1>10, <1>14, <2>3, <2>4
    <2>8. /\ leaf.prefix # <<>> /\ Head(leaf.prefix) = y /\ leaf.val = op[w].val
          /\ leaf.kids = NoKids /\ leaf.cap = 0
      BY <1>5, <1>11, <1>16
    <2>6. ForkedBelow(w, x, m, y)
      <3> HIDE DEF x, y, m, kids, both
      <3>1. heap'[New].kids = both
        BY <1>10, <2>4
      <3>2. heap'[New].kids = [[NoKids EXCEPT ![x] = m] EXCEPT ![y] = New + 1]
        BY <3>1 DEF both, kids
      <3>3. /\ heap'[New + 1].prefix # <<>> /\ Head(heap'[New + 1].prefix) = y
            /\ heap'[New + 1].val = op[w].val /\ heap'[New + 1].kids = NoKids
            /\ heap'[New + 1].cap = 0
        BY <2>3, <2>8
      <3> QED BY <2>3, <3>2, <3>3 DEF ForkedBelow
    <2>7. y \in Byte \ {x}
      BY <1>4, <1>5, <1>16
    <2> QED BY <2>5, <2>6, <2>7
  <1>17. /\ Forked(w, n, b, m, x, i)
         /\ ForkedHere(w, x, m) \/ \E z \in Byte \ {x} : ForkedBelow(w, x, m, z)
    BY <1>8, <1>15, <1>16
  <1>18. i \in Nat /\ x \in Byte
    BY <1>4, <1>5
  <1>19. \E j \in Nat, z \in Byte :
            /\ 1 <= j /\ j < Len(prefix) /\ z = prefix[j + 1]
            /\ search[1] = prefix[1] /\ Forked(w, n, b, m, z, j)
            /\ \/ ForkedHere(w, z, m)
               \/ \E u \in Byte \ {z} : ForkedBelow(w, z, m, u)
    <2>1. x = prefix[i + 1]
      OBVIOUS
    <2>2. /\ 1 <= i /\ i < Len(prefix) /\ search[1] = prefix[1]
      BY <1>4
    <2> HIDE DEF n, m, b, prefix, search, x
    <2> QED BY <1>17, <1>18, <2>1, <2>2
  <1> QED BY <1>19

\* A set of one label, or of two.
LEMMA FewLabels ==
    ASSUME NEW x \in Byte, NEW y \in Byte
    PROVE  /\ Cardinality({x}) = 1 /\ Cardinality({x}) <= Class(2)
           /\ x # y => Cardinality({x, y}) = 2
           /\ x # y => Cardinality({x, y}) <= Class(2)
  <1>1. Cardinality({x}) = 1 /\ IsFiniteSet({x})
    BY FS_Singleton
  <1>2. ASSUME x # y
        PROVE  Cardinality({x, y}) = 2 /\ IsFiniteSet({x, y})
    <2>1. {x, y} = {x} \cup {y} /\ y \notin {x}
      BY <1>2
    <2>2. Cardinality({x} \cup {y}) = Cardinality({x}) + 1
          /\ IsFiniteSet({x} \cup {y})
      BY <1>1, <2>1, FS_AddElement
    <2> QED BY <1>1, <2>1, <2>2
  <1>3. Cardinality(Byte) \in Nat /\ IsFiniteSet(Byte)
    BY ByteAssumption, FS_CardinalityType
  <1>4. 1 <= Cardinality(Byte) /\ (x # y => 2 <= Cardinality(Byte))
    <2>1. {x} \subseteq Byte /\ {x, y} \subseteq Byte
      OBVIOUS
    <2>2. Cardinality({x}) <= Cardinality(Byte)
          /\ Cardinality({x, y}) <= Cardinality(Byte)
      BY <1>3, <2>1, FS_Subset
    <2> QED BY <1>1, <1>2, <2>2
  <1>5. 2 \in 0..(2 * Cardinality(Byte) + 1)
    BY <1>3, <1>4
  <1>6. 1 <= Class(2) /\ (x # y => 2 <= Class(2))
    BY <1>4, <1>5, ClassRoom
  <1> QED BY <1>1, <1>2, <1>6

\* Insert splits the child it has in hand.
LEMMA InsertSplitMoves ==
    ASSUME IInv, SInv, NEW w \in Writer, InsertSplit(w)
    PROVE  /\ Moved(w)
           /\ \E T : \/ Turns(w, T, T \cup {New}) /\ Len(heap') = New
                    \/ /\ Turns(w, T, T \cup {New} \cup {New + 1})
                       /\ Len(heap') = New + 1
  <1> DEFINE n == op[w].n
             m == op[w].m
             b == Head(op[w].search)
             r == txn[w].root
             K == Edges(heap, op[w])
  <1>1. op[w].pc = "fork" /\ trees' = trees /\ txn' = txn /\ Return(w, NoVal)
    BY DEF InsertSplit, At, Rest, pub
  <1>2. PICK o : op' = [op EXCEPT ![w] = o] /\ o.pc = "idle"
    BY <1>1, ReturnIdle
  <1>3. /\ n \in Nodes /\ n # Nil /\ m # Nil /\ m \in Nodes /\ op[w] \in OpType
        /\ r # Nil /\ op[w].search \in Seq(Byte) /\ op[w].search # <<>>
        /\ Mine(w, n) /\ Mine(w, m) /\ b = op[w].search[1]
    <2>1. /\ n \in Nodes /\ n # Nil /\ m # Nil /\ m \in Nodes /\ op[w] \in OpType
          /\ r # Nil /\ op[w].search # <<>> /\ Mine(w, n) /\ Mine(w, m)
      BY <1>1, Facts DEF CallAt, CallOwns, InsertPc, WritePc, Nodes
    <2>2. op[w].search \in Seq(Byte)
      BY <2>1 DEF OpType
    <2> QED BY <2>1, <2>2
  <1>4. b \in Byte
    BY <1>3
  <1>5. /\ heap \in Seq(NodeType) /\ Len(heap) \in Nat /\ Nodes = 1..Len(heap)
        /\ \A k \in Nodes : heap[k].kids \in [Byte -> Nat]
        /\ heap[m].prefix \in Seq(Byte)
        /\ New = Len(heap) + 1 /\ New \in Nat \ {Nil} /\ New + 1 \in Nat \ {Nil}
        /\ New \notin Nodes /\ New + 1 \notin Nodes /\ New + 1 # New
    <2>1. \A k \in Nodes : heap[k].kids \in [Byte -> Nat] /\ heap[k].prefix \in Seq(Byte)
      BY Facts DEF NodeType
    <2>2. heap \in Seq(NodeType) /\ Len(heap) \in Nat /\ Nodes = 1..Len(heap)
      BY Facts DEF Nodes
    <2> QED BY <1>3, <2>1, <2>2 DEF New, Nil
  <1>6. PICK i \in Nat, x \in Byte :
           /\ 1 <= i /\ i < Len(heap[m].prefix) /\ x = heap[m].prefix[i + 1]
           /\ op[w].search[1] = heap[m].prefix[1] /\ Forked(w, n, b, m, x, i)
           /\ ForkedHere(w, x, m) \/ \E y \in Byte \ {x} : ForkedBelow(w, x, m, y)
    BY SplitEffect
  <1>7. PICK T, d : /\ RadixTree(heap, T, K, r, d)
                    /\ IsTree(T, K, r, d)
                    /\ Place(heap, op[w], T, K, r, d)
                    /\ T \subseteq Nodes
    BY <1>3, MyTree
  <1>8. /\ n \in T /\ op[w].val # NoVal /\ heap[n].kids[b] # Nil
    BY <1>1, <1>7 DEF Place, InsertPc
  <1>9. \A k \in Nodes : K[k] = IF k = n THEN [heap[k].kids EXCEPT ![b] = m]
                                ELSE heap[k].kids
    BY <1>1, <1>5 DEF Edges, View, Cutting
  <1> HIDE DEF n, m, b, r, K
  <1>10. K[n][b] = m /\ m \in T /\ m # n
    <2>1. K[n][b] = m
      BY <1>3, <1>4, <1>5, <1>9
    <2>2. IsTree(T, K, r, d)
      BY <1>7
    <2>3. n \in T /\ b \in Byte /\ K[n][b] # Nil
      BY <1>3, <1>4, <1>8, <2>1
    <2>4. K[n][b] \in T /\ K[n][b] # n
      BY <2>2, <2>3, TreeParts
    <2> QED BY <2>1, <2>4
  <1>11. /\ heap' \in Seq(NodeType) /\ Len(heap) <= Len(heap')
         /\ heap'[New].prefix = SubSeq(heap[m].prefix, 1, i)
         /\ heap'[New].cap = Class(2)
         /\ \A k \in Nodes :
               /\ heap'[k].prefix = IF k = m THEN Drop(heap[m].prefix, i)
                                             ELSE heap[k].prefix
               /\ heap'[k].val = heap[k].val
               /\ heap'[k].cap = heap[k].cap
               /\ heap'[k].kids = IF k = n THEN [heap[k].kids EXCEPT ![b] = New]
                                           ELSE heap[k].kids
    BY <1>6 DEF Forked
  <1>12. /\ heap'[m].prefix # <<>> /\ Head(heap'[m].prefix) = x
         /\ heap'[New].prefix # <<>> /\ Head(heap'[New].prefix) = b
         /\ heap[m].prefix # <<>>
    <2>1. /\ heap[m].prefix \in Seq(Byte) /\ i < Len(heap[m].prefix) /\ 1 <= i
          /\ i \in Nat /\ m \in Nodes
      BY <1>3, <1>5, <1>6
    <2>2. /\ Drop(heap[m].prefix, i) # <<>>
          /\ Head(Drop(heap[m].prefix, i)) = heap[m].prefix[i + 1]
          /\ SubSeq(heap[m].prefix, 1, i) # <<>>
          /\ Head(SubSeq(heap[m].prefix, 1, i)) = Head(heap[m].prefix)
      BY <2>1, DropParts, FrontParts
    <2>3. heap[m].prefix # <<>> /\ Head(heap[m].prefix) = heap[m].prefix[1]
      BY <2>1
    <2> QED BY <1>3, <1>6, <1>11, <2>1, <2>2, <2>3
  <1>13. ASSUME NEW k \in Nodes
         PROVE  /\ Has(heap', k) = Has(heap, k)
                /\ Full(heap, k) => Full(heap', k)
                /\ Cardinality(Has(heap', k)) <= heap'[k].cap
    <2>1. \A f \in Byte : heap'[k].kids[f] # Nil <=> heap[k].kids[f] # Nil
      BY <1>4, <1>5, <1>8, <1>11
    <2>2. Has(heap', k) = Has(heap, k)
      BY <2>1 DEF Has
    <2>3. heap'[k].prefix = heap[k].prefix \/ heap[k].prefix # <<>>
      BY <1>11, <1>12
    <2>4. Cardinality(Has(heap, k)) <= heap[k].cap
      BY <1>5 DEF SInv, Fits
    <2> QED BY <1>11, <2>2, <2>3, <2>4 DEF Full
  <1>14. Spares(w) /\ op'[w] = o
    <2>1. \A k \in Nodes : ~Mine(w, k) => Same(heap, heap', k)
      BY <1>3, <1>11 DEF Same, Like
    <2>2. \A u \in Writer : u # w => op'[u] = op[u] /\ txn'[u].root = txn[u].root
      BY <1>1, <1>2, Facts
    <2>3. op'[w] = o
      BY <1>2, Facts
    <2> QED BY <1>1, <1>11, <2>1, <2>2, <2>3 DEF Spares
  <1>15. ASSUME NEW J, J[New] = [NoKids EXCEPT ![x] = m], Full(heap', New),
                \A k \in Nodes : J[k] = heap'[k].kids
         PROVE  \E e : RadixTree(heap', T \cup {New}, J, r, e)
    <2>1. Splits(T, K, J, n, b, m, New, x)
      <3>1. ASSUME NEW k \in T \ {n}
            PROVE  J[k] = K[k]
        <4>1. k \in Nodes /\ k # n
          BY <1>7
        <4>2. K[k] = heap[k].kids /\ heap'[k].kids = heap[k].kids
          BY <1>9, <1>11, <4>1
        <4> QED BY <1>15, <4>1, <4>2
      <3>2. J[n] = [K[n] EXCEPT ![b] = New]
        <4>1. K[n] = [heap[n].kids EXCEPT ![b] = m]
              /\ J[n] = [heap[n].kids EXCEPT ![b] = New]
          BY <1>3, <1>9, <1>11, <1>15
        <4> QED BY <1>3, <1>4, <1>5, <4>1
      <3>3. New \in Nat \ {Nil} /\ New \notin T
        BY <1>5, <1>7
      <3>4. J[New] = [NoKids EXCEPT ![x] = m]
        BY <1>15
      <3> QED BY <1>3, <1>4, <1>8, <1>10, <3>1, <3>2, <3>3, <3>4 DEF Splits
    <2>2. /\ \A k \in T \ {m} : heap'[k].prefix = heap[k].prefix
          /\ \A k \in T : Full(heap', k)
      BY <1>7, <1>11, <1>13 DEF RadixTree
    <2>3. RadixTree(heap, T, K, r, d)
      BY <1>7
    <2>4. RadixTree(heap', T \cup {New}, J, r,
                    [k \in Nat |-> IF k = New THEN 2 * d[n] + 1 ELSE 2 * d[k]])
      <3>1. Full(heap', New)
        BY <1>15
      <3>2. Forks(heap, heap', T, K, J, n, b, m, New, x)
        BY <1>12, <2>1, <2>2, <3>1 DEF Forks
      <3> QED BY <2>3, <3>2, SplitUp
    <2> QED BY <2>4
  <1>16. ASSUME NEW U, NEW e, RadixTree(heap', U, Plain(heap'), r, e),
                Cardinality(Has(heap', New)) <= heap'[New].cap,
                \/ Len(heap') = New
                \/ /\ Len(heap') = New + 1
                   /\ Cardinality(Has(heap', New + 1)) <= heap'[New + 1].cap
         PROVE  Moved(w) /\ Turns(w, T, U)
    <2>1. ASSUME NEW k \in 1..Len(heap')
          PROVE  Cardinality(Has(heap', k)) <= heap'[k].cap
      <3>1. k \in Nodes \/ k = New \/ (k = New + 1 /\ Len(heap') = New + 1)
        BY <1>5, <1>16
      <3>2. Len(heap') = New + 1 =>
               Cardinality(Has(heap', New + 1)) <= heap'[New + 1].cap
        BY <1>5, <1>16
      <3> QED BY <1>13, <1>16, <3>1, <3>2
    <2>2. Fits(heap')
      BY <2>1 DEF Fits
    <2>3. Live(heap', o, r, U, e) /\ LiveTree(heap', o, r)
      BY <1>2, <1>16, IdleLive
    <2>4. Live(heap, op[w], txn[w].root, T, d)
      BY <1>7 DEF Live, K, r
    <2>5. Live(heap', op'[w], txn'[w].root, U, e)
      BY <1>1, <1>14, <2>3 DEF r
    <2>6. \A k \in Nodes \ T : heap'[k].kids = heap[k].kids
      BY <1>8, <1>11
    <2>7. Turns(w, T, U)
      BY <2>4, <2>5, <2>6 DEF Turns
    <2> QED BY <1>1, <1>14, <2>2, <2>3, <2>7 DEF Moved, r
  <1>17. \A k \in Nodes : Plain(heap')[k] = heap'[k].kids
    BY <1>5, <1>11 DEF Plain
  <1>18. CASE ForkedHere(w, x, m)
    <2>1. /\ Len(heap') = New /\ heap'[New].val = op[w].val
          /\ heap'[New].kids = [NoKids EXCEPT ![x] = m]
      BY <1>18 DEF ForkedHere
    <2>2. Full(heap', New)
      BY <1>8, <2>1 DEF Full
    <2>3. Plain(heap')[New] = [NoKids EXCEPT ![x] = m]
      BY <1>5, <2>1 DEF Plain
    <2>4. PICK e : RadixTree(heap', T \cup {New}, Plain(heap'), r, e)
      BY <1>15, <1>17, <2>2, <2>3
    <2>5. Has(heap', New) = {x}
      <3>1. \A f \in Byte : heap'[New].kids[f] = IF f = x THEN m ELSE Nil
        BY <2>1 DEF NoKids
      <3> QED BY <1>3, <3>1 DEF Has
    <2>6. Cardinality(Has(heap', New)) <= heap'[New].cap
      BY <1>11, <2>5, FewLabels
    <2> DEFINE U == T \cup {New}
    <2>7. RadixTree(heap', U, Plain(heap'), r, e)
      BY <2>4
    <2> HIDE DEF U
    <2>8. Moved(w) /\ Turns(w, T, U)
      BY <1>16, <2>1, <2>6, <2>7
    <2> QED BY <2>1, <2>8 DEF U
  <1>19. ASSUME NEW y \in Byte \ {x}, ForkedBelow(w, x, m, y)
         PROVE  /\ Moved(w) /\ Turns(w, T, T \cup {New} \cup {New + 1})
                /\ Len(heap') = New + 1
    <2> DEFINE f == [NoKids EXCEPT ![x] = m]
               J == [k \in Nat |-> IF k = New THEN f ELSE heap'[k].kids]
    <2>1. /\ Len(heap') = New + 1 /\ heap'[New].kids = [f EXCEPT ![y] = New + 1]
          /\ heap'[New + 1].prefix # <<>> /\ Head(heap'[New + 1].prefix) = y
          /\ heap'[New + 1].val = op[w].val /\ heap'[New + 1].kids = NoKids
          /\ heap'[New + 1].cap = 0
      BY <1>19 DEF ForkedBelow
    <2>2. /\ f \in [Byte -> Nat] /\ f[y] = Nil /\ f[x] = m
          /\ \A a \in Byte \ {x} : f[a] = Nil
      BY <1>3, <1>5 DEF NoKids, Nil
    <2>3. J[New] = f /\ \A k \in Nodes : J[k] = heap'[k].kids
      BY <1>5
    <2> HIDE DEF f, J
    <2>4. Has(heap', New) = {x, y}
      <3>1. \A a \in Byte : heap'[New].kids[a] = IF a = y THEN New + 1 ELSE f[a]
        BY <2>1, <2>2
      <3>2. m # Nil /\ New + 1 # Nil
        BY <1>3, <1>5
      <3>3. ASSUME NEW a \in Byte
            PROVE  heap'[New].kids[a] # Nil <=> a \in {x, y}
        <4>1. CASE a = y
          BY <3>1, <3>2, <4>1
        <4>2. CASE a = x
          BY <2>2, <3>1, <3>2, <4>2
        <4>3. CASE a # y /\ a # x
          BY <2>2, <3>1, <4>3
        <4> QED BY <4>1, <4>2, <4>3
      <3>4. x \in Byte /\ y \in Byte
        BY <1>3
      <3> QED BY <3>3, <3>4 DEF Has
    <2>5. Cardinality(Has(heap', New)) = 2
          /\ Cardinality(Has(heap', New)) <= heap'[New].cap
      <3>1. x \in Byte /\ y \in Byte /\ x # y
        BY <1>3
      <3>2. Cardinality({x, y}) = 2 /\ Cardinality({x, y}) <= Class(2)
        BY <3>1, FewLabels
      <3> QED BY <1>11, <2>4, <3>2
    <2>6. Full(heap', New)
      BY <2>5 DEF Full
    <2>7. J[New] = [NoKids EXCEPT ![x] = m]
      BY <2>3 DEF f
    <2>8. PICK e : RadixTree(heap', T \cup {New}, J, r, e)
      BY <1>15, <2>3, <2>6, <2>7
    <2> DEFINE U == T \cup {New}
    <2>9. Hangs(U, J, Plain(heap'), New, y, New + 1)
      <3>1. Plain(heap')[New] = [f EXCEPT ![y] = New + 1]
            /\ Plain(heap')[New + 1] = NoKids
        BY <1>5, <2>1 DEF Plain
      <3>2. \A k \in U \ {New} : Plain(heap')[k] = J[k]
        BY <1>7, <1>17, <2>3
      <3>3. New + 1 \notin U
        BY <1>5, <1>7
      <3> QED BY <1>5, <2>2, <2>3, <3>1, <3>2, <3>3 DEF Hangs
    <2>10. \A k \in U : heap'[k].prefix = heap'[k].prefix /\ Full(heap', k)
      BY <2>8 DEF RadixTree
    <2>11. /\ heap'[New + 1].prefix # <<>> /\ Head(heap'[New + 1].prefix) = y
           /\ heap'[New + 1].val # NoVal
      BY <1>8, <2>1
    <2>12. RadixTree(heap', U, J, r, e)
      BY <2>8
    <2> HIDE DEF U
    <2>13. RadixTree(heap', U \cup {New + 1}, Plain(heap'), r,
                     [e EXCEPT ![New + 1] = e[New] + 1])
      BY <2>9, <2>10, <2>11, <2>12, Hung
    <2>14. Cardinality(Has(heap', New + 1)) <= heap'[New + 1].cap
      BY <2>1, NoKidsFit
    <2> DEFINE V == U \cup {New + 1}
               a == [e EXCEPT ![New + 1] = e[New] + 1]
    <2>15. RadixTree(heap', V, Plain(heap'), r, a)
      BY <2>13
    <2> HIDE DEF V, a
    <2>16. Moved(w) /\ Turns(w, T, V)
      BY <1>16, <2>1, <2>5, <2>14, <2>15
    <2> QED BY <2>1, <2>16 DEF U, V
  <1> QED BY <1>6, <1>18, <1>19

\* A step that changes w's locals only.
LEMMA LocalMoves ==
    ASSUME IInv, SInv, NEW w \in Writer, NEW o, heap' = heap, trees' = trees,
           op' = [op EXCEPT ![w] = o],
           \A v \in Writer : txn'[v].root = txn[v].root,
           LiveTree(heap, o, txn[w].root)
    PROVE  Moved(w)
  <1>1. op'[w] = o /\ \A v \in Writer : v # w => op'[v] = op[v]
    BY Facts
  <1>2. Spares(w)
    BY <1>1, StillSpares
  <1> QED BY <1>1, <1>2 DEF Moved, SInv

\* A call whose locals differ in nothing the way depends on.
SameWay(o, q) == /\ o.parent = q.parent /\ o.l = q.l /\ o.path = q.path
                 /\ Target(o) = Target(q) /\ ~Cutting(o) /\ ~Cutting(q)

\* Its way is the same.
LEMMA WayAs ==
    ASSUME NEW o, NEW q, SameWay(o, q), NEW T, NEW K, NEW r, NEW d,
           Way(q, T, K, r, d)
    PROVE  Way(o, T, K, r, d)
  <1>1. /\ o.parent = q.parent /\ o.l = q.l /\ o.path = q.path
        /\ Stops(o) = Stops(q)
    BY DEF SameWay, Stops
  <1>2. \A i : Stop(o, i) = Stop(q, i)
    BY DEF SameWay, Stop
  <1> QED BY <1>1, <1>2 DEF Way

\* What a call finds out on its way down, before it changes anything.
LEMMA Looking ==
    ASSUME IInv, SInv, NEW w \in Writer, op[w].pc \in {"find", "remove"}
    PROVE  /\ op[w] \in OpType /\ op \in [Writer -> OpType] /\ txn[w].root # Nil
           /\ Nodes = 1..Len(heap) /\ Len(op[w].path) \in Nat
           /\ op[w].parent = Nil /\ ~Cutting(op[w])
           /\ Stops(op[w]) = Len(op[w].path) + 1
           /\ Stop(op[w], Len(op[w].path) + 1) = Target(op[w])
           /\ Edges(heap, op[w]) = Plain(heap)
           /\ \A k \in Nodes : /\ Plain(heap)[k] = heap[k].kids
                               /\ heap[k].kids \in [Byte -> Nat]
           /\ \E T, d : /\ RadixTree(heap, T, Plain(heap), txn[w].root, d)
                        /\ IsTree(T, Plain(heap), txn[w].root, d)
                        /\ Way(op[w], T, Plain(heap), txn[w].root, d)
                        /\ T \subseteq Nodes /\ Target(op[w]) \in T
                        /\ Live(heap, op[w], txn[w].root, T, d)
  <1>1. /\ op[w] \in OpType /\ op \in [Writer -> OpType] /\ txn[w].root # Nil
        /\ Nodes = 1..Len(heap)
    BY Facts DEF CallAt, WritePc, Nodes
  <1>2. Len(op[w].path) \in Nat
    BY <1>1 DEF OpType, PathType
  <1>3. ~Cutting(op[w]) /\ Stops(op[w]) = Len(op[w].path) + 1
    BY DEF Cutting, Stops
  <1>4. Stop(op[w], Len(op[w].path) + 1) = Target(op[w])
    BY <1>2 DEF Stop
  <1>5. Edges(heap, op[w]) = Plain(heap)
    BY <1>3, PlainEdges DEF Plain
  <1>6. \A k \in Nodes : heap[k].kids \in [Byte -> Nat]
    BY Facts DEF NodeType
  <1>7. \A k \in Nodes : Plain(heap)[k] = heap[k].kids
    BY <1>1 DEF Plain
  <1>8. PICK T, d : /\ RadixTree(heap, T, Plain(heap), txn[w].root, d)
                    /\ IsTree(T, Plain(heap), txn[w].root, d)
                    /\ Place(heap, op[w], T, Plain(heap), txn[w].root, d)
                    /\ T \subseteq Nodes
    BY <1>1, <1>5, MyTree
  <1>9. Way(op[w], T, Plain(heap), txn[w].root, d) /\ op[w].parent = Nil
    BY <1>8 DEF Place
  <1>10. Len(op[w].path) + 1 \in 1..Stops(op[w])
    BY <1>2, <1>3
  <1>11. Target(op[w]) \in T
    BY <1>4, <1>9, <1>10 DEF Way
  <1>12. Live(heap, op[w], txn[w].root, T, d)
    BY <1>5, <1>8 DEF Live
  <1> QED BY <1>1, <1>2, <1>3, <1>4, <1>5, <1>6, <1>7, <1>8, <1>9, <1>11, <1>12

\* A miss: the call returns.
LEMMA FindMissMoves ==
    ASSUME IInv, SInv, NEW w \in Writer, FindMiss(w)
    PROVE  Moved(w)
  <1>1. /\ op[w].pc = "find" /\ heap' = heap /\ trees' = trees /\ txn' = txn
        /\ Return(w, NoVal)
    BY DEF FindMiss, At, Rest, pub, mem
  <1>2. PICK o : op' = [op EXCEPT ![w] = o] /\ o.pc = "idle"
    BY <1>1, ReturnIdle
  <1>3. PICK T, d : RadixTree(heap, T, Plain(heap), txn[w].root, d)
    BY <1>1, Looking
  <1>4. LiveTree(heap, o, txn[w].root)
    BY <1>2, <1>3, IdleLive
  <1> QED BY <1>1, <1>2, <1>4, LocalMoves

\* The descent goes a level down, and remembers where it came from.
LEMMA FindDownMoves ==
    ASSUME IInv, SInv, NEW w \in Writer, FindDown(w)
    PROVE  Moved(w)
  <1> DEFINE n == op[w].n
             b == Head(op[w].search)
             r == txn[w].root
             c == FindKid(w)
             L == Len(op[w].path)
             entry == [n |-> n, l |-> b]
             q == op[w]
             o == [op[w] EXCEPT
                     !.n = c, !.path = Append(@, entry),
                     !.search = IF HasPrefix(c, @)
                                THEN Drop(@, Len(heap[c].prefix)) ELSE <<>>]
             K == Plain(heap)
  <1>1. /\ op[w].pc = "find" /\ heap' = heap /\ trees' = trees /\ txn' = txn
        /\ op' = [op EXCEPT ![w] = o] /\ c # Nil /\ op[w].search # <<>>
    BY DEF FindDown, FindGoesOn, At, Rest, pub, mem, Goto
  <1>2. /\ q \in OpType /\ op \in [Writer -> OpType] /\ r # Nil
        /\ L \in Nat /\ q.parent = Nil /\ Stops(q) = L + 1
        /\ Stop(q, L + 1) = n /\ Target(q) = n
        /\ \A k \in Nodes : K[k] = heap[k].kids
    BY <1>1, Looking DEF Target
  <1>3. q.path \in Seq([n : Nat \ {0}, l : Nat]) /\ q.search \in Seq(Byte)
    BY <1>2 DEF OpType, PathType
  <1>4. b \in Byte
    BY <1>1, <1>3
  <1>5. PICK T, d : /\ RadixTree(heap, T, K, r, d) /\ IsTree(T, K, r, d)
                    /\ Way(q, T, K, r, d) /\ T \subseteq Nodes /\ n \in T
    BY <1>1, <1>2, Looking
  <1>6. K[n][b] = c
    BY <1>2, <1>5 DEF FindKid, Kid
  <1>7. c \in T /\ d[n] < d[c] /\ \A k \in T : d[k] \in Nat
    <2>1. IsTree(T, K, r, d) /\ n \in T /\ b \in Byte /\ K[n][b] # Nil
      BY <1>1, <1>4, <1>5, <1>6
    <2>2. K[n][b] \in T /\ d[n] < d[K[n][b]] /\ \A k \in T : d[k] \in Nat
      <3> HIDE DEF n, b, K, r
      <3> QED BY <2>1, TreeParts
    <2> QED BY <1>6, <2>2
  <1>8. entry \in [n : Nat \ {0}, l : Nat]
    <2>1. n \in Nat \ {0}
      <3>1. n \in Nodes
        BY <1>5
      <3> QED BY <3>1, Facts DEF Nodes
    <2>2. b \in Nat
      BY <1>4, ByteAssumption
    <2> QED BY <2>1, <2>2
  <1>9. /\ o.pc = "find" /\ o.n = c /\ o.parent = Nil /\ o.l = q.l
        /\ o.path = Append(q.path, entry)
    BY <1>1, <1>2 DEF OpType
  <1>10. /\ Len(o.path) = L + 1 /\ \A i \in 1..L : o.path[i] = q.path[i]
         /\ o.path[L + 1] = entry
    <2> HIDE DEF entry, o
    <2> QED BY <1>3, <1>8, <1>9, AppendProperties
  <1> HIDE DEF o, q
  <1>11. /\ \A i \in 1..(L + 1) : Stop(o, i) = Stop(q, i)
         /\ Stop(o, L + 2) = c /\ Stops(o) = L + 2
    <2>1. Stops(o) = L + 2 /\ Target(o) = c
      BY <1>2, <1>9, <1>10 DEF Stops, Cutting, Target
    <2>2. Stop(o, L + 2) = c
      BY <1>2, <1>10, <2>1 DEF Stop
    <2>3. ASSUME NEW i \in 1..(L + 1)
          PROVE  Stop(o, i) = Stop(q, i)
      <3>1. CASE i = L + 1
        <4>1. Stop(o, i) = entry.n
          BY <1>2, <1>10, <3>1 DEF Stop
        <4> QED BY <1>2, <3>1, <4>1
      <3>2. CASE i # L + 1
        <4>1. i \in 1..L /\ i <= L /\ i <= L + 1
          BY <1>2, <3>2
        <4>2. Stop(o, i) = o.path[i].n
          BY <1>10, <4>1 DEF Stop
        <4>3. Stop(q, i) = q.path[i].n
          BY <4>1 DEF Stop, q
        <4> QED BY <1>10, <4>1, <4>2, <4>3
      <3> QED BY <3>1, <3>2
    <2> QED BY <2>1, <2>2, <2>3
  <1> HIDE DEF n, b, c, L, entry, K, r
  <1>12. Way(o, T, K, r, d)
    <2>1. /\ HangsAt(T, K, r, q.parent, q.l, Stop(q, 1))
          /\ \A i \in 1..(L + 1) : Stop(q, i) \in T
          /\ \A i \in 1..L : q.path[i].l \in Byte
          /\ \A i \in 1..L : i < L + 1 =>
                K[q.path[i].n][q.path[i].l] = Stop(q, i + 1)
          /\ \A i, j \in 1..(L + 1) : i < j => d[Stop(q, i)] < d[Stop(q, j)]
      BY <1>2, <1>5 DEF Way, L, q
    <2>2. HangsAt(T, K, r, o.parent, o.l, Stop(o, 1))
      BY <1>2, <1>9, <1>11, <2>1
    <2>3. \A i \in 1..Stops(o) : Stop(o, i) \in T
      <3>1. \A i \in 1..(L + 2) : i \in 1..(L + 1) \/ i = L + 2
        BY <1>2
      <3> QED BY <1>7, <1>11, <2>1, <3>1
    <2>4. ASSUME NEW i \in 1..Len(o.path)
          PROVE  /\ o.path[i].l \in Byte
                 /\ K[o.path[i].n][o.path[i].l] = Stop(o, i + 1)
      <3>1. CASE i = L + 1
        <4>1. o.path[i].n = n /\ o.path[i].l = b /\ i + 1 = L + 2
          BY <1>2, <1>10, <3>1 DEF entry
        <4> QED BY <1>4, <1>6, <1>11, <4>1
      <3>2. CASE i # L + 1
        <4>1. i \in 1..L /\ i + 1 \in 1..(L + 1) /\ i < L + 1
          BY <1>2, <1>10, <3>2
        <4>2. o.path[i] = q.path[i] /\ Stop(o, i + 1) = Stop(q, i + 1)
          BY <1>10, <1>11, <4>1
        <4> QED BY <2>1, <4>1, <4>2
      <3> QED BY <3>1, <3>2
    <2>5. ASSUME NEW i \in 1..Stops(o), NEW j \in 1..Stops(o), i < j
          PROVE  d[Stop(o, i)] < d[Stop(o, j)]
      <3>1. i \in 1..(L + 1) /\ L + 1 \in 1..(L + 1) /\ L \in Nat
        BY <1>2, <1>11, <2>5
      <3>2. CASE j = L + 2
        <4>1. Stop(o, j) = c /\ Stop(o, i) = Stop(q, i)
          BY <1>11, <3>1, <3>2
        <4>2. d[Stop(q, i)] < d[n] \/ Stop(q, i) = n
          <5>1. CASE i = L + 1
            BY <1>2, <5>1
          <5>2. CASE i # L + 1
            <6>1. i < L + 1
              BY <3>1, <5>2
            <6> QED BY <1>2, <2>1, <3>1, <6>1
          <5> QED BY <5>1, <5>2
        <4>3. Stop(q, i) \in T
          BY <2>1, <3>1
        <4>4. d[Stop(q, i)] \in Nat /\ d[n] \in Nat /\ d[c] \in Nat
          BY <1>5, <1>7, <4>3
        <4> QED BY <1>7, <4>1, <4>2, <4>4
      <3>3. CASE j # L + 2
        <4>1. j \in 1..(L + 1)
          BY <1>11, <3>1, <3>3
        <4> QED BY <1>11, <2>1, <2>5, <3>1, <4>1
      <3> QED BY <3>2, <3>3
    <2> QED BY <1>9, <2>2, <2>3, <2>4, <2>5 DEF Way
  <1>13. Place(heap, o, T, K, r, d) /\ Edges(heap, o) = Plain(heap)
    BY <1>9, <1>12, PlainEdges DEF Place, Goal, Cutting, InsertPc, Plain
  <1>14. LiveTree(heap, o, txn[w].root)
    BY <1>5, <1>13 DEF LiveTree, Live, K, r
  <1> QED BY <1>1, <1>14, LocalMoves

\* The descent has found what to remove.
LEMMA FindHitMoves ==
    ASSUME IInv, SInv, NEW w \in Writer, FindHit(w)
    PROVE  Moved(w)
  <1> DEFINE q == op[w]
             r == txn[w].root
             v == IF q.call = "Delete" THEN heap[q.n].val ELSE 1
             o == [op[w] EXCEPT !.pc = "remove", !.m = q.n, !.val = v]
  <1>1. /\ q.pc = "find" /\ heap' = heap /\ trees' = trees /\ begin(w)
        /\ op' = [op EXCEPT ![w] = o]
    BY DEF FindHit, At, pub, mem, Goto
  <1>2. /\ q \in OpType /\ q.parent = Nil /\ ~Cutting(q)
        /\ \E T, d : /\ RadixTree(heap, T, Plain(heap), r, d)
                     /\ Way(q, T, Plain(heap), r, d)
    BY <1>1, Looking
  <1>3. ASSUME NEW u \in Writer
        PROVE  txn'[u].root = txn[u].root
    <2>1. PICK t : txn' = [txn EXCEPT ![w] = t] /\ t.root = txn[w].root
      BY <1>1, BeginEpoch
    <2>2. txn \in [Writer -> [root : Ref, epoch : Nat]]
      BY Facts
    <2> QED BY <2>1, <2>2
  <1>4. /\ o.pc = "remove" /\ o.m = q.n /\ o.parent = q.parent /\ o.l = q.l
        /\ o.path = q.path
    BY <1>2 DEF OpType
  <1> HIDE DEF o
  <1>5. PICK T, d : /\ RadixTree(heap, T, Plain(heap), r, d)
                    /\ Way(q, T, Plain(heap), r, d)
    BY <1>2
  <1>6. SameWay(o, q)
    BY <1>1, <1>2, <1>4 DEF SameWay, Target, Cutting
  <1>7. Way(o, T, Plain(heap), r, d)
    <2> HIDE DEF q, r
    <2> QED BY <1>5, <1>6, WayAs
  <1>8. Place(heap, o, T, Plain(heap), r, d) /\ Edges(heap, o) = Plain(heap)
    BY <1>2, <1>4, <1>7, PlainEdges DEF Place, Goal, Cutting, InsertPc, Plain
  <1>9. LiveTree(heap, o, txn[w].root)
    BY <1>5, <1>8 DEF LiveTree, Live
  <1> QED BY <1>1, <1>3, <1>9, LocalMoves

\* Delete at the root: the value is taken away, the node stays.
LEMMA DeleteRootMoves ==
    ASSUME IInv, SInv, NEW w \in Writer, DeleteRoot(w)
    PROVE  Moved(w)
  <1> DEFINE q == op[w]
             r == txn[w].root
             o == [op[w] EXCEPT !.pc = "clear"]
  <1>1. /\ q.pc = "remove" /\ heap' = heap /\ trees' = trees /\ txn' = txn
        /\ op' = [op EXCEPT ![w] = o] /\ q.path = <<>>
    BY DEF DeleteRoot, At, Rest, pub, mem, Goto
  <1>2. /\ q \in OpType /\ q.parent = Nil /\ ~Cutting(q)
        /\ \E T, d : /\ RadixTree(heap, T, Plain(heap), r, d)
                     /\ Way(q, T, Plain(heap), r, d)
    BY <1>1, Looking
  <1>3. /\ o.pc = "clear" /\ o.m = q.m /\ o.parent = q.parent /\ o.l = q.l
        /\ o.path = q.path
    BY <1>2 DEF OpType
  <1> HIDE DEF o
  <1>4. PICK T, d : /\ RadixTree(heap, T, Plain(heap), r, d)
                    /\ Way(q, T, Plain(heap), r, d)
    BY <1>2
  <1>5. SameWay(o, q)
    BY <1>1, <1>2, <1>3 DEF SameWay, Target, Cutting
  <1>6. Way(o, T, Plain(heap), r, d)
    <2> HIDE DEF q, r
    <2> QED BY <1>4, <1>5, WayAs
  <1>7. HangsAt(T, Plain(heap), r, q.parent, q.l, Target(q))
    BY <1>1, <1>2, <1>4, AtNode
  <1>8. heap[o.m].prefix = <<>>
    BY <1>1, <1>2, <1>3, <1>4, <1>7 DEF HangsAt, Target, RadixTree
  <1>9. Place(heap, o, T, Plain(heap), r, d) /\ Edges(heap, o) = Plain(heap)
    BY <1>1, <1>2, <1>3, <1>6, <1>8, PlainEdges
       DEF Place, Goal, Cutting, InsertPc, Plain
  <1>10. LiveTree(heap, o, txn[w].root)
    BY <1>4, <1>9 DEF LiveTree, Live
  <1> QED BY <1>1, <1>10, LocalMoves

\* Delete below the root, at a node with children.
LEMMA DeleteInnerMoves ==
    ASSUME IInv, SInv, NEW w \in Writer, DeleteInner(w)
    PROVE  Moved(w)
  <1> DEFINE q == op[w]
             r == txn[w].root
             goal == IF KidCount(q.m) = 1 THEN "fold" ELSE "clear"
             o == [op[w] EXCEPT !.pc = "ownpath", !.goal = goal]
  <1>1. /\ q.pc = "remove" /\ heap' = heap /\ trees' = trees /\ txn' = txn
        /\ op' = [op EXCEPT ![w] = o] /\ q.path # <<>> /\ ~Childless(q.m)
    BY DEF DeleteInner, At, Rest, pub, mem, Goto, OwnPathFor
  <1>2. /\ q \in OpType /\ q.parent = Nil /\ ~Cutting(q)
        /\ \E T, d : /\ RadixTree(heap, T, Plain(heap), r, d)
                     /\ Way(q, T, Plain(heap), r, d)
    BY <1>1, Looking
  <1>3. /\ o.pc = "ownpath" /\ o.m = q.m /\ o.parent = q.parent /\ o.l = q.l
        /\ o.path = q.path /\ o.goal = goal
    BY <1>2 DEF OpType
  <1> HIDE DEF o
  <1>4. PICK T, d : /\ RadixTree(heap, T, Plain(heap), r, d)
                    /\ Way(q, T, Plain(heap), r, d)
    BY <1>2
  <1>5. SameWay(o, q)
    BY <1>1, <1>2, <1>3 DEF SameWay, Target, Cutting
  <1>6. Way(o, T, Plain(heap), r, d)
    <2> HIDE DEF q, r
    <2> QED BY <1>4, <1>5, WayAs
  <1>7. /\ goal = "fold" => Cardinality(Has(heap, o.m)) = 1
        /\ goal = "clear" => Cardinality(Has(heap, o.m)) >= 2
    <2>1. Has(heap, o.m) = Labels(q.m)
      BY <1>3 DEF Has, Labels, Kid
    <2>2. Cardinality(Labels(q.m)) # 0 /\ Cardinality(Labels(q.m)) \in Nat
      <3>1. Labels(q.m) # {} /\ Labels(q.m) \subseteq Byte
        BY <1>1 DEF Childless, Labels
      <3>2. IsFiniteSet(Labels(q.m))
        BY <3>1, ByteAssumption, FS_Subset
      <3> QED BY <3>1, <3>2, FS_EmptySet, FS_CardinalityType
    <2>3. goal = "fold" <=> Cardinality(Labels(q.m)) = 1
      BY DEF KidCount
    <2>4. goal = "clear" <=> Cardinality(Labels(q.m)) # 1
      BY DEF KidCount
    <2> HIDE DEF goal
    <2> QED BY <2>1, <2>2, <2>3, <2>4
  <1>8. goal \in {"fold", "clear"} /\ ~Cutting(o) /\ Goal(o) = goal /\ Len(o.path) # 0
    <2>1. Len(o.path) # 0
      BY <1>1, <1>2, <1>3 DEF OpType, PathType
    <2> QED BY <1>3, <2>1 DEF Cutting, Goal
  <1> HIDE DEF goal
  <1>9. Place(heap, o, T, Plain(heap), r, d) /\ Edges(heap, o) = Plain(heap)
    BY <1>1, <1>2, <1>3, <1>6, <1>7, <1>8, PlainEdges
       DEF Place, InsertPc, Plain
  <1>10. LiveTree(heap, o, txn[w].root)
    BY <1>4, <1>9 DEF LiveTree, Live
  <1> QED BY <1>1, <1>10, LocalMoves

\* Delete or DeletePrefix has decided to take out the node it found: from here
\* on the call sees the tree without it.
LEMMA UnlinkMoves ==
    ASSUME IInv, SInv, NEW w \in Writer, op[w].pc = "remove", op[w].path # <<>>,
           heap' = heap, trees' = trees, txn' = txn,
           OwnPathFor(w, unlinkGoal(op[w].path))
    PROVE  /\ Moved(w)
           /\ \E T : /\ op[w].m \in T
                    /\ Turns(w, T, T \ Below(T, Plain(heap), op[w].m))
  <1> DEFINE q == op[w]
             r == txn[w].root
             m == Target(q)
             L == Len(q.path)
             goal == unlinkGoal(op[w].path)
             o == [op[w] EXCEPT !.pc = "ownpath", !.goal = goal]
             K == Plain(heap)
             J == Edges(heap, o)
             p == q.path[L].n
             l == q.path[L].l
  <1>1. op' = [op EXCEPT ![w] = o]
    BY DEF OwnPathFor, Goto
  <1>2. /\ q \in OpType /\ q.parent = Nil /\ ~Cutting(q) /\ L \in Nat
        /\ Stops(q) = L + 1 /\ Stop(q, L + 1) = m /\ Nodes = 1..Len(heap)
        /\ \A k \in Nodes : K[k] = heap[k].kids /\ heap[k].kids \in [Byte -> Nat]
    BY Looking
  <1>3. PICK T, d : /\ RadixTree(heap, T, K, r, d) /\ Way(q, T, K, r, d)
                    /\ IsTree(T, K, r, d) /\ T \subseteq Nodes /\ m \in T
                    /\ Live(heap, op[w], r, T, d)
    BY Looking
  <1>4. L # 0
    BY <1>2 DEF OpType, PathType
  <1>5. /\ o.pc = "ownpath" /\ o.m = q.m /\ o.parent = q.parent /\ o.l = q.l
        /\ o.path = q.path /\ o.goal = goal /\ goal \in {"cut", "pull"}
    BY <1>2 DEF OpType, unlinkGoal
  <1> HIDE DEF o
  <1>6. /\ Cutting(o) /\ Stops(o) = L /\ Goal(o) = goal
        /\ CutAt(o) = p /\ CutLabel(o) = l
        /\ \A i \in 1..L : Stop(o, i) = Stop(q, i) /\ Stop(q, i) = q.path[i].n
    <2>1. Cutting(o)
      BY <1>5 DEF Cutting
    <2>2. \A i \in 1..L : i <= L
      BY <1>2
    <2> QED BY <1>5, <2>1, <2>2 DEF Stops, Goal, CutAt, CutLabel, LastEntry, Stop
  <1> HIDE DEF goal
  <1>7. /\ \A i \in 1..(L + 1) : Stop(q, i) \in T
        /\ \A i \in 1..L : q.path[i].l \in Byte
        /\ \A i \in 1..L : i < L + 1 => K[q.path[i].n][q.path[i].l] = Stop(q, i + 1)
        /\ \A i, j \in 1..(L + 1) : i < j => d[Stop(q, i)] < d[Stop(q, j)]
        /\ HangsAt(T, K, r, q.parent, q.l, Stop(q, 1))
    BY <1>2, <1>3 DEF Way
  <1>8. L \in 1..L /\ L \in 1..(L + 1) /\ L < L + 1 /\ 1 \in 1..L
    BY <1>2, <1>4
  <1>9. p = Stop(q, L) /\ p \in T /\ l \in Byte /\ K[p][l] = m
    BY <1>2, <1>6, <1>7, <1>8
  <1>10. m # Nil /\ m \in Nodes /\ p \in Nodes
    <2>1. T \subseteq Nodes /\ m \in T /\ p \in T
      BY <1>3, <1>9
    <2>2. \A k \in Nodes : k # Nil
      BY Facts DEF Nodes, Nil
    <2> HIDE DEF m, p
    <2> QED BY <2>1, <2>2
  <1>11. \A k \in Nodes : J[k] = IF k = p THEN [K[k] EXCEPT ![l] = Nil] ELSE K[k]
    <2>1. \A k \in Nodes : J[k] = View(heap, o, k)
      BY <1>2 DEF Edges
    <2>2. \A k : View(heap, o, k) =
                    IF k = p THEN [heap[k].kids EXCEPT ![l] = Nil] ELSE heap[k].kids
      BY <1>5, <1>6 DEF View
    <2>3. \A k \in Nodes : K[k] = heap[k].kids
      BY <1>2
    <2> HIDE DEF J, K, p, l
    <2> QED BY <2>1, <2>2, <2>3
  <1> HIDE DEF J, K, p, l, m, r, q, L
  <1>12. Cuts(T, K, J, p, l, m)
    BY <1>3, <1>9, <1>10, <1>11 DEF Cuts
  <1> DEFINE U == T \ Below(T, K, m)
  <1>13. RadixTree(heap, U, J, r, d) /\ \A k \in T : d[k] < d[m] => k \in U
    BY <1>3, <1>12, CutOff
  <1> HIDE DEF U
  <1>14. \A i \in 1..L : Stop(q, i) \in U
    <2>1. ASSUME NEW i \in 1..L
          PROVE  Stop(q, i) \in U
      <3>1. i \in 1..(L + 1) /\ L + 1 \in 1..(L + 1) /\ i < L + 1
        BY <1>2
      <3> QED BY <1>2, <1>7, <1>13, <3>1
    <2> QED BY <2>1
  <1>15. Way(o, U, J, r, d)
    <2>1. HangsAt(U, J, r, o.parent, o.l, Stop(o, 1))
      BY <1>2, <1>5, <1>6, <1>7, <1>8 DEF HangsAt, q
    <2>2. ASSUME NEW i \in 1..L, i < L
          PROVE  J[o.path[i].n][o.path[i].l] = Stop(o, i + 1)
      <3>1. i \in 1..(L + 1) /\ i < L + 1 /\ i + 1 \in 1..L
        BY <1>2, <2>2
      <3>2. d[Stop(q, i)] < d[p] /\ Stop(q, i) \in Nodes
        BY <1>3, <1>7, <1>8, <1>9, <2>2, <3>1
      <3>3. d[p] \in Nat
        BY <1>3, <1>9, TreeParts
      <3>4. Stop(q, i) # p
        BY <3>2, <3>3
      <3>5. J[Stop(q, i)] = K[Stop(q, i)]
        BY <1>11, <3>2, <3>4
      <3>6. o.path[i] = q.path[i] /\ q.path[i].n = Stop(q, i)
            /\ Stop(o, i + 1) = Stop(q, i + 1)
        BY <1>5, <1>6, <3>1 DEF q
      <3> QED BY <1>7, <3>1, <3>5, <3>6
    <2>3. /\ Len(o.path) = L /\ o.path = q.path
      BY <1>5 DEF L, q
    <2>4. \A i \in 1..Stops(o) : Stop(o, i) \in U
      BY <1>6, <1>14
    <2>5. \A i, j \in 1..Stops(o) : i < j => d[Stop(o, i)] < d[Stop(o, j)]
      <3>1. \A i \in 1..L : i \in 1..(L + 1)
        BY <1>2
      <3> QED BY <1>6, <1>7, <3>1
    <2>6. o.parent = Nil
      BY <1>2, <1>5 DEF q
    <2> QED BY <1>6, <1>7, <2>1, <2>2, <2>3, <2>4, <2>5, <2>6 DEF Way
  <1>16. /\ Goal(o) = "cut" => \/ heap[p].prefix = <<>>
                               \/ heap[p].val # NoVal
                               \/ Cardinality(Has(heap, p)) >= 3
         /\ Goal(o) = "pull" => /\ heap[p].val = NoVal
                                /\ Cardinality(Has(heap, p)) = 2
    <2>1. Has(heap, p) = Labels(p)
      BY DEF Has, Labels, Kid
    <2>2. Cardinality(Has(heap, p)) = KidCount(p) /\ KidCount(p) \in Nat
      <3>1. KidCount(p) \in 0..Cardinality(Byte) /\ Cardinality(Byte) \in Nat
        BY KidCountType, ByteAssumption, FS_CardinalityType
      <3> QED BY <2>1, <3>1 DEF KidCount
    <2>3. Goal(o) = IF L > 1 /\ heap[p].val = NoVal /\ KidCount(p) = 2
                    THEN "pull" ELSE "cut"
      BY <1>6 DEF goal, unlinkGoal, L, p, q
    <2>4. L > 1 \/ heap[p].prefix = <<>>
      <3>1. CASE L = 1
        <4>1. p = r
          BY <1>2, <1>7, <1>9, <3>1 DEF HangsAt, q
        <4> QED BY <1>3, <4>1 DEF RadixTree
      <3> QED BY <1>2, <1>4, <3>1
    <2>5. \/ heap[p].prefix = <<>> \/ heap[p].val # NoVal
          \/ Cardinality(Has(heap, p)) >= 2
      BY <1>3, <1>9 DEF RadixTree, Full
    <2> HIDE DEF goal
    <2> QED BY <2>2, <2>3, <2>4, <2>5
  <1>17. heap[p].kids[l] # Nil
    BY <1>2, <1>9, <1>10
  <1>18. Place(heap, o, U, J, r, d)
    <2>1. o.path = q.path /\ Len(o.path) # 0
      BY <1>4, <1>5 DEF L, q
    <2> QED BY <1>5, <1>6, <1>15, <1>16, <1>17, <2>1 DEF Place, InsertPc
  <1>19. LiveTree(heap, o, txn[w].root)
    BY <1>13, <1>18 DEF LiveTree, Live, J, r
  <1>20. Moved(w)
    BY <1>1, <1>19, LocalMoves
  <1>21. Turns(w, T, U)
    <2>1. Live(heap, op[w], txn[w].root, T, d)
      BY <1>3 DEF r
    <2>2. op'[w] = o
      BY <1>1, Facts
    <2>3. Live(heap', op'[w], txn'[w].root, U, d)
      BY <1>13, <1>18, <2>2 DEF Live, J, r
    <2> QED BY <2>1, <2>3 DEF Turns
  <1>22. m = op[w].m
    BY DEF m, q, Target
  <1> QED BY <1>3, <1>20, <1>21, <1>22 DEF U, K

\* Delete of a leaf and DeletePrefix of a subtree: the node goes with what is
\* below it.
LEMMA DeleteLeafMoves ==
    ASSUME IInv, SInv, NEW w \in Writer, DeleteLeaf(w) \/ DeleteSubtree(w)
    PROVE  /\ Moved(w)
           /\ \E T : /\ op[w].m \in T
                    /\ Turns(w, T, T \ Below(T, Plain(heap), op[w].m))
  <1>1. /\ op[w].pc = "remove" /\ op[w].path # <<>> /\ heap' = heap
        /\ trees' = trees /\ txn' = txn /\ OwnPathFor(w, unlinkGoal(op[w].path))
    BY DEF DeleteLeaf, DeleteSubtree, At, Rest, pub, mem
  <1> QED BY <1>1, UnlinkMoves

\* DeletePrefix at the root: a new empty tree.
LEMMA DeleteAllMoves ==
    ASSUME IInv, SInv, NEW w \in Writer, DeleteAll(w)
    PROVE  Moved(w) /\ \E T : op[w].m \in T /\ Turns(w, T, {New})
  <1> DEFINE e == txn[w].epoch
             x == EmptyNode(e)
             d == [k \in Nat |-> 0]
             J == Plain(heap')
  <1>1. /\ op[w].pc = "remove" /\ heap' = Append(heap, x) /\ trees' = trees
        /\ txn' = [txn EXCEPT ![w].root = New] /\ Return(w, op[w].val)
    BY DEF DeleteAll, At, Rest, pub
  <1>2. PICK o : op' = [op EXCEPT ![w] = o] /\ o.pc = "idle"
    BY <1>1, ReturnIdle
  <1>3. /\ heap \in Seq(NodeType) /\ Len(heap) \in Nat /\ Nodes = 1..Len(heap)
        /\ op \in [Writer -> OpType] /\ txn \in [Writer -> [root : Ref, epoch : Nat]]
        /\ e \in Nat
    BY Facts DEF Nodes
  <1>4. New = Len(heap) + 1 /\ New \in Nat \ {0} /\ New # Nil
    BY <1>3 DEF New, Nil
  <1>5. x \in NodeType /\ x.kids = NoKids /\ x.prefix = <<>>
    BY <1>3, NewNodeType DEF EmptyNode
  <1> HIDE DEF x, e
  <1>6. /\ heap' \in Seq(NodeType) /\ Len(heap') = New /\ heap'[New] = x
        /\ \A k \in Nodes : heap'[k] = heap[k]
    BY <1>1, <1>3, <1>4, <1>5, AppendProperties
  <1>7. Fits(heap')
    <2>1. ASSUME NEW k \in 1..Len(heap')
          PROVE  Cardinality(Has(heap', k)) <= heap'[k].cap
      <3>1. CASE k = New
        <4>1. Cardinality(Has(heap', New)) = 0
          BY <1>5, <1>6, NoKidsFit
        <4>2. heap'[New].cap \in Nat
          BY <1>5, <1>6 DEF NodeType
        <4> QED BY <3>1, <4>1, <4>2
      <3>2. CASE k # New
        <4>1. k \in Nodes
          BY <1>3, <1>4, <1>6, <3>2
        <4>2. Cardinality(Has(heap, k)) <= heap[k].cap
          BY <4>1 DEF SInv, Fits, Nodes
        <4> QED BY <1>6, <4>1, <4>2 DEF Has
      <3> QED BY <3>1, <3>2
    <2> QED BY <2>1 DEF Fits
  <1>8. J[New] = NoKids
    BY <1>4, <1>5, <1>6 DEF Plain
  <1> HIDE DEF J
  <1>9. IsTree({New}, J, New, d)
    <2>1. \A n \in {New} : J[n] \in [Byte -> Nat]
      BY <1>8 DEF NoKids, Nil
    <2>2. \A n \in {New}, b \in Byte : J[n][b] = Nil
      BY <1>8 DEF NoKids
    <2>3. d \in [Nat -> Nat]
      OBVIOUS
    <2> HIDE DEF d
    <2> QED BY <1>4, <2>1, <2>2, <2>3 DEF IsTree
  <1>10. RadixTree(heap', {New}, J, New, d)
    <2>1. \A b \in Byte : J[New][b] = Nil
      BY <1>8 DEF NoKids
    <2>2. heap'[New].prefix = <<>>
      BY <1>5, <1>6
    <2>3. Full(heap', New) /\ EdgeShape(heap', J[New])
      BY <2>1, <2>2 DEF Full, EdgeShape
    <2> HIDE DEF d
    <2> QED BY <1>9, <2>2, <2>3 DEF RadixTree
  <1>11. Live(heap', o, New, {New}, d) /\ LiveTree(heap', o, New)
    <2> HIDE DEF d
    <2> QED BY <1>2, <1>10, IdleLive DEF J
  <1>12. /\ op'[w] = o /\ txn'[w].root = New
         /\ \A v \in Writer : v # w => op'[v] = op[v] /\ txn'[v].root = txn[v].root
    BY <1>1, <1>2, <1>3
  <1>13. Len(heap) <= Len(heap') /\ \A k \in Nodes : Same(heap, heap', k)
    BY <1>3, <1>4, <1>6 DEF Same, Like
  <1>14. Spares(w)
    BY <1>1, <1>6, <1>12, <1>13 DEF Spares
  <1>15. \E T : op[w].m \in T /\ Turns(w, T, {New})
    <2>1. PICK T, a : op[w].m \in T /\ Live(heap, op[w], txn[w].root, T, a)
      BY <1>1, Looking DEF Target
    <2> HIDE DEF d
    <2>2. Live(heap', op'[w], txn'[w].root, {New}, d)
      BY <1>11, <1>12
    <2>3. \A k \in Nodes \ T : heap'[k].kids = heap[k].kids
      BY <1>6
    <2> QED BY <2>1, <2>2, <2>3 DEF Turns
  <1> QED BY <1>7, <1>11, <1>12, <1>14, <1>15 DEF Moved

\* The call q has made c of n, the head of its path, and is one level further
\* down as o.
StepsDown(q, o, n, c) ==
    /\ q \in OpType /\ q.pc = "ownpath" /\ q.goal \in GoalPc
    /\ Len(q.path) >= (IF q.goal = "pull" THEN 2 ELSE 1) /\ n = q.path[1].n
    /\ o.parent = c /\ o.l = q.path[1].l /\ o.path = Tail(q.path)
    /\ o.m = q.m /\ o.goal = q.goal
    /\ o.pc = IF Len(q.path) = (IF q.goal = "pull" THEN 2 ELSE 1) THEN q.goal
                                                                  ELSE "ownpath"

\* Its aim is the same, and the node it will cut from is the copy if that node
\* was copied.
LEMMA DownFacts ==
    ASSUME NEW q, NEW o, NEW n, NEW c, StepsDown(q, o, n, c),
           NEW T, NEW K, NEW r, NEW d, Way(q, T, K, r, d), IsTree(T, K, r, d)
    PROVE  /\ Cutting(o) <=> Cutting(q)
           /\ Goal(o) = Goal(q) /\ Target(o) = Target(q) /\ Stops(o) = Stops(q) - 1
           /\ Len(q.path) \in Nat /\ Len(o.path) = Len(q.path) - 1
           /\ \A i \in 1..Len(o.path) : o.path[i] = q.path[i + 1]
           /\ n = Stop(q, 1) /\ Stops(q) \in Nat /\ Stops(q) >= 1
           /\ o.pc # "cut" => Stops(q) >= 2
           /\ o.pc = "ownpath" => Len(o.path) # 0
           /\ o.pc = "pull" => Len(o.path) = 1
           /\ o.pc \in {"fold", "clear"} => o.path = <<>>
           /\ Cutting(q) => /\ CutLabel(o) = CutLabel(q)
                            /\ CutLabel(q) \in Byte
                            /\ CutAt(o) = IF CutAt(q) = n THEN c ELSE CutAt(q)
                            /\ CutAt(q) \in T
                            /\ q.parent # Nil => CutAt(q) # q.parent
  <1> DEFINE L == Len(q.path)
             last == IF q.goal = "pull" THEN 2 ELSE 1
  <1>1. /\ q \in OpType /\ q.pc = "ownpath" /\ q.goal \in GoalPc
        /\ L >= last /\ n = q.path[1].n
        /\ o.parent = c /\ o.l = q.path[1].l /\ o.path = Tail(q.path)
        /\ o.m = q.m /\ o.goal = q.goal
        /\ o.pc = IF L = last THEN q.goal ELSE "ownpath"
    BY DEF StepsDown
  <1>2. q.path \in Seq([n : Nat \ {0}, l : Nat]) /\ L \in Nat
    BY <1>1 DEF OpType, PathType
  <1>3. L >= 1 /\ q.path # <<>>
    BY <1>1, <1>2
  <1>4. /\ Len(o.path) = L - 1 /\ \A i \in 1..(L - 1) : o.path[i] = q.path[i + 1]
    BY <1>1, <1>2, <1>3
  <1>5. Cutting(o) <=> Cutting(q)
    BY <1>1 DEF Cutting, GoalPc
  <1>6. Goal(o) = Goal(q) /\ Goal(q) = q.goal
    BY <1>1 DEF Goal, GoalPc
  <1>7. Target(o) = Target(q)
    BY <1>1 DEF Target, GoalPc
  <1>8. /\ Stops(q) = IF Cutting(q) THEN L ELSE L + 1
        /\ Stops(o) = IF Cutting(q) THEN L - 1 ELSE L
    BY <1>2, <1>4, <1>5 DEF Stops
  <1>9. n = Stop(q, 1)
    BY <1>1, <1>3 DEF Stop
  <1>10. o.pc # "cut" => Stops(q) >= 2
    BY <1>1, <1>2, <1>3, <1>8 DEF Cutting, GoalPc
  <1>11. /\ o.pc = "ownpath" => Len(o.path) # 0
         /\ o.pc = "pull" => Len(o.path) = 1
    <2>1. o.pc = "ownpath" => L # 1
      <3>1. o.pc = "ownpath" => L # last
        BY <1>1 DEF GoalPc
      <3>2. last = 1 \/ last = 2
        OBVIOUS
      <3>3. L \in Nat /\ L >= last
        BY <1>1, <1>2
      <3> HIDE DEF L, last
      <3> QED BY <3>1, <3>2, <3>3
    <2>2. o.pc = "pull" => L = 2
      BY <1>1 DEF GoalPc
    <2>3. Len(o.path) = L - 1
      BY <1>4
    <2> HIDE DEF L
    <2> QED BY <1>2, <2>1, <2>2, <2>3
  <1>12. o.pc \in {"fold", "clear"} => o.path = <<>>
    <2>1. o.pc \in {"fold", "clear"} => L = 1
      BY <1>1 DEF GoalPc
    <2>2. o.path \in Seq([n : Nat \ {0}, l : Nat])
      BY <1>1, <1>2, <1>3
    <2> QED BY <1>4, <2>1, <2>2
  <1>13. ASSUME Cutting(q)
         PROVE  /\ CutLabel(o) = CutLabel(q)
                /\ CutLabel(q) \in Byte
                /\ CutAt(o) = IF CutAt(q) = n THEN c ELSE CutAt(q)
                /\ CutAt(q) \in T
                /\ q.parent # Nil => CutAt(q) # q.parent
    <2>1. CutAt(q) = q.path[L].n /\ CutLabel(q) = q.path[L].l
      BY <1>1 DEF CutAt, CutLabel, LastEntry
    <2>2. Stops(q) = L /\ L \in 1..L /\ 1 \in 1..L
      BY <1>2, <1>3, <1>8, <1>13
    <2>3. CutAt(q) = Stop(q, L) /\ CutAt(q) \in T /\ CutLabel(q) \in Byte
      BY <2>1, <2>2 DEF Stop, Way
    <2>4. q.parent # Nil => CutAt(q) # q.parent
      <3>1. q.parent # Nil => d[q.parent] < d[CutAt(q)]
        BY <2>2, <2>3 DEF Way
      <3>2. d[CutAt(q)] \in Nat
        BY <2>3, TreeParts
      <3> QED BY <3>1, <3>2
    <2>5. CASE L = 1
      <3>1. o.pc = "cut"
        BY <1>1, <1>13, <2>5 DEF Cutting, GoalPc
      <3> QED BY <1>1, <2>1, <2>3, <2>4, <2>5, <3>1 DEF CutAt, CutLabel
    <2>6. CASE L # 1
      <3>1. o.pc # "cut"
        BY <1>1, <1>2, <2>6 DEF GoalPc
      <3>2. L - 1 \in 1..(L - 1) /\ L - 1 + 1 = L
        <4> HIDE DEF L
        <4> QED BY <1>2, <1>3, <2>6
      <3>3. o.path[L - 1] = q.path[L]
        <4> HIDE DEF L
        <4> QED BY <1>4, <3>2
      <3>4. LastEntry(o) = q.path[L]
        BY <1>4, <3>3 DEF LastEntry
      <3>5. CutAt(o) = q.path[L].n /\ CutLabel(o) = q.path[L].l
        BY <3>1, <3>4 DEF CutAt, CutLabel
      <3>6. d[n] < d[CutAt(q)]
        <4>1. 1 < L
          <5> HIDE DEF L
          <5> QED BY <1>2, <1>3, <2>6
        <4> QED BY <1>9, <2>2, <2>3, <4>1 DEF Way
      <3>7. d[CutAt(q)] \in Nat
        BY <2>3, TreeParts
      <3>8. CutAt(q) # n
        BY <3>6, <3>7
      <3> QED BY <2>1, <2>3, <2>4, <3>5, <3>8
    <2> QED BY <2>5, <2>6
  <1>14. Stops(q) \in Nat /\ Stops(q) >= 1 /\ Stops(o) = Stops(q) - 1
    BY <1>2, <1>3, <1>8
  <1> QED BY <1>2, <1>4, <1>5, <1>6, <1>7, <1>9, <1>10, <1>11, <1>12, <1>13, <1>14

\* The rest of the way is what it was: U, J and e are the tree after n's place
\* was taken by c, or the tree itself if c is n.
TakesPlace(T, K, d, U, J, e, p, n, c) ==
    /\ c \in U /\ T \ {n} \subseteq U /\ J[c] = K[n] /\ e[c] = d[n] /\ c # Nil
    /\ \A k \in T \ {n} : e[k] = d[k] /\ (k # p => J[k] = K[k])

\* The way goes on one level down.
LEMMA WayOn ==
    ASSUME NEW q, NEW o, NEW n, NEW c, StepsDown(q, o, n, c), Stops(q) >= 2,
           NEW T, NEW K, NEW r, NEW d, Way(q, T, K, r, d), IsTree(T, K, r, d),
           NEW U, NEW J, NEW s, NEW e, TakesPlace(T, K, d, U, J, e, q.parent, n, c)
    PROVE  Way(o, U, J, s, e)
  <1> DEFINE L == Len(q.path)
             S == Stops(q)
  <1>1. /\ Cutting(o) <=> Cutting(q)
        /\ Target(o) = Target(q) /\ Stops(o) = S - 1
        /\ L \in Nat /\ Len(o.path) = L - 1
        /\ \A i \in 1..Len(o.path) : o.path[i] = q.path[i + 1]
        /\ n = Stop(q, 1) /\ S \in Nat
    BY DownFacts
  <1>2. o.parent = c /\ o.l = q.path[1].l /\ n = q.path[1].n /\ L >= 1
    BY <1>1 DEF StepsDown
  <1>3. /\ \A i \in 1..S : Stop(q, i) \in T
        /\ \A i \in 1..L : q.path[i].l \in Byte
        /\ \A i \in 1..L : i < S => K[q.path[i].n][q.path[i].l] = Stop(q, i + 1)
        /\ \A i, j \in 1..S : i < j => d[Stop(q, i)] < d[Stop(q, j)]
        /\ q.parent # Nil => \A i \in 1..S : d[q.parent] < d[Stop(q, i)]
    BY DEF Way
  <1>4. \A i \in 1..(S - 1) : Stop(o, i) = Stop(q, i + 1)
    <2>1. ASSUME NEW i \in 1..(S - 1)
          PROVE  Stop(o, i) = Stop(q, i + 1)
      <3>1. CASE i <= L - 1
        <4>1. i \in 1..Len(o.path) /\ i + 1 <= L /\ i <= Len(o.path)
          BY <1>1, <2>1, <3>1
        <4> QED BY <1>1, <4>1 DEF Stop
      <3>2. CASE ~(i <= L - 1)
        <4>1. ~(i <= Len(o.path)) /\ ~(i + 1 <= L)
          BY <1>1, <2>1, <3>2
        <4> QED BY <1>1, <4>1 DEF Stop
      <3> QED BY <3>1, <3>2
    <2> QED BY <2>1
  <1>5. /\ c \in U /\ T \ {n} \subseteq U /\ J[c] = K[n] /\ e[c] = d[n] /\ c # Nil
        /\ \A k \in T \ {n} : e[k] = d[k] /\ (k # q.parent => J[k] = K[k])
    BY DEF TakesPlace
  <1>6. ASSUME NEW i \in 1..(S - 1)
        PROVE  /\ i + 1 \in 1..S /\ Stop(q, i + 1) \in T \ {n}
               /\ d[n] < d[Stop(q, i + 1)]
               /\ J[Stop(q, i + 1)] = K[Stop(q, i + 1)]
    <2>1. i + 1 \in 1..S /\ 1 \in 1..S /\ 1 < i + 1
      BY <1>1, <1>6
    <2>2. Stop(q, i + 1) \in T /\ d[n] < d[Stop(q, i + 1)]
      BY <1>1, <1>3, <2>1
    <2>3. d[Stop(q, i + 1)] \in Nat /\ \A k \in T : k # Nil
      BY <2>2, TreeParts
    <2>4. Stop(q, i + 1) # n
      BY <2>2, <2>3
    <2>5. Stop(q, i + 1) # q.parent
      <3>1. q.parent # Nil => d[q.parent] < d[Stop(q, i + 1)]
        BY <1>3, <2>1
      <3> QED BY <2>2, <2>3, <3>1
    <2> QED BY <1>5, <2>1, <2>2, <2>4, <2>5
  <1> HIDE DEF S, L
  <1>7. 1 \in 1..(S - 1) /\ 1 \in 1..L /\ 1 < S
    BY <1>1, <1>2 DEF S
  <1>8. HangsAt(U, J, s, o.parent, o.l, Stop(o, 1))
    BY <1>2, <1>3, <1>4, <1>5, <1>7 DEF HangsAt
  <1>9. \A i \in 1..(S - 1) : Stop(o, i) \in U /\ e[Stop(o, i)] = d[Stop(q, i + 1)]
    BY <1>4, <1>5, <1>6
  <1>10. ASSUME NEW i \in 1..Len(o.path)
         PROVE  /\ o.path[i].l \in Byte
                /\ i < S - 1 => J[o.path[i].n][o.path[i].l] = Stop(o, i + 1)
    <2>1. i + 1 \in 1..L /\ o.path[i] = q.path[i + 1]
      BY <1>1, <1>10
    <2>2. ASSUME i < S - 1
          PROVE  J[o.path[i].n][o.path[i].l] = Stop(o, i + 1)
      <3>1. i \in 1..(S - 1) /\ i + 1 \in 1..(S - 1) /\ i + 1 < S
        BY <1>1, <1>10, <2>2
      <3>2. Stop(q, i + 1) = q.path[i + 1].n
        <4>1. i + 1 <= L
          BY <1>1, <2>1
        <4> QED BY <4>1 DEF Stop, L
      <3>3. J[q.path[i + 1].n] = K[q.path[i + 1].n]
        BY <1>6, <3>1, <3>2
      <3>4. K[q.path[i + 1].n][q.path[i + 1].l] = Stop(q, i + 1 + 1)
        BY <1>3, <2>1, <3>1
      <3> QED BY <1>4, <2>1, <3>1, <3>3, <3>4
    <2> QED BY <1>3, <2>1, <2>2
  <1>11. ASSUME NEW i \in 1..(S - 1), NEW j \in 1..(S - 1), i < j
         PROVE  e[Stop(o, i)] < e[Stop(o, j)]
    <2>1. i + 1 \in 1..S /\ j + 1 \in 1..S /\ i + 1 < j + 1
      BY <1>1, <1>11
    <2> QED BY <1>3, <1>9, <2>1
  <1>12. \A i \in 1..(S - 1) : e[o.parent] < e[Stop(o, i)]
    BY <1>2, <1>5, <1>6, <1>9
  <1>13. Stops(o) = S - 1
    BY <1>1
  <1> HIDE DEF TakesPlace, StepsDown
  <1> QED BY <1>8, <1>9, <1>10, <1>11, <1>12, <1>13 DEF Way

\* Where the call is after the step, and what it has found out still holds.
LEMMA DownPlace ==
    ASSUME NEW q, NEW o, NEW n, NEW c, StepsDown(q, o, n, c),
           NEW T, NEW K, NEW r, NEW d, Way(q, T, K, r, d), IsTree(T, K, r, d),
           NEW U, NEW J, NEW s, NEW e, TakesPlace(T, K, d, U, J, e, q.parent, n, c),
           NEW h, Place(h, q, T, K, r, d), NEW g,
           Cutting(q) => /\ g[CutAt(o)].prefix = h[CutAt(q)].prefix
                         /\ g[CutAt(o)].val = h[CutAt(q)].val
                         /\ Has(g, CutAt(o)) = Has(h, CutAt(q)),
           g[q.m].prefix = h[q.m].prefix, Has(g, q.m) = Has(h, q.m)
    PROVE  Place(g, o, U, J, s, e)
  <1>1. /\ Cutting(o) <=> Cutting(q)
        /\ Goal(o) = Goal(q) /\ n = Stop(q, 1) /\ Len(q.path) \in Nat
        /\ o.pc # "cut" => Stops(q) >= 2
        /\ o.pc = "ownpath" => Len(o.path) # 0
        /\ o.pc = "pull" => Len(o.path) = 1
        /\ o.pc \in {"fold", "clear"} => o.path = <<>>
        /\ Cutting(q) => CutLabel(o) = CutLabel(q) /\ CutLabel(q) \in Byte
    BY DownFacts
  <1>2. /\ q.pc = "ownpath" /\ o.parent = c /\ o.l = q.path[1].l /\ o.m = q.m
        /\ o.pc \in {"ownpath"} \cup GoalPc /\ Len(q.path) >= 1
    BY <1>1 DEF StepsDown
  <1>3. o.pc # "cut" => Way(o, U, J, s, e)
    BY <1>1, WayOn
  <1>4. c \in U
    BY DEF TakesPlace
  <1>5. o.l \in Byte
    <2>1. 1 \in 1..Len(q.path)
      BY <1>1, <1>2
    <2> QED BY <1>2, <2>1 DEF Way
  <1>6. /\ Goal(q) = "cut" => \/ h[CutAt(q)].prefix = <<>>
                              \/ h[CutAt(q)].val # NoVal
                              \/ Cardinality(Has(h, CutAt(q))) >= 3
        /\ Goal(q) = "pull" => /\ h[CutAt(q)].val = NoVal
                               /\ Cardinality(Has(h, CutAt(q))) = 2
        /\ Cutting(q) => h[CutAt(q)].kids[CutLabel(q)] # Nil
        /\ Goal(q) = "fold" => Cardinality(Has(h, q.m)) = 1
        /\ Goal(q) = "clear" => \/ h[q.m].prefix = <<>>
                                \/ Cardinality(Has(h, q.m)) >= 2
    BY DEF Place
  <1>7. Goal(q) \in {"cut", "pull"} => Cutting(q)
    BY <1>2 DEF Goal, Cutting
  <1>8. /\ Goal(o) = "cut" => \/ g[CutAt(o)].prefix = <<>>
                              \/ g[CutAt(o)].val # NoVal
                              \/ Cardinality(Has(g, CutAt(o))) >= 3
        /\ Goal(o) = "pull" => /\ g[CutAt(o)].val = NoVal
                               /\ Cardinality(Has(g, CutAt(o))) = 2
        /\ Goal(o) = "fold" => Cardinality(Has(g, o.m)) = 1
        /\ Goal(o) = "clear" => \/ g[o.m].prefix = <<>>
                                \/ Cardinality(Has(g, o.m)) >= 2
    BY <1>1, <1>2, <1>6, <1>7
  <1>9. Cutting(o) => g[CutAt(o)].kids[CutLabel(o)] # Nil
    <2>1. Cutting(q) => CutLabel(q) \in Has(h, CutAt(q))
      BY <1>1, <1>6 DEF Has
    <2>2. Cutting(q) => CutLabel(q) \in Has(g, CutAt(o))
      BY <2>1
    <2> QED BY <1>1, <2>2 DEF Has
  <1> QED BY <1>1, <1>2, <1>3, <1>4, <1>5, <1>8, <1>9 DEF Place, InsertPc, GoalPc

\* ownPath, one level: the head of the path is made the transaction's own.
LEMMA OwnPathMoves ==
    ASSUME IInv, SInv, NEW w \in Writer, OwnPath(w)
    PROVE  Moved(w) /\ Swaps(w, op[w].path[1].n)
  <1> DEFINE q == op[w]
             n == q.path[1].n
             c == ownResult(w, n, 0)
             last == IF q.goal = "pull" THEN 2 ELSE 1
             o == [op[w] EXCEPT
                     !.parent = c, !.l = q.path[1].l, !.path = Tail(@),
                     !.pc = IF Len(op[w].path) = last THEN op[w].goal ELSE @]
             r == txn[w].root
             K == Edges(heap, q)
             J == Edges(heap', o)
             j == KidCount(n) + 0
  <1>1. /\ q.pc = "ownpath" /\ trees' = trees /\ own(w, n, 0)
        /\ op' = [op EXCEPT ![w] = o]
    BY DEF OwnPath, At, Rest, pub, Goto
  <1>2. /\ q \in OpType /\ op \in [Writer -> OpType] /\ r # Nil
        /\ Nodes = 1..Len(heap) /\ q.goal \in GoalPc /\ q.m \in Nodes
        /\ Len(q.path) >= last /\ Len(heap) \in Nat
        /\ New \notin Nodes /\ New \in Nat /\ New # Nil
    <2>1. Len(heap) \in Nat /\ Nodes = 1..Len(heap)
      BY Facts DEF Nodes
    <2>2. New \notin Nodes /\ New \in Nat /\ New # Nil
      BY <2>1 DEF New, Nil
    <2>3. r # Nil /\ q.goal \in GoalPc /\ q.m \in Nodes /\ Len(q.path) >= last
      BY <1>1, Facts DEF CallAt, WritePc, InsertPc, GoalPc
    <2> QED BY <2>1, <2>2, <2>3, Facts
  <1>3. StepsDown(q, o, n, c) /\ op'[w] = o
    <2>1. /\ o.parent = c /\ o.l = q.path[1].l /\ o.path = Tail(q.path)
          /\ o.m = q.m /\ o.goal = q.goal
          /\ o.pc = IF Len(q.path) = last THEN q.goal ELSE "ownpath"
      BY <1>1, <1>2 DEF OpType
    <2>2. op'[w] = o
      BY <1>1, <1>2
    <2> HIDE DEF o
    <2> QED BY <1>1, <1>2, <2>1, <2>2 DEF StepsDown
  <1> HIDE DEF o
  <1>4. PICK T, d : /\ RadixTree(heap, T, K, r, d) /\ Place(heap, q, T, K, r, d)
                    /\ IsTree(T, K, r, d) /\ T \subseteq Nodes
    BY <1>2, MyTree
  <1>5. Way(q, T, K, r, d)
    BY <1>1, <1>4 DEF Place
  <1>6. /\ Cutting(o) <=> Cutting(q)
        /\ n = Stop(q, 1) /\ Stops(q) \in Nat /\ Stops(q) >= 1
        /\ Cutting(q) => /\ CutLabel(o) = CutLabel(q)
                         /\ CutLabel(q) \in Byte
                         /\ CutAt(o) = IF CutAt(q) = n THEN c ELSE CutAt(q)
                         /\ CutAt(q) \in T
                         /\ q.parent # Nil => CutAt(q) # q.parent
    <2> HIDE DEF n, c, q, K, r
    <2> QED BY <1>3, <1>4, <1>5, DownFacts
  <1>7. /\ n \in T /\ n \in Nodes /\ n # Nil
        /\ HangsAt(T, K, r, q.parent, q.l, n)
    <2>1. 1 \in 1..Stops(q)
      BY <1>6
    <2>2. n \in T /\ HangsAt(T, K, r, q.parent, q.l, n)
      BY <1>5, <1>6, <2>1 DEF Way
    <2> QED BY <1>2, <1>4, <2>2 DEF Nil
  <1>8. \A k \in Nodes : K[k] = View(heap, q, k)
    BY <1>2 DEF Edges
  <1>9. \A h, k : /\ View(h, q, k) = IF Cutting(q) /\ k = CutAt(q)
                                     THEN [h[k].kids EXCEPT ![CutLabel(q)] = Nil]
                                     ELSE h[k].kids
                  /\ View(h, o, k) = IF Cutting(o) /\ k = CutAt(o)
                                     THEN [h[k].kids EXCEPT ![CutLabel(o)] = Nil]
                                     ELSE h[k].kids
    <2>1. q.pc # "fork" /\ o.pc # "fork"
      BY <1>1, <1>2, <1>3 DEF StepsDown, GoalPc
    <2> QED BY <2>1 DEF View
  <1>10. CASE c = n /\ heap' = heap /\ txn' = txn
    <2>1. J = K
      <3>1. ASSUME NEW k
            PROVE  View(heap, o, k) = View(heap, q, k)
        <4>1. c = n
          BY <1>10
        <4> HIDE DEF n, c, q, r
        <4>2. Cutting(q) => CutAt(o) = CutAt(q)
          BY <1>6, <4>1
        <4>3. /\ View(heap, q, k) = IF Cutting(q) /\ k = CutAt(q)
                                    THEN [heap[k].kids EXCEPT ![CutLabel(q)] = Nil]
                                    ELSE heap[k].kids
              /\ View(heap, o, k) = IF Cutting(o) /\ k = CutAt(o)
                                    THEN [heap[k].kids EXCEPT ![CutLabel(o)] = Nil]
                                    ELSE heap[k].kids
          BY <1>9
        <4> QED BY <1>6, <4>2, <4>3
      <3>2. heap' = heap
        BY <1>10
      <3> HIDE DEF n, c, q, r
      <3>3. J = [k \in 1..Len(heap) |-> View(heap, o, k)]
        BY <3>2 DEF Edges
      <3>4. K = [k \in 1..Len(heap) |-> View(heap, q, k)]
        BY DEF Edges
      <3> QED BY <3>1, <3>3, <3>4
    <2>2. TakesPlace(T, K, d, T, K, d, q.parent, n, c)
      BY <1>7, <1>10 DEF TakesPlace
    <2>3. Cutting(q) => CutAt(o) = CutAt(q)
      BY <1>6, <1>10
    <2> HIDE DEF c, n, q, K, r
    <2>4. Place(heap, o, T, K, r, d)
      BY <1>3, <1>4, <1>5, <2>2, <2>3, DownPlace
    <2>5. LiveTree(heap, o, txn[w].root)
      BY <1>4, <1>10, <2>1, <2>4 DEF LiveTree, Live, r
    <2>6. Moved(w)
      BY <1>1, <1>10, <2>5, LocalMoves
    <2>7. Live(heap, op[w], txn[w].root, T, d)
      BY <1>4 DEF Live, K, q, r
    <2>8. Live(heap', op'[w], txn'[w].root, T, d)
      <3>1. heap' = heap /\ txn' = txn /\ Edges(heap, o) = K
        BY <1>10, <2>1
      <3> QED BY <1>3, <1>4, <2>4, <3>1 DEF Live, r
    <2>9. Len(heap') = Len(heap) /\ \A k \in Nodes : heap'[k].kids = heap[k].kids
      BY <1>10
    <2>10. Swaps(w, n)
      BY <1>7, <2>7, <2>8, <2>9, StayTurns
    <2> QED BY <2>6, <2>10 DEF n, q
  <1>11. CASE c = New /\ PutNew(w, n, heap[n].val, j)
    <2> DEFINE U == (T \ {n}) \cup {New}
               e == [d EXCEPT ![New] = d[n]]
               s == txn'[w].root
    <2>1. q.parent # Nil => /\ q.parent \in Nodes /\ q.l \in Byte
                            /\ heap[q.parent].kids[q.l] = n
      <3>1. q.parent # Nil => q.parent \in T /\ q.l \in Byte /\ K[q.parent][q.l] = n
        BY <1>7 DEF HangsAt
      <3>2. ASSUME q.parent # Nil
            PROVE  q.parent \in Nodes /\ heap[q.parent].kids[q.l] = n
        <4>1. q.parent \in T /\ q.parent \in Nodes
          BY <1>4, <3>1, <3>2
        <4>2. Cutting(q) => CutAt(q) # q.parent
          BY <1>6, <3>2
        <4>3. K[q.parent] = View(heap, q, q.parent)
          BY <1>8, <4>1
        <4>4. View(heap, q, q.parent) = heap[q.parent].kids
          BY <1>9, <4>2
        <4>5. K[q.parent][q.l] = n
          BY <3>1, <3>2
        <4> QED BY <4>1, <4>3, <4>4, <4>5
      <3> QED BY <3>1, <3>2
    <2>2. j \in Nat /\ KidCount(n) <= j
      <3>1. KidCount(n) \in 0..Cardinality(Byte) /\ Cardinality(Byte) \in Nat
        BY KidCountType, ByteAssumption, FS_CardinalityType
      <3> QED BY <3>1
    <2>3. PutNew(w, n, heap[n].val, j)
      BY <1>11
    <2> HIDE DEF j
    <2>4. /\ Fits(heap')
          /\ \A k \in Nodes : Like(heap'[k], heap[k])
                              /\ Has(heap', k) = Has(heap, k)
          /\ Has(heap', New) = Has(heap, n) /\ Len(heap') = New
          /\ New = Len(heap) + 1
          /\ \A k \in Nodes : k # q.parent => heap'[k].kids = heap[k].kids
          /\ q.parent \in Nodes => heap'[q.parent].kids =
                [heap[q.parent].kids EXCEPT ![q.l] = New]
      <3>1. op[w].parent # Nil => /\ op[w].l \in Byte
                                  /\ heap[op[w].parent].kids[op[w].l] = n
        BY <2>1
      <3> HIDE DEF n
      <3> QED BY <1>7, <2>2, <2>3, <3>1, PutKeeps
    <2>5. /\ heap'[New].prefix = heap[n].prefix /\ heap'[New].val = heap[n].val
          /\ heap'[New].kids = heap[n].kids
      BY <2>3 DEF PutNew
    <2>6. /\ \A k \in Nodes : J[k] = View(heap', o, k)
          /\ J[New] = View(heap', o, New)
      BY <1>2, <2>4 DEF Edges
    <2>7. Cutting(q) => (CutAt(o) = New <=> CutAt(q) = n)
      BY <1>2, <1>4, <1>6, <1>11
    <2> HIDE DEF n, c, q, K, r, J
    <2>8. J[New] = K[n]
      BY <1>6, <1>7, <1>8, <1>9, <2>5, <2>6, <2>7
    <2>9. ASSUME NEW k \in T \ {n}
          PROVE  J[k] = IF k = q.parent THEN [K[k] EXCEPT ![q.l] = New] ELSE K[k]
      <3>1. k \in Nodes /\ k # New /\ k # n /\ k # Nil
        BY <1>2, <1>4, <2>9 DEF Nodes, Nil
      <3>2. Cutting(q) => (CutAt(o) = k <=> CutAt(q) = k)
        BY <1>6, <1>11, <2>7, <3>1
      <3>3. J[k] = View(heap', o, k) /\ K[k] = View(heap, q, k)
        BY <1>8, <2>6, <3>1
      <3>4. CASE Cutting(q) /\ k = CutAt(q)
        <4>1. k # q.parent
          BY <1>6, <3>1, <3>4
        <4>2. heap'[k].kids = heap[k].kids
          BY <2>4, <3>1, <4>1
        <4> QED BY <1>6, <1>9, <3>2, <3>3, <3>4, <4>1, <4>2
      <3>5. CASE ~(Cutting(q) /\ k = CutAt(q))
        <4>1. J[k] = heap'[k].kids /\ K[k] = heap[k].kids
          BY <1>6, <1>9, <3>2, <3>3, <3>5
        <4> QED BY <2>4, <3>1, <4>1
      <3> QED BY <3>4, <3>5
    <2>10. Replaces(T, K, J, q.parent, q.l, n, New)
      BY <1>2, <1>4, <1>7, <2>8, <2>9 DEF Replaces
    <2>11. RadixTree(heap', U, J, s, e)
      <3>1. RadixTree(heap, T, K, txn[w].root, d)
        BY <1>4 DEF r
      <3>2. HangsAt(T, K, txn[w].root, op[w].parent, op[w].l, n)
        BY <1>7 DEF q, r
      <3>3. Replaces(T, K, J, op[w].parent, op[w].l, n, New)
        BY <2>10 DEF q
      <3>4. op[w].parent # Nil => heap[op[w].parent].kids[op[w].l] = n
        BY <2>1 DEF q
      <3> QED BY <1>4, <1>7, <2>2, <2>3, <3>1, <3>2, <3>3, <3>4, PutTree
    <2>12. TakesPlace(T, K, d, U, J, e, q.parent, n, c)
      <3>1. d \in [Nat -> Nat]
        BY <1>4 DEF IsTree
      <3>2. \A k \in T : k \in Nat /\ k # New
        BY <1>2, <1>4 DEF Nodes
      <3> QED BY <1>2, <1>11, <2>8, <2>9, <3>1, <3>2 DEF TakesPlace
    <2>13. Cutting(q) => /\ heap'[CutAt(o)].prefix = heap[CutAt(q)].prefix
                         /\ heap'[CutAt(o)].val = heap[CutAt(q)].val
                         /\ Has(heap', CutAt(o)) = Has(heap, CutAt(q))
      <3>1. CASE Cutting(q) /\ CutAt(q) = n
        BY <2>4, <2>5, <2>7, <3>1
      <3>2. CASE Cutting(q) /\ CutAt(q) # n
        <4>1. CutAt(o) = CutAt(q) /\ CutAt(q) \in Nodes
          BY <1>4, <1>6, <3>2
        <4>2. /\ Like(heap'[CutAt(q)], heap[CutAt(q)])
              /\ Has(heap', CutAt(q)) = Has(heap, CutAt(q))
          BY <2>4, <4>1
        <4> QED BY <4>1, <4>2 DEF Like
      <3> QED BY <3>1, <3>2
    <2>14. heap'[q.m].prefix = heap[q.m].prefix /\ Has(heap', q.m) = Has(heap, q.m)
      <3>1. q.m \in Nodes
        BY <1>2
      <3>2. Has(heap', q.m) = Has(heap, q.m) /\ Like(heap'[q.m], heap[q.m])
        BY <2>4, <3>1
      <3> QED BY <3>2 DEF Like
    <2> HIDE DEF U, e, s
    <2>15. Place(heap', o, U, J, s, e)
      <3>1. /\ StepsDown(q, o, n, c) /\ Way(q, T, K, r, d) /\ IsTree(T, K, r, d)
            /\ Place(heap, q, T, K, r, d)
        BY <1>3, <1>4, <1>5
      <3> QED BY <2>12, <2>13, <2>14, <3>1, DownPlace
    <2>16. LiveTree(heap', o, txn'[w].root)
      BY <2>11, <2>15 DEF LiveTree, Live, J, s
    <2>17. Spares(w)
      BY <1>1, <2>3, PutSpares
    <2>18. Live(heap, op[w], txn[w].root, T, d)
      BY <1>4 DEF Live, K, q, r
    <2>19. Live(heap', op'[w], txn'[w].root, (T \ {n}) \cup {New}, e)
      BY <1>3, <2>11, <2>15 DEF Live, J, s, U
    <2>20. HangsAt(T, K, r, op[w].parent, op[w].l, n)
      BY <1>7 DEF q
    <2>21. Swaps(w, n)
      BY <1>7, <2>3, <2>18, <2>19, <2>20, PutTurns
    <2> QED BY <1>3, <2>4, <2>16, <2>17, <2>21 DEF Moved, n, q
  <1>12. \/ c = n /\ heap' = heap /\ txn' = txn
         \/ c = New /\ PutNew(w, n, heap[n].val, j)
    <2> HIDE DEF n
    <2> QED BY <1>1, <1>7, OwnEffect
  <1> QED BY <1>10, <1>11, <1>12

\* delKid: the node the call saw the tree without is taken out.
LEMMA CutMoves ==
    ASSUME IInv, SInv, NEW w \in Writer, Cut(w)
    PROVE  Moved(w) /\ \E T : Turns(w, T, T)
  <1> DEFINE q == op[w]
             p == q.parent
             l == q.l
             r == txn[w].root
             K == Edges(heap, q)
             J == Plain(heap')
  <1>1. /\ q.pc = "cut" /\ trees' = trees /\ txn' = txn /\ Return(w, q.val)
        /\ heap' = [heap EXCEPT ![p].kids[l] = Nil]
    BY DEF Cut, At, Rest, pub
  <1>2. PICK o : op' = [op EXCEPT ![w] = o] /\ o.pc = "idle"
    BY <1>1, ReturnIdle
  <1>3. /\ q \in OpType /\ op \in [Writer -> OpType] /\ r # Nil
        /\ heap \in Seq(NodeType) /\ Len(heap) \in Nat /\ Nodes = 1..Len(heap)
        /\ p \in Nodes /\ p # Nil /\ Mine(w, p)
        /\ \A k \in Nodes : heap[k].kids \in [Byte -> Nat] /\ heap[k].cap \in Nat
    <2>1. \A k \in Nodes : heap[k].kids \in [Byte -> Nat] /\ heap[k].cap \in Nat
      BY Facts DEF NodeType
    <2> QED BY <1>1, <2>1, Facts DEF CallAt, CallOwns, GoalPc, WritePc, Nodes
  <1>4. PICK T, d : /\ RadixTree(heap, T, K, r, d) /\ Place(heap, q, T, K, r, d)
                    /\ T \subseteq Nodes
    BY <1>3, MyTree
  <1>5. /\ p \in T /\ l \in Byte
        /\ \/ heap[p].prefix = <<>> \/ heap[p].val # NoVal
           \/ Cardinality(Has(heap, p)) >= 3
        /\ heap[p].kids[l] # Nil
    <2>1. Goal(q) = "cut" /\ Cutting(q) /\ CutAt(q) = p /\ CutLabel(q) = l
      BY <1>1 DEF Goal, Cutting, CutAt, CutLabel
    <2> QED BY <1>1, <1>4, <2>1 DEF Place
  <1>6. Relinked(heap, heap', p, l, Nil) /\ heap' \in Seq(NodeType)
        /\ Len(heap') = Len(heap)
    <2>1. heap' = link(heap, p, l, Nil)
      BY <1>1, <1>3 DEF link
    <2>2. p \in 0..Len(heap) /\ Nil \in Nat
      BY <1>3 DEF Nil
    <2> HIDE DEF p, l
    <2> QED BY <1>3, <2>1, <2>2, LinkType, LinkSame
  <1>7. \A k \in Nodes : K[k] = IF k = p THEN [heap[k].kids EXCEPT ![l] = Nil]
                                ELSE heap[k].kids
    <2>1. \A k \in Nodes : K[k] = View(heap, q, k)
      BY <1>3 DEF Edges
    <2>2. Cutting(q) /\ CutAt(q) = p /\ CutLabel(q) = l
      BY <1>1 DEF Cutting, CutAt, CutLabel
    <2> QED BY <1>1, <2>1, <2>2 DEF View
  <1>8. \A k \in Nodes : /\ Like(heap'[k], heap[k]) /\ heap'[k].kids = K[k]
                         /\ J[k] = K[k]
    BY <1>3, <1>6, <1>7 DEF Relinked, Plain
  <1> HIDE DEF p, l, q, J, K, r
  <1>9. ASSUME NEW k \in Nodes
        PROVE  /\ Full(heap, k) => Full(heap', k)
               /\ Cardinality(Has(heap', k)) <= heap'[k].cap
    <2>1. Cardinality(Has(heap, k)) <= heap[k].cap
      BY <1>3 DEF SInv, Fits
    <2>2. CASE k = p
      <3>1. Has(heap', k) = Has(heap, k) \ {l} /\ l \in Has(heap, k)
        <4>1. \A x \in Byte : heap'[k].kids[x] = IF x = l THEN Nil
                                                 ELSE heap[k].kids[x]
          BY <1>3, <1>5, <1>7, <1>8, <2>2
        <4> QED BY <1>5, <2>2, <4>1 DEF Has
      <3>2. IsFiniteSet(Has(heap, k))
        BY ByteAssumption, FS_Subset DEF Has
      <3>3. /\ Cardinality(Has(heap', k)) = Cardinality(Has(heap, k)) - 1
            /\ Cardinality(Has(heap, k)) \in Nat
        BY <3>1, <3>2, FS_RemoveElement, FS_CardinalityType
      <3>4. Cardinality(Has(heap', k)) <= heap[k].cap
        BY <1>3, <2>1, <3>3
      <3>5. Full(heap', k)
        BY <1>5, <1>8, <2>2, <3>3 DEF Full, Like
      <3> QED BY <1>8, <3>4, <3>5 DEF Like
    <2>3. CASE k # p
      <3>1. Has(heap', k) = Has(heap, k)
        BY <1>7, <1>8, <2>3 DEF Has
      <3> QED BY <1>8, <2>1, <3>1, FullSame DEF Like
    <2> QED BY <2>2, <2>3
  <1>10. Fits(heap')
    BY <1>3, <1>6, <1>9 DEF Fits
  <1>11. RadixTree(heap', T, J, r, d)
    <2>1. \A k \in T : heap'[k].prefix = heap[k].prefix /\ J[k] = K[k]
                       /\ Full(heap', k)
      BY <1>4, <1>8, <1>9 DEF RadixTree, Like
    <2> QED BY <1>4, <2>1, Unchanged
  <1>12. Live(heap', o, txn[w].root, T, d) /\ LiveTree(heap', o, txn[w].root)
    BY <1>2, <1>11, IdleLive DEF J, r
  <1>13. Spares(w) /\ op'[w] = o
    BY <1>1, <1>2, <1>3, <1>6, LinkSpares
  <1>14. Turns(w, T, T)
    <2>1. Live(heap, op[w], txn[w].root, T, d)
      BY <1>4 DEF Live, K, q, r
    <2>2. Live(heap', op'[w], txn'[w].root, T, d)
      BY <1>1, <1>12, <1>13
    <2>3. \A k \in Nodes \ T : heap'[k].kids = heap[k].kids
      BY <1>5, <1>7, <1>8
    <2> QED BY <2>1, <2>2, <2>3 DEF Turns
  <1> QED BY <1>1, <1>10, <1>12, <1>13, <1>14 DEF Moved

\* n, p's child under l, has one child in sight, c under b, and w merges them.
Merging(w, T, K, d, n, b, c) ==
    /\ op[w].parent \in T /\ op[w].l \in Byte /\ n # Nil
    /\ K[op[w].parent][op[w].l] = n
    /\ c # Nil /\ b \in Byte /\ K[n][b] = c
    /\ \A x \in Byte \ {b} : K[n][x] = Nil
    /\ \A k \in T \ {n} : K[k] = heap[k].kids
    /\ RadixTree(heap, T, K, txn[w].root, d) /\ T \subseteq Nodes

\* A segment that another is joined to starts as it did.
LEMMA JoinedHead ==
    ASSUME NEW u \in Seq(Byte), NEW v \in Seq(Byte), u # <<>>
    PROVE  u \o v # <<>> /\ Head(u \o v) = Head(u)
  <1>1. Len(u) \in Nat \ {0} /\ Len(v) \in Nat
    OBVIOUS
  <1>2. u \o v \in Seq(Byte) /\ Len(u \o v) = Len(u) + Len(v)
    OBVIOUS
  <1>3. (u \o v)[1] = u[1]
    BY <1>1
  <1>4. Len(u \o v) # 0
    BY <1>1, <1>2
  <1>5. u \o v # <<>>
    BY <1>4
  <1> QED BY <1>2, <1>3, <1>5

\* The joined segment starts as n's does, and c is full without it.
LEMMA MergeParts ==
    ASSUME IInv, SInv, NEW w \in Writer, NEW T, NEW K, NEW d, NEW n, NEW b, NEW c,
           Merging(w, T, K, d, n, b, c)
    PROVE  LET p == op[w].parent
               joined == heap[n].prefix \o heap[c].prefix
           IN  /\ n \in T /\ n # p /\ c \in T /\ c # n /\ c # p /\ p # Nil
               /\ n \in Nodes /\ c \in Nodes /\ p \in Nodes
               /\ heap[p].kids[op[w].l] = n
               /\ joined # <<>> /\ Head(joined) = Head(heap[n].prefix)
               /\ heap[c].val # NoVal \/ Cardinality(Has(heap, c)) >= 2
  <1> DEFINE p == op[w].parent
             l == op[w].l
             r == txn[w].root
  <1>1. /\ p \in T /\ l \in Byte /\ n # Nil /\ K[p][l] = n
        /\ c # Nil /\ b \in Byte /\ K[n][b] = c
        /\ \A k \in T \ {n} : K[k] = heap[k].kids
        /\ RadixTree(heap, T, K, r, d) /\ T \subseteq Nodes
    BY DEF Merging
  <1> HIDE DEF p, l, r
  <1>2. IsTree(T, K, r, d) /\ \A k \in T : Full(heap, k) /\ EdgeShape(heap, K[k])
    BY <1>1 DEF RadixTree
  <1>3. /\ \A k \in T : k # Nil /\ d[k] \in Nat
        /\ \A k \in T, x \in Byte : K[k][x] # Nil =>
              K[k][x] \in T /\ d[k] < d[K[k][x]]
    BY <1>2, TreeParts
  <1>4. n \in T /\ d[p] < d[n]
    BY <1>1, <1>3
  <1>5. c \in T /\ d[n] < d[c]
    BY <1>1, <1>3, <1>4
  <1>6. d[p] \in Nat /\ d[n] \in Nat /\ d[c] \in Nat /\ p # Nil
    BY <1>1, <1>3, <1>4, <1>5
  <1>7. n # p /\ c # n /\ c # p
    BY <1>4, <1>5, <1>6
  <1>8. heap[n].prefix # <<>> /\ heap[c].prefix # <<>>
    BY <1>1, <1>2, <1>4 DEF EdgeShape
  <1>9. heap[n].prefix \in Seq(Byte) /\ heap[c].prefix \in Seq(Byte)
    BY <1>1, <1>4, <1>5, Facts DEF NodeType
  <1>10. /\ heap[n].prefix \o heap[c].prefix # <<>>
         /\ Head(heap[n].prefix \o heap[c].prefix) = Head(heap[n].prefix)
    BY <1>8, <1>9, JoinedHead
  <1>11. heap[c].val # NoVal \/ Cardinality(Has(heap, c)) >= 2
    BY <1>2, <1>5, <1>8 DEF Full
  <1>12. heap[p].kids[l] = n
    BY <1>1, <1>7
  <1>13. n \in Nodes /\ c \in Nodes /\ p \in Nodes
    BY <1>1, <1>4, <1>5
  <1> QED BY <1>4, <1>5, <1>6, <1>7, <1>10, <1>11, <1>12, <1>13 DEF p, l

\* n is gone from the tree, and New is in c's place if c was copied.
Merges(w, n, c) ==
    \E T, S : /\ Turns(w, T, S) /\ n \in T /\ c \in T /\ n # c
              /\ S = IF Len(heap') = Len(heap) THEN T \ {n}
                     ELSE ((T \ {n}) \ {c}) \cup {New}

\* The trees before and after, one merging later.
LEMMA MergeMoves ==
    ASSUME IInv, SInv, NEW w \in Writer, NEW T, NEW K, NEW d, NEW n, NEW b, NEW c,
           Merging(w, T, K, d, n, b, c), NEW nf, mergeChild(w, nf, n, c),
           NEW o, op' = [op EXCEPT ![w] = o], o.pc = "idle", trees' = trees,
           txn[w].epoch # 0, op[w].parent # Nil,
           Live(heap, op[w], txn[w].root, T, d)
    PROVE  Moved(w) /\ Merges(w, n, c)
  <1> DEFINE p == op[w].parent
             l == op[w].l
             r == txn[w].root
             J == Plain(heap')
             joined == heap[n].prefix \o heap[c].prefix
             U == T \ {n}
  <1>1. /\ p \in T /\ l \in Byte /\ n # Nil /\ K[p][l] = n
        /\ c # Nil /\ b \in Byte /\ K[n][b] = c
        /\ \A x \in Byte \ {b} : K[n][x] = Nil
        /\ \A k \in T \ {n} : K[k] = heap[k].kids
        /\ RadixTree(heap, T, K, r, d) /\ T \subseteq Nodes
    BY DEF Merging
  <1>2. /\ n \in T /\ n # p /\ c \in T /\ c # n /\ c # p /\ p # Nil
        /\ n \in Nodes /\ c \in Nodes /\ p \in Nodes
        /\ heap[p].kids[l] = n
        /\ joined # <<>> /\ Head(joined) = Head(heap[n].prefix)
        /\ heap[c].val # NoVal \/ Cardinality(Has(heap, c)) >= 2
    BY MergeParts
  <1>3. /\ txn' = txn /\ heap' \in Seq(NodeType)
        /\ \/ /\ Owns(w, c) /\ Len(heap') = Len(heap)
              /\ \A k \in Nodes :
                    /\ heap'[k].prefix = IF k = c THEN joined ELSE heap[k].prefix
                    /\ heap'[k].val = heap[k].val
                    /\ heap'[k].cap = heap[k].cap
                    /\ heap'[k].kids =
                          IF k = p THEN [heap[k].kids EXCEPT ![l] = c]
                                   ELSE heap[k].kids
           \/ /\ Len(heap') = New
              /\ Relinked(heap, heap', p, l, New)
              /\ heap'[New].prefix = joined
              /\ heap'[New].kids = heap[c].kids
              /\ heap'[New].val = heap[c].val
              /\ KidCount(c) <= heap'[New].cap
    <2> HIDE DEF joined
    <2> QED BY <1>2, MergeEffect DEF joined
  <1>4. /\ heap \in Seq(NodeType) /\ Len(heap) \in Nat /\ Nodes = 1..Len(heap)
        /\ New = Len(heap) + 1 /\ New \in Nat \ {Nil} /\ New \notin Nodes
        /\ op \in [Writer -> OpType] /\ Mine(w, p)
        /\ \A k \in Nodes : heap[k].kids \in [Byte -> Nat]
    <2>1. \A k \in Nodes : heap[k].kids \in [Byte -> Nat]
      BY Facts DEF NodeType
    <2>2. /\ heap \in Seq(NodeType) /\ Len(heap) \in Nat /\ Nodes = 1..Len(heap)
          /\ op \in [Writer -> OpType] /\ Mine(w, p)
      BY Facts DEF CallOwns, Nodes
    <2>3. New = Len(heap) + 1 /\ New \in Nat \ {Nil} /\ New \notin Nodes
      BY <2>2 DEF New, Nil
    <2> QED BY <2>1, <2>2, <2>3
  <1>5. op'[w] = o /\ \A u \in Writer : u # w => op'[u] = op[u]
    BY <1>4
  <1> HIDE DEF joined, p, l, r, J, U
  <1>6. CASE /\ Owns(w, c) /\ Len(heap') = Len(heap)
             /\ \A k \in Nodes :
                   /\ heap'[k].prefix = IF k = c THEN joined ELSE heap[k].prefix
                   /\ heap'[k].val = heap[k].val
                   /\ heap'[k].cap = heap[k].cap
                   /\ heap'[k].kids = IF k = p THEN [heap[k].kids EXCEPT ![l] = c]
                                               ELSE heap[k].kids
    <2>1. ASSUME NEW k \in Nodes
          PROVE  /\ Has(heap', k) = Has(heap, k)
                 /\ J[k] = heap'[k].kids
                 /\ Cardinality(Has(heap', k)) <= heap'[k].cap
                 /\ Full(heap, k) => Full(heap', k)
      <3>1. Has(heap', k) = Has(heap, k)
        <4>1. CASE k = p
          <5>1. heap'[k].kids = [heap[k].kids EXCEPT ![l] = c]
            BY <1>6, <4>1
          <5>2. heap[k].kids \in [Byte -> Nat] /\ heap[k].kids[l] = n
            BY <1>2, <1>4, <4>1
          <5>3. c # Nil /\ n # Nil
            BY <1>1, <1>2, <1>4 DEF Nil
          <5>4. \A x \in Byte : heap'[k].kids[x] # Nil <=> heap[k].kids[x] # Nil
            BY <5>1, <5>2, <5>3
          <5> QED BY <5>4 DEF Has
        <4>2. CASE k # p
          BY <1>6, <4>2 DEF Has
        <4> QED BY <4>1, <4>2
      <3>2. Cardinality(Has(heap, k)) <= heap[k].cap
        BY <1>4 DEF SInv, Fits
      <3>3. J[k] = heap'[k].kids
        BY <1>4, <1>6 DEF J, Plain
      <3>4. Full(heap, k) => Full(heap', k)
        <4>1. heap'[k].val = heap[k].val
          BY <1>6
        <4>2. CASE k = c
          BY <1>2, <3>1, <4>1, <4>2 DEF Full
        <4>3. CASE k # c
          <5>1. heap'[k].prefix = heap[k].prefix
            BY <1>6, <4>3
          <5> QED BY <3>1, <4>1, <5>1 DEF Full
        <4> QED BY <4>2, <4>3
      <3>5. heap'[k].cap = heap[k].cap
        BY <1>6
      <3> QED BY <3>1, <3>2, <3>3, <3>4, <3>5
    <2>2. Fits(heap')
      BY <1>4, <1>6, <2>1 DEF Fits
    <2>3. Skips(T, K, J, p, l, n, b, c)
      <3>1. J[p] = [K[p] EXCEPT ![l] = c]
        BY <1>1, <1>2, <1>6, <2>1
      <3>2. ASSUME NEW k \in T \ {n, p}
            PROVE  J[k] = K[k]
        <4>1. k \in Nodes /\ k # p /\ k \in T \ {n}
          BY <1>1
        <4>2. J[k] = heap'[k].kids /\ heap'[k].kids = heap[k].kids
          BY <1>6, <2>1, <4>1
        <4> QED BY <1>1, <4>1, <4>2
      <3> QED BY <1>1, <3>1, <3>2 DEF Skips
    <2>4. heap'[c].prefix = joined
      BY <1>2, <1>6
    <2>5. \A k \in T \ {n, c} : heap'[k].prefix = heap[k].prefix
      BY <1>1, <1>6
    <2>6. \A k \in T \ {n} : Full(heap', k)
      BY <1>1, <2>1 DEF RadixTree
    <2>7. RadixTree(heap', U, J, r, d)
      BY <1>1, <1>2, <2>3, <2>4, <2>5, <2>6, Skipped DEF U
    <2>8. Live(heap', o, r, U, d) /\ LiveTree(heap', o, r)
      BY <2>7, IdleLive DEF J
    <2>9. Mine(w, c)
      BY <1>6 DEF Owns, Mine
    <2>10. \A k \in Nodes : ~Mine(w, k) => Same(heap, heap', k)
      BY <1>4, <1>6, <2>9 DEF Same, Like
    <2>11. Spares(w)
      BY <1>3, <1>4, <1>5, <1>6, <2>10 DEF Spares
    <2>12. Merges(w, n, c)
      <3>1. Live(heap', op'[w], txn'[w].root, U, d)
        BY <1>3, <1>5, <2>8 DEF r
      <3>2. \A k \in Nodes \ T : heap'[k].kids = heap[k].kids
        BY <1>1, <1>6
      <3>3. Turns(w, T, U)
        BY <3>1, <3>2 DEF Turns
      <3>4. U = IF Len(heap') = Len(heap) THEN T \ {n}
                ELSE ((T \ {n}) \ {c}) \cup {New}
        BY <1>6 DEF U
      <3> QED BY <1>2, <3>3, <3>4 DEF Merges
    <2> QED BY <1>3, <1>5, <2>2, <2>8, <2>11, <2>12 DEF Moved, r
  <1>7. CASE /\ Len(heap') = New
             /\ Relinked(heap, heap', p, l, New)
             /\ heap'[New].prefix = joined
             /\ heap'[New].kids = heap[c].kids
             /\ heap'[New].val = heap[c].val
             /\ KidCount(c) <= heap'[New].cap
    <2> DEFINE x == [heap[c] EXCEPT !.prefix = joined]
               g == [heap EXCEPT ![c] = x]
               I == [k \in Nodes |-> IF k = p THEN [heap[k].kids EXCEPT ![l] = c]
                                              ELSE heap[k].kids]
    <2>1. \A k \in Nodes : /\ Like(heap'[k], heap[k])
                           /\ heap'[k].kids =
                                 IF k = p THEN [heap[k].kids EXCEPT ![l] = New]
                                          ELSE heap[k].kids
                           /\ J[k] = heap'[k].kids
      BY <1>4, <1>7 DEF Relinked, J, Plain
    <2>2. ASSUME NEW k \in Nodes
          PROVE  /\ Has(heap', k) = Has(heap, k)
                 /\ Cardinality(Has(heap', k)) <= heap'[k].cap
                 /\ Full(heap, k) => Full(heap', k)
      <3>1. Has(heap', k) = Has(heap, k)
        <4>1. CASE k = p
          <5>1. \A y \in Byte : heap'[k].kids[y] # Nil <=> heap[k].kids[y] # Nil
            BY <1>1, <1>2, <1>4, <2>1, <4>1
          <5> QED BY <5>1 DEF Has
        <4>2. CASE k # p
          BY <2>1, <4>2 DEF Has
        <4> QED BY <4>1, <4>2
      <3>2. Cardinality(Has(heap, k)) <= heap[k].cap
        BY <1>4 DEF SInv, Fits
      <3>3. /\ heap'[k].prefix = heap[k].prefix /\ heap'[k].val = heap[k].val
            /\ heap'[k].cap = heap[k].cap
        BY <2>1 DEF Like
      <3>4. Full(heap, k) => Full(heap', k)
        BY <3>1, <3>3, FullSame
      <3> QED BY <3>1, <3>2, <3>3, <3>4
    <2>3. Has(heap', New) = Has(heap, c)
      BY <1>7 DEF Has
    <2>4. Fits(heap')
      <3>1. Has(heap, c) = Labels(c)
        BY DEF Has, Labels, Kid
      <3>2. Cardinality(Has(heap', New)) <= heap'[New].cap
        BY <1>7, <2>3, <3>1 DEF KidCount
      <3>3. \A k \in 1..Len(heap') : k = New \/ k \in Nodes
        BY <1>4, <1>7
      <3> QED BY <2>2, <3>2, <3>3 DEF Fits
    <2>5. /\ \A k \in Nodes : /\ g[k].prefix = IF k = c THEN joined
                                               ELSE heap[k].prefix
                              /\ g[k].val = heap[k].val
                              /\ g[k].kids = heap[k].kids
      <3>1. heap[c] \in NodeType
        BY <1>2, Facts
      <3>2. x.prefix = joined /\ x.val = heap[c].val /\ x.kids = heap[c].kids
        BY <3>1 DEF NodeType
      <3> HIDE DEF x
      <3>3. \A k \in Nodes : g[k] = IF k = c THEN x ELSE heap[k]
        BY <1>4
      <3> QED BY <3>2, <3>3
    <2>6. \A k \in Nodes : I[k] = IF k = p THEN [heap[k].kids EXCEPT ![l] = c]
                                           ELSE heap[k].kids
      OBVIOUS
    <2> HIDE DEF I, g, x
    <2>7. \A k \in Nodes : Full(heap, k) => Full(g, k)
      <3>1. ASSUME NEW k \in Nodes, Full(heap, k)
            PROVE  Full(g, k)
        <4>1. Has(g, k) = Has(heap, k)
          BY <2>5 DEF Has
        <4>2. CASE k = c
          BY <1>2, <2>5, <4>1, <4>2 DEF Full
        <4>3. CASE k # c
          <5>1. g[k].prefix = heap[k].prefix
            BY <2>5, <4>3
          <5> QED BY <2>5, <3>1, <4>1, <5>1 DEF Full
        <4> QED BY <4>2, <4>3
      <3> QED BY <3>1
    <2>8. RadixTree(g, U, I, r, d) /\ p \in U /\ c \in U
      <3>1. Skips(T, K, I, p, l, n, b, c)
        <4>1. I[p] = [K[p] EXCEPT ![l] = c]
          BY <1>1, <1>2, <2>6
        <4>2. ASSUME NEW k \in T \ {n, p}
              PROVE  I[k] = K[k]
          BY <1>1, <2>6
        <4> QED BY <1>1, <4>1, <4>2 DEF Skips
      <3>2. g[c].prefix = joined
        BY <1>2, <2>5
      <3>3. \A k \in T \ {n, c} : g[k].prefix = heap[k].prefix
        BY <1>1, <2>5
      <3>4. \A k \in T \ {n} : Full(g, k)
        BY <1>1, <2>7 DEF RadixTree
      <3> QED BY <1>1, <1>2, <3>1, <3>2, <3>3, <3>4, Skipped DEF U
    <2>9. HangsAt(U, I, r, p, l, c)
      BY <1>1, <1>2, <1>4, <2>6, <2>8 DEF HangsAt
    <2>10. Replaces(U, I, J, p, l, c, New)
      <3>1. U \subseteq Nodes
        BY <1>1 DEF U
      <3>2. J[New] = I[c]
        <4>1. New \in 1..Len(heap')
          BY <1>4, <1>7
        <4>2. J[New] = heap'[New].kids
          BY <4>1 DEF J, Plain
        <4>3. I[c] = heap[c].kids
          BY <1>2, <2>6
        <4> QED BY <1>7, <4>2, <4>3
      <3>3. ASSUME NEW k \in U \ {c}
            PROVE  J[k] = IF k = p THEN [I[k] EXCEPT ![l] = New] ELSE I[k]
        <4>1. k \in Nodes /\ heap[k].kids \in [Byte -> Nat]
          BY <1>4, <3>1
        <4>2. CASE k = p
          <5>1. J[k] = [heap[k].kids EXCEPT ![l] = New]
            BY <2>1, <4>1, <4>2
          <5>2. I[k] = [heap[k].kids EXCEPT ![l] = c]
            BY <2>6, <4>1, <4>2
          <5> QED BY <4>1, <4>2, <5>1, <5>2
        <4>3. CASE k # p
          BY <2>1, <2>6, <4>1, <4>3
        <4> QED BY <4>2, <4>3
      <3> QED BY <1>4, <2>8, <3>1, <3>2, <3>3 DEF Replaces
    <2>11. Copies(g, heap', U, I, J, r, p, l, c, New)
      <3>1. heap'[New].prefix = g[c].prefix
        BY <1>2, <1>7, <2>5
      <3>2. Full(heap', New)
        BY <1>2, <1>7, <2>3 DEF Full
      <3>3. ASSUME NEW k \in U \ {c}
            PROVE  heap'[k].prefix = g[k].prefix /\ Full(heap', k)
        <4>1. k \in Nodes /\ k \in T /\ k # c
          BY <1>1, <3>3 DEF U
        <4>2. Full(heap, k)
          BY <1>1, <4>1 DEF RadixTree
        <4> QED BY <2>1, <2>2, <2>5, <4>1, <4>2 DEF Like
      <3> QED BY <2>9, <2>10, <3>1, <3>2, <3>3 DEF Copies
    <2> DEFINE e == [d EXCEPT ![New] = d[c]]
               V == (U \ {c}) \cup {New}
    <2>12. RadixTree(heap', V, J, IF p = Nil THEN New ELSE r, e)
      BY <2>8, <2>11, Recopied
    <2> HIDE DEF e, V
    <2>13. RadixTree(heap', V, J, r, e)
      BY <1>2, <2>12
    <2>14. Live(heap', o, r, V, e) /\ LiveTree(heap', o, r)
      BY <2>13, IdleLive DEF J
    <2>15. Spares(w)
      BY <1>3, <1>4, <1>7, LinkSpares
    <2>16. Merges(w, n, c)
      <3>1. Live(heap', op'[w], txn'[w].root, V, e)
        BY <1>3, <1>5, <2>14 DEF r
      <3>2. \A k \in Nodes \ T : heap'[k].kids = heap[k].kids
        BY <1>1, <2>1
      <3>3. Turns(w, T, V)
        BY <3>1, <3>2 DEF Turns
      <3>4. V = IF Len(heap') = Len(heap) THEN T \ {n}
                ELSE ((T \ {n}) \ {c}) \cup {New}
        BY <1>4, <1>7 DEF V, U
      <3> QED BY <1>2, <3>3, <3>4 DEF Merges
    <2> QED BY <1>3, <1>5, <2>4, <2>14, <2>15, <2>16 DEF Moved, r
  <1> QED BY <1>3, <1>6, <1>7

\* A set of one label, or of two, is known by the labels in it.
LEMMA OneLabel ==
    ASSUME NEW S \in SUBSET Byte, NEW b \in S, Cardinality(S) = 1
    PROVE  S = {b}
  <1>1. IsFiniteSet(S)
    BY ByteAssumption, FS_Subset
  <1>2. {b} \in SUBSET S /\ Cardinality({b}) = 1
    BY FewLabels
  <1>3. Cardinality(S) = Cardinality({b}) => S = {b}
    BY <1>1, <1>2, FS_Subset
  <1> QED BY <1>2, <1>3

\* A set with two labels in it, and no other.
LEMMA TwoLabels ==
    ASSUME NEW S \in SUBSET Byte, NEW b \in S, NEW l \in S, b # l,
           Cardinality(S) = 2
    PROVE  S = {b, l}
  <1>1. IsFiniteSet(S)
    BY ByteAssumption, FS_Subset
  <1>2. {b, l} \in SUBSET S /\ Cardinality({b, l}) = 2
    BY FewLabels
  <1>3. Cardinality(S) = Cardinality({b, l}) => S = {b, l}
    BY <1>1, <1>2, FS_Subset
  <1> QED BY <1>2, <1>3

\* Delete keeps the node it found, and merges it with the one child it has.
LEMMA FoldMoves ==
    ASSUME IInv, SInv, NEW w \in Writer, Fold(w)
    PROVE  /\ Moved(w)
           /\ \E c : /\ Merges(w, op[w].m, c)
                    /\ mergeChild(w, dropWithLeaf(w, notifier, op[w].m),
                                  op[w].m, c)
  <1> DEFINE q == op[w]
             n == q.m
             p == q.parent
             l == q.l
             r == txn[w].root
             K == Edges(heap, q)
             nf == dropWithLeaf(w, notifier, n)
  <1>1. /\ q.pc = "fold" /\ trees' = trees /\ Return(w, q.val)
        /\ \E b \in Labels(n) : mergeChild(w, nf, n, Kid(n, b))
    BY DEF Fold, At, Rest, pub
  <1>2. PICK b \in Labels(n) : mergeChild(w, nf, n, Kid(n, b))
    BY <1>1
  <1>3. PICK o : op' = [op EXCEPT ![w] = o] /\ o.pc = "idle"
    BY <1>1, ReturnIdle
  <1>4. /\ r # Nil /\ txn[w].epoch # 0 /\ p # Nil /\ n # Nil
        /\ Nodes = 1..Len(heap)
        /\ \A k \in Nodes : heap[k].kids \in [Byte -> Nat]
    <2>1. \A k \in Nodes : heap[k].kids \in [Byte -> Nat]
      BY Facts DEF NodeType
    <2> QED BY <1>1, <2>1, Facts DEF CallAt, GoalPc, WritePc, Nodes
  <1>5. PICK T, d : /\ RadixTree(heap, T, K, r, d) /\ Place(heap, q, T, K, r, d)
                    /\ T \subseteq Nodes
    BY <1>4, MyTree
  <1>6. ~Cutting(q) /\ q.pc # "fork" /\ Goal(q) = "fold" /\ Target(q) = n
    BY <1>1 DEF Cutting, Goal, Target
  <1>7. \A k \in Nodes : K[k] = heap[k].kids
    BY <1>4, <1>6, PlainEdges
  <1>8. Way(q, T, K, r, d) /\ q.path = <<>> /\ Cardinality(Has(heap, n)) = 1
    BY <1>1, <1>5, <1>6 DEF Place
  <1>9. Stop(q, 1) = n /\ Stops(q) = 1
    BY <1>6, <1>8 DEF Stop, Stops
  <1>10. n \in T /\ HangsAt(T, K, r, p, l, n)
    BY <1>8, <1>9 DEF Way
  <1>11. p \in T /\ l \in Byte /\ K[p][l] = n
    BY <1>4, <1>10 DEF HangsAt
  <1>12. Has(heap, n) = Labels(n) /\ Has(heap, n) \in SUBSET Byte
    BY DEF Has, Labels, Kid
  <1>13. b \in Has(heap, n) /\ b \in Byte
    BY <1>12
  <1>14. Has(heap, n) = {b}
    BY <1>8, <1>12, <1>13, OneLabel
  <1>15. n \in Nodes /\ Kid(n, b) # Nil /\ K[n][b] = Kid(n, b)
         /\ \A x \in Byte \ {b} : K[n][x] = Nil
    BY <1>5, <1>7, <1>10, <1>13, <1>14 DEF Has, Kid
  <1>16. \A k \in T \ {n} : K[k] = heap[k].kids
    BY <1>5, <1>7
  <1> DEFINE c == Kid(n, b)
  <1>17. Merging(w, T, K, d, n, b, c)
    BY <1>4, <1>5, <1>11, <1>13, <1>15, <1>16 DEF Merging
  <1>18. mergeChild(w, nf, n, c) /\ txn[w].epoch # 0 /\ op[w].parent # Nil
    BY <1>2, <1>4
  <1>19. Live(heap, op[w], txn[w].root, T, d)
    BY <1>5 DEF Live
  <1> HIDE DEF n, p, l, r, K, nf, c, q
  <1>20. Moved(w) /\ Merges(w, n, c)
    BY <1>1, <1>3, <1>17, <1>18, <1>19, MergeMoves
  <1> QED BY <1>18, <1>20 DEF n, q, nf

\* unlink merges the parent with the child that stays.
LEMMA PullMoves ==
    ASSUME IInv, SInv, NEW w \in Writer, Pull(w)
    PROVE  /\ Moved(w)
           /\ \E c : /\ Merges(w, op[w].path[1].n, c)
                    /\ mergeChild(w, dropReplaced(w, notifier, op[w].path[1].n),
                                  op[w].path[1].n, c)
  <1> DEFINE q == op[w]
             n == q.path[1].n
             e == q.path[1].l
             p == q.parent
             l == q.l
             r == txn[w].root
             K == Edges(heap, q)
             nf == dropReplaced(w, notifier, n)
  <1>1. q.pc = "pull" /\ trees' = trees /\ Return(w, q.val)
    BY DEF Pull, At, Rest, pub
  <1>2. /\ r # Nil /\ txn[w].epoch # 0 /\ p # Nil
        /\ Nodes = 1..Len(heap)
        /\ \A k \in Nodes : heap[k].kids \in [Byte -> Nat]
    <2>1. \A k \in Nodes : heap[k].kids \in [Byte -> Nat]
      BY Facts DEF NodeType
    <2> QED BY <1>1, <2>1, Facts DEF CallAt, GoalPc, WritePc, Nodes
  <1>3. PICK T, d : /\ RadixTree(heap, T, K, r, d) /\ Place(heap, q, T, K, r, d)
                    /\ T \subseteq Nodes
    BY <1>2, MyTree
  <1>4. Cutting(q) /\ q.pc # "fork" /\ Goal(q) = "pull"
    BY <1>1 DEF Cutting, Goal
  <1>5. Way(q, T, K, r, d) /\ Len(q.path) = 1
    BY <1>1, <1>3 DEF Place
  <1>6. CutAt(q) = n /\ CutLabel(q) = e
    BY <1>1, <1>5 DEF CutAt, CutLabel, LastEntry
  <1>7. Cardinality(Has(heap, n)) = 2 /\ heap[n].kids[e] # Nil
    BY <1>3, <1>4, <1>6 DEF Place
  <1>8. Stop(q, 1) = n /\ Stops(q) = 1 /\ Head(q.path) = q.path[1]
    BY <1>4, <1>5 DEF Stop, Stops
  <1>9. /\ n \in T /\ HangsAt(T, K, r, p, l, n) /\ e \in Byte
        /\ d[p] < d[n]
    BY <1>2, <1>5, <1>8 DEF Way
  <1>10. p \in T /\ l \in Byte /\ K[p][l] = n
    BY <1>2, <1>9 DEF HangsAt
  <1>11. PICK b \in Labels(n) \ {e} : mergeChild(w, nf, n, Kid(n, b))
    BY <1>8 DEF Pull
  <1>12. PICK o : op' = [op EXCEPT ![w] = o] /\ o.pc = "idle"
    BY <1>1, ReturnIdle
  <1>13. Has(heap, n) = Labels(n) /\ Has(heap, n) \in SUBSET Byte
    BY DEF Has, Labels, Kid
  <1>14. b \in Has(heap, n) /\ b \in Byte /\ e \in Has(heap, n) /\ b # e
    BY <1>7, <1>9, <1>11, <1>13 DEF Has
  <1>15. Has(heap, n) = {b, e}
    BY <1>7, <1>13, <1>14, TwoLabels
  <1>16. \A k \in Nodes : K[k] = IF k = n THEN [heap[k].kids EXCEPT ![e] = Nil]
                                 ELSE heap[k].kids
    <2>1. \A k \in Nodes : K[k] = View(heap, q, k)
      BY <1>2 DEF Edges
    <2> QED BY <1>4, <1>6, <2>1 DEF View
  <1>17. n \in Nodes /\ Kid(n, b) # Nil /\ K[n][b] = Kid(n, b)
         /\ \A x \in Byte \ {b} : K[n][x] = Nil
    <2>1. n \in Nodes /\ heap[n].kids \in [Byte -> Nat]
          /\ K[n] = [heap[n].kids EXCEPT ![e] = Nil]
      BY <1>2, <1>3, <1>9, <1>16
    <2>2. heap[n].kids[b] # Nil /\ \A x \in Byte \ {b, e} : heap[n].kids[x] = Nil
      BY <1>14, <1>15 DEF Has
    <2> HIDE DEF n, e, K, q
    <2> QED BY <1>9, <1>14, <2>1, <2>2 DEF Kid
  <1>18. \A k \in T \ {n} : K[k] = heap[k].kids
    BY <1>3, <1>16
  <1> DEFINE c == Kid(n, b)
  <1>19. Merging(w, T, K, d, n, b, c)
    <2>1. n # Nil
      BY <1>17 DEF Nodes, Nil
    <2> QED BY <1>2, <1>3, <1>10, <1>14, <1>17, <1>18, <2>1 DEF Merging
  <1>20. mergeChild(w, nf, n, c) /\ txn[w].epoch # 0 /\ op[w].parent # Nil
    BY <1>2, <1>11
  <1>21. Live(heap, op[w], txn[w].root, T, d)
    BY <1>3 DEF Live
  <1> HIDE DEF n, p, l, r, K, nf, c, q, e
  <1>22. Moved(w) /\ Merges(w, n, c)
    BY <1>1, <1>12, <1>19, <1>20, <1>21, MergeMoves
  <1> QED BY <1>20, <1>22 DEF n, q, nf

-----------------------------------------------------------------------------
(* Transactions                                                             *)

\* Tree.Txn: the transaction starts on a published tree.
LEMMA TxnMoves ==
    ASSUME IInv, SInv, NEW w \in Writer, NEW root \in trees, Txn(w, root)
    PROVE  Moved(w)
  <1>1. /\ op[w].pc = "idle" /\ heap' = heap /\ op' = op /\ trees' = trees
        /\ txn' = [txn EXCEPT ![w] = [root |-> root, epoch |-> 0]]
    BY DEF Txn, mem, pub
  <1>2. txn'[w].root = root /\ \A v \in Writer : v # w => txn'[v] = txn[v]
    BY <1>1, Facts
  <1>3. PICK T, d : RadixTree(heap, T, Plain(heap), root, d)
    BY IdleType, LiveIdle DEF SInv
  <1>4. LiveTree(heap, op[w], root)
    BY <1>1, <1>3, IdleLive
  <1>5. Spares(w)
    BY <1>1, <1>2, StillSpares
  <1> QED BY <1>1, <1>2, <1>4, <1>5 DEF Moved, SInv

\* The transaction is given up.
LEMMA AbortMoves ==
    ASSUME IInv, SInv, NEW w \in Writer, Abort(w)
    PROVE  Moved(w)
  <1>1. /\ heap' = heap /\ trees' = trees /\ op' = [op EXCEPT ![w] = IdleOp]
        /\ txn' = [txn EXCEPT ![w] = NoTxn]
    BY DEF Abort, mem
  <1>2. /\ txn'[w].root = Nil
        /\ \A v \in Writer : v # w => txn'[v] = txn[v] /\ op'[v] = op[v]
    BY <1>1, Facts DEF NoTxn
  <1>3. Spares(w)
    BY <1>1, <1>2, StillSpares
  <1> QED BY <1>1, <1>2, <1>3 DEF Moved, SInv

\* Freeze and Commit share the tree of the transaction, which is between calls.
LEMMA PublishKeeps ==
    ASSUME IInv, SInv, NEW w \in Writer, Freeze(w) \/ Commit(w)
    PROVE  SInv'
  <1>1. /\ op[w].pc = "idle" /\ txn[w].root # Nil /\ heap' = heap
        /\ trees' = trees \cup {txn[w].root}
    BY DEF Freeze, Commit, Ready, mem
  <1>2. /\ \A v \in Writer : v # w => txn'[v] = txn[v] /\ op'[v] = op[v]
        /\ txn'[w].root # Nil => txn'[w].root = txn[w].root /\ op'[w] = op[w]
    <2>1. CASE Freeze(w)
      <3>1. op' = op /\ txn' = [txn EXCEPT ![w].epoch = 0]
        BY <2>1 DEF Freeze
      <3> QED BY <3>1, Facts
    <2>2. CASE Commit(w)
      <3>1. /\ txn' = [txn EXCEPT ![w] = NoTxn]
            /\ \A v \in Writer : v # w => op'[v] = op[v]
        BY <2>2, Facts DEF Commit
      <3> QED BY <3>1, Facts DEF NoTxn
    <2> QED BY <2>1, <2>2
  <1>3. LiveTree(heap, op[w], txn[w].root)
    BY <1>1 DEF SInv
  <1>4. PICK T, d : RadixTree(heap, T, Plain(heap), txn[w].root, d)
    BY <1>1, <1>3, LiveIdle
  <1>5. LiveTree(heap, IdleOp, txn[w].root)
    BY <1>4, IdleType, IdleLive
  <1>6. \A t \in trees' : LiveTree(heap', IdleOp, t)
    BY <1>1, <1>5 DEF SInv
  <1>7. ASSUME NEW v \in Writer, txn'[v].root # Nil
        PROVE  LiveTree(heap', op'[v], txn'[v].root)
    BY <1>1, <1>2, <1>7 DEF SInv
  <1> QED BY <1>1, <1>6, <1>7 DEF SInv

-----------------------------------------------------------------------------
(* Notify and the readers: what they write is not part of the shape         *)

AllSame(h, g) == /\ g \in Seq(NodeType) /\ Len(g) = Len(h)
                 /\ \A k \in 1..Len(h) : Same(h, g, k)

\* The watch slot of a node.
LEMMA WatchSet ==
    ASSUME NEW h \in Seq(NodeType), NEW n \in 1..Len(h), NEW s \in SlotState
    PROVE  AllSame(h, [h EXCEPT ![n].watch = s])
  <1> DEFINE x == [h[n] EXCEPT !.watch = s]
             g == [h EXCEPT ![n].watch = s]
  <1>1. h[n] \in NodeType
    OBVIOUS
  <1>2. x \in NodeType /\ Like(x, h[n]) /\ x.kids = h[n].kids
    BY <1>1 DEF NodeType, Like
  <1>3. g = [h EXCEPT ![n] = x]
    OBVIOUS
  <1> HIDE DEF x, g
  <1>4. /\ g \in Seq(NodeType) /\ Len(g) = Len(h)
        /\ \A j \in 1..Len(h) : g[j] = IF j = n THEN x ELSE h[j]
    BY <1>2, <1>3, ExceptSeq
  <1>5. \A k \in 1..Len(h) : Same(h, g, k)
    BY <1>2, <1>4 DEF Same, Like
  <1> QED BY <1>4, <1>5 DEF AllSame, g

\* The leaf of a node.
LEMMA LeafSet ==
    ASSUME NEW h \in Seq(NodeType), NEW n \in 1..Len(h), NEW s \in Nat
    PROVE  AllSame(h, [h EXCEPT ![n].leaf = s])
  <1> DEFINE x == [h[n] EXCEPT !.leaf = s]
             g == [h EXCEPT ![n].leaf = s]
  <1>1. h[n] \in NodeType
    OBVIOUS
  <1>2. x \in NodeType /\ Like(x, h[n]) /\ x.kids = h[n].kids
    BY <1>1 DEF NodeType, Like
  <1>3. g = [h EXCEPT ![n] = x]
    OBVIOUS
  <1> HIDE DEF x, g
  <1>4. /\ g \in Seq(NodeType) /\ Len(g) = Len(h)
        /\ \A j \in 1..Len(h) : g[j] = IF j = n THEN x ELSE h[j]
    BY <1>2, <1>3, ExceptSeq
  <1>5. \A k \in 1..Len(h) : Same(h, g, k)
    BY <1>2, <1>4 DEF Same, Like
  <1> QED BY <1>4, <1>5 DEF AllSame, g

\* sealValue.
LEMMA SealSet ==
    ASSUME NEW h \in Seq(NodeType), NEW n \in 1..Len(h)
    PROVE  AllSame(h, sealValueHeap(h, n))
  <1>1. sealedLeaf \in Nat
    BY DEF sealedLeaf
  <1>2. AllSame(h, [h EXCEPT ![n].leaf = sealedLeaf])
    BY <1>1, LeafSet
  <1>3. AllSame(h, h)
    BY DEF AllSame, Same, Like
  <1> QED BY <1>2, <1>3 DEF sealValueHeap

\* One after the other.
LEMMA SameTrans ==
    ASSUME NEW f, NEW g, NEW h, AllSame(f, g), AllSame(g, h)
    PROVE  AllSame(f, h)
  <1>1. \A k \in 1..Len(f) : Same(f, g, k) /\ Same(g, h, k)
    BY DEF AllSame
  <1>2. \A k \in 1..Len(f) : Same(f, h, k)
    BY <1>1 DEF Same, Like
  <1> QED BY <1>2 DEF AllSame

\* The trees stay what they are.
LEMMA MemKeeps ==
    ASSUME IInv, SInv, AllSame(heap, heap'), trees' = trees,
           \A v \in Writer : txn'[v].root = txn[v].root,
           \A v \in Writer : txn[v].root # Nil => op'[v] = op[v]
    PROVE  SInv'
  <1>1. Len(heap) \in Nat /\ Len(heap') = Len(heap) /\ Len(heap) <= Len(heap')
        /\ Nodes = 1..Len(heap)
        /\ \A k \in Nodes : Same(heap, heap', k)
    BY MainAssumption, Facts DEF AllSame, Nodes
  <1>2. Fits(heap')
    <2>1. \A k \in Nodes : Has(heap', k) = Has(heap, k) /\ heap'[k].cap = heap[k].cap
      BY <1>1 DEF Has, Same, Like
    <2> QED BY <1>1, <2>1 DEF SInv, Fits
  <1>3. ASSUME NEW t \in trees
        PROVE  LiveTree(heap', IdleOp, t)
    <2>1. PICK F, d : Live(heap, IdleOp, t, F, d)
      BY DEF SInv, LiveTree
    <2>2. F \subseteq Nodes
      BY <2>1, PubNodes
    <2>3. \A k \in F : Same(heap, heap', k)
      BY <1>1, <2>2
    <2>4. Live(heap', IdleOp, t, F, d)
      BY <1>1, <2>1, <2>2, <2>3, IdleType, LiveSame
    <2> QED BY <2>4 DEF LiveTree
  <1>4. ASSUME NEW v \in Writer, txn'[v].root # Nil
        PROVE  LiveTree(heap', op'[v], txn'[v].root)
    <2>1. op'[v] = op[v] /\ txn'[v].root = txn[v].root /\ txn[v].root # Nil
      BY <1>4
    <2>2. PICK T, d : Live(heap, op[v], txn[v].root, T, d)
      BY <2>1 DEF SInv, LiveTree
    <2>3. T \subseteq Nodes
      BY <2>1, <2>2, LiveNodes
    <2>4. \A k \in T : Same(heap, heap', k)
      BY <1>1, <2>3
    <2>5. op[v] \in OpType
      BY Facts
    <2>6. Live(heap', op[v], txn[v].root, T, d)
      BY <1>1, <2>2, <2>3, <2>4, <2>5, LiveSame
    <2> QED BY <2>1, <2>6 DEF LiveTree
  <1> QED BY <1>2, <1>3, <1>4 DEF SInv

\* Notify seals slots.
LEMMA NotifySame ==
    ASSUME IInv, Notify
    PROVE  AllSame(heap, heap')
  <1>1. NfOK(notifier) /\ heap \in Seq(NodeType) /\ Nodes = 1..Len(heap)
        /\ AllSame(heap, heap)
    <2>1. heap \in Seq(NodeType) /\ NfOK(notifier)
      BY MainAssumption, Facts
    <2> QED BY <2>1 DEF AllSame, Same, Like, Nodes
  <1>2. CASE NotifyDone
    BY <1>1, <1>2 DEF NotifyDone, mem
  <1>3. CASE NotifyNode
    <2> DEFINE n == Head(notifier.nodes)
    <2>1. n \in 1..Len(heap)
      BY <1>1, <1>3, NotifierTail DEF NotifyNode
    <2>2. heap' = [heap EXCEPT ![n].watch = "sealed"]
      BY <1>3 DEF NotifyNode
    <2> HIDE DEF n
    <2> QED BY <1>1, <2>1, <2>2, WatchSet DEF SlotState
  <1>4. CASE NotifyLeaf
    BY <1>1, <1>4 DEF NotifyLeaf
  <1>5. CASE NotifyValue
    <2>1. Head(notifier.values) \in 1..Len(heap)
      BY <1>1, <1>5, NotifierTail DEF NotifyValue
    <2> QED BY <1>1, <1>5, <2>1, SealSet DEF NotifyValue
  <1>6. CASE NotifySubtree
    BY <1>1, <1>6 DEF NotifySubtree, mem
  <1>7. CASE SealSubtree
    <2>1. PICK n \in notifier.sealing :
             heap' = IF heap[n].val # NoVal
                     THEN sealValueHeap([heap EXCEPT ![n].watch = "sealed"], n)
                     ELSE [heap EXCEPT ![n].watch = "sealed"]
      BY <1>7 DEF SealSubtree
    <2> DEFINE h == [heap EXCEPT ![n].watch = "sealed"]
    <2>2. n \in 1..Len(heap)
      BY <1>1 DEF NfOK, NotifierType
    <2>3. AllSame(heap, h)
      BY <1>1, <2>2, WatchSet DEF SlotState
    <2>4. heap' = IF heap[n].val # NoVal THEN sealValueHeap(h, n) ELSE h
      BY <2>1
    <2> HIDE DEF h
    <2>5. h \in Seq(NodeType) /\ n \in 1..Len(h)
      BY <2>2, <2>3 DEF AllSame
    <2>6. AllSame(h, sealValueHeap(h, n))
      BY <2>5, SealSet
    <2> QED BY <2>3, <2>4, <2>6, SameTrans
  <1> QED BY <1>2, <1>3, <1>4, <1>5, <1>6, <1>7 DEF Notify

\* The trees stay.
LEMMA NotifySInv ==
    ASSUME IInv, SInv, Notify
    PROVE  SInv'
  <1>1. AllSame(heap, heap')
    BY NotifySame
  <1>2. CASE NotifyDone
    <2>1. txn[Main].root = Nil /\ txn' = txn /\ trees' = trees
          /\ op' = [op EXCEPT ![Main] = IdleOp]
      BY <1>2, MainAssumption, Facts DEF NotifyDone, Notifying, CallAt, pub
    <2>2. \A v \in Writer : txn[v].root # Nil => op'[v] = op[v]
      BY <2>1, MainAssumption, Facts
    <2> QED BY <1>1, <2>1, <2>2, MemKeeps
  <1>3. CASE ~NotifyDone
    <2>1. txn' = txn /\ op' = op /\ trees' = trees
      BY <1>3 DEF Notify, NotifyNode, NotifyLeaf, NotifyValue, NotifySubtree,
                  SealSubtree, NotifyRest, pub
    <2> QED BY <1>1, <2>1, MemKeeps
  <1> QED BY <1>2, <1>3

\* A reader gets hold of a channel.
LEMMA ReadSame ==
    ASSUME IInv, NEW r \in Reader,
           \/ Read(r)
           \/ \E kind \in {"key", "prefix"}, t \in trees, k \in Key :
                 ReadStart(r, kind, t, k)
    PROVE  AllSame(heap, heap')
  <1>1. /\ heap \in Seq(NodeType) /\ leaves \in Seq(SlotState)
        /\ AllSame(heap, heap)
    <2>1. heap \in Seq(NodeType) /\ leaves \in Seq(SlotState)
      BY MainAssumption, Facts
    <2> QED BY <2>1 DEF AllSame, Same, Like
  <1>2. rd[r].pc # "idle" => rd[r].n \in 1..Len(heap)
    BY DEF IInv, TypeOK, RdOK, Ref, Nil
  <1>3. CASE \E kind \in {"key", "prefix"}, t \in trees, k \in Key :
                ReadStart(r, kind, t, k)
    BY <1>1, <1>3 DEF ReadStart, mem
  <1>4. CASE ReadDown(r) \/ ReadEnd(r)
    BY <1>1, <1>4 DEF ReadDown, ReadEnd, mem
  <1>5. CASE SlotChan(r)
    <2> DEFINE n == rd[r].n
               s == IF heap[n].watch = "nil" THEN "live" ELSE heap[n].watch
    <2>1. n \in 1..Len(heap) /\ heap' = [heap EXCEPT ![n].watch = s]
      BY <1>2, <1>5 DEF SlotChan
    <2>2. heap[n] \in NodeType
      BY <1>1, <2>1
    <2>3. s \in SlotState
      BY <2>2 DEF NodeType, SlotState
    <2> HIDE DEF n, s
    <2> QED BY <1>1, <2>1, <2>3, WatchSet
  <1>6. CASE ValueChan(r)
    <2> DEFINE n == rd[r].n
    <2>1. /\ n \in 1..Len(heap)
          /\ heap' = heap \/ heap' = [heap EXCEPT ![n].leaf = Len(leaves) + 1]
      BY <1>2, <1>6 DEF ValueChan
    <2>2. Len(leaves) + 1 \in Nat
      BY <1>1
    <2> HIDE DEF n
    <2>3. heap \in Seq(NodeType) /\ AllSame(heap, heap)
      BY <1>1
    <2>4. AllSame(heap, [heap EXCEPT ![n].leaf = Len(leaves) + 1])
      BY <2>1, <2>2, <2>3, LeafSet
    <2> QED BY <2>1, <2>3, <2>4
  <1> QED BY <1>3, <1>4, <1>5, <1>6 DEF Read

\* So the trees stay.
LEMMA ReadSInv ==
    ASSUME IInv, SInv, NEW r \in Reader,
           \/ Read(r)
           \/ \E kind \in {"key", "prefix"}, t \in trees, k \in Key :
                 ReadStart(r, kind, t, k)
    PROVE  SInv'
  <1>1. AllSame(heap, heap')
    BY ReadSame
  <1>2. txn' = txn /\ op' = op /\ trees' = trees
    BY DEF Read, ReadStart, ReadDown, ReadEnd, SlotChan, ValueChan, ReaderRest,
           pub
  <1> QED BY <1>1, <1>2, MemKeeps

-----------------------------------------------------------------------------
(* The invariant                                                            *)

\* A step of a writer.
LEMMA WriterSInv ==
    ASSUME IInv, SInv, NEW w \in Writer, Begin(w) \/ Step(w)
    PROVE  SInv'
  <1>1. ASSUME Moved(w)
        PROVE  SInv'
    BY <1>1, SparedStay DEF Moved
  <1>2. CASE \E root \in trees : Txn(w, root)
    BY <1>1, <1>2, TxnMoves
  <1>3. CASE Freeze(w) \/ Commit(w)
    BY <1>3, PublishKeeps
  <1>4. CASE Abort(w)
    BY <1>1, <1>4, AbortMoves
  <1>5. CASE \E k \in Key : Insert(w, k) \/ Delete(w, k) \/ DeletePrefix(w, k)
    BY <1>1, <1>5, StartMoves
  <1>6. CASE InsertStep(w)
    BY <1>1, <1>6, InsertValueMoves, InsertOwnMoves, InsertHangMoves,
       InsertDownMoves, InsertSplitCopyMoves, InsertSplitMoves DEF InsertStep
  <1>7. CASE FindDown(w) \/ FindMiss(w) \/ FindHit(w)
    BY <1>1, <1>7, FindDownMoves, FindMissMoves, FindHitMoves
  <1>8. CASE DeleteRoot(w) \/ DeleteLeaf(w) \/ DeleteInner(w) \/ DeleteAll(w)
             \/ DeleteSubtree(w)
    BY <1>1, <1>8, DeleteRootMoves, DeleteLeafMoves, DeleteInnerMoves,
       DeleteAllMoves
  <1>9. CASE OwnPath(w) \/ Cut(w) \/ Pull(w) \/ Fold(w) \/ Clear(w)
    BY <1>1, <1>9, OwnPathMoves, CutMoves, PullMoves, FoldMoves, ClearMoves
  <1> QED
    BY <1>2, <1>3, <1>4, <1>5, <1>6, <1>7, <1>8, <1>9
       DEF Begin, Step, DeleteStep

\* A step of anybody.
LEMMA NextSInv ==
    ASSUME IInv, SInv, [Next]_vars
    PROVE  SInv'
  <1>1. CASE \E w \in Writer : Begin(w) \/ Step(w)
    BY <1>1, WriterSInv
  <1>2. CASE Notify
    BY <1>2, NotifySInv
  <1>3. CASE \E r \in Reader :
                \/ \E kind \in {"key", "prefix"}, t \in trees, k \in Key :
                      ReadStart(r, kind, t, k)
                \/ Read(r)
    BY <1>3, ReadSInv
  <1>4. CASE UNCHANGED vars
    <2>1. heap' = heap /\ txn' = txn /\ op' = op /\ trees' = trees
      BY <1>4 DEF vars
    <2>2. heap \in Seq(NodeType)
      BY MainAssumption, Facts
    <2>3. AllSame(heap, heap')
      BY <2>1, <2>2 DEF AllSame, Same, Like
    <2> QED BY <2>1, <2>3, MemKeeps
  <1> QED BY <1>1, <1>2, <1>3, <1>4 DEF Next, Quiet

\* What is loaded in bulk is a tree.
LEMMA InitSInv ==
    ASSUME Init
    PROVE  SInv
  <1> DEFINE T == 1..Len(heap)
             K == Plain(heap)
             d == [k \in Nat |-> k]
  <1>1. /\ heap = InitHeap /\ heap \in Seq(NodeType) /\ Len(heap) \in Nat
        /\ Len(heap) > 0 /\ trees = {1} /\ \A w \in Writer : txn[w].root = Nil
        /\ \A n \in T, b \in Byte : heap[n].kids[b] <= Len(heap)
    BY InitHeapAssumption DEF Init, NoTxn
  <1>2. \A k \in T : heap[k].kids \in [Byte -> Nat] /\ K[k] = heap[k].kids
    <2>1. \A k \in T : heap[k] \in NodeType
      BY <1>1
    <2>2. \A k \in T : heap[k].kids \in [Byte -> Nat]
      BY <2>1 DEF NodeType
    <2>3. \A k \in T : K[k] = heap[k].kids
      BY DEF Plain
    <2> QED BY <2>2, <2>3
  <1>3. /\ heap[1].prefix = <<>>
        /\ \A n \in T, b \in Byte : heap[n].kids[b] # Nil =>
              /\ n < heap[n].kids[b]
              /\ heap[heap[n].kids[b]].prefix # <<>>
              /\ Head(heap[heap[n].kids[b]].prefix) = b
        /\ \A n \in T : /\ n = 1 \/ heap[n].val # NoVal
                                 \/ Cardinality(Has(heap, n)) >= 2
                        /\ Cardinality(Has(heap, n)) <= heap[n].cap
        /\ \A n, m \in T, b, c \in Byte :
              heap[n].kids[b] # Nil /\ heap[n].kids[b] = heap[m].kids[c]
                 => n = m /\ b = c
        /\ \A m \in 2..Len(heap) : \E n \in T, b \in Byte : heap[n].kids[b] = m
    <2> DEFINE Kids(n) == {b \in Byte : InitHeap[n].kids[b] # Nil}
    <2>1. /\ InitHeap[1].prefix = <<>>
          /\ \A n \in 1..Len(InitHeap) :
                /\ \A b \in Kids(n) :
                      /\ n < InitHeap[n].kids[b]
                      /\ InitHeap[InitHeap[n].kids[b]].prefix # <<>>
                      /\ Head(InitHeap[InitHeap[n].kids[b]].prefix) = b
                /\ n = 1 \/ InitHeap[n].val # NoVal
                         \/ Cardinality(Kids(n)) >= 2
                /\ Cardinality(Kids(n)) <= InitHeap[n].cap
          /\ \A n, m \in 1..Len(InitHeap), b, c \in Byte :
                InitHeap[n].kids[b] # Nil
                /\ InitHeap[n].kids[b] = InitHeap[m].kids[c] => n = m /\ b = c
          /\ \A m \in 2..Len(InitHeap) :
                \E n \in 1..Len(InitHeap), b \in Byte : InitHeap[n].kids[b] = m
      BY Zenon, InitTreeAssumption
    <2>2. heap = InitHeap /\ \A n : Kids(n) = Has(heap, n)
      BY <1>1 DEF Has
    <2>3. \A n, b : b \in Has(heap, n) <=> b \in Byte /\ heap[n].kids[b] # Nil
      BY DEF Has
    <2> HIDE DEF Kids, T
    <2>4. /\ heap[1].prefix = <<>>
          /\ \A n \in 1..Len(heap) :
                /\ \A b \in Has(heap, n) :
                      /\ n < heap[n].kids[b]
                      /\ heap[heap[n].kids[b]].prefix # <<>>
                      /\ Head(heap[heap[n].kids[b]].prefix) = b
                /\ n = 1 \/ heap[n].val # NoVal
                         \/ Cardinality(Has(heap, n)) >= 2
                /\ Cardinality(Has(heap, n)) <= heap[n].cap
      BY <2>1, <2>2
    <2>5. /\ \A n, m \in 1..Len(heap), b, c \in Byte :
                heap[n].kids[b] # Nil
                /\ heap[n].kids[b] = heap[m].kids[c] => n = m /\ b = c
          /\ \A m \in 2..Len(heap) :
                \E n \in 1..Len(heap), b \in Byte : heap[n].kids[b] = m
      BY <2>1, <2>2
    <2>6. T = 1..Len(heap)
      BY DEF T
    <2>7. \A n \in T, b \in Byte : heap[n].kids[b] # Nil =>
                 /\ n < heap[n].kids[b]
                 /\ heap[heap[n].kids[b]].prefix # <<>>
                 /\ Head(heap[heap[n].kids[b]].prefix) = b
      BY <2>3, <2>4, <2>6
    <2> QED BY <2>4, <2>5, <2>6, <2>7
  <1>4. Fits(heap)
    BY <1>3 DEF Fits
  <1> HIDE DEF K
  <1>5. 1 \in T /\ T \subseteq Nat \ {0} /\ d \in [Nat -> Nat]
    BY <1>1
  <1>6. ASSUME NEW n \in T, NEW b \in Byte, K[n][b] # Nil
        PROVE  K[n][b] \in T \ {1} /\ d[n] < d[K[n][b]]
    <2> DEFINE c == heap[n].kids[b]
    <2>1. c = K[n][b] /\ c \in Nat /\ c # Nil
      BY <1>2, <1>6
    <2>2. n < c /\ c <= Len(heap)
      BY <1>1, <1>3, <2>1
    <2>3. c \in T \ {1}
      BY <1>1, <2>1, <2>2
    <2> QED BY <1>1, <2>1, <2>2, <2>3
  <1>7. ASSUME NEW m \in T \ {1}
        PROVE  \E n \in T, b \in Byte : K[n][b] = m
    <2>1. m \in 2..Len(heap)
      BY <1>1
    <2>2. PICK n \in T, b \in Byte : heap[n].kids[b] = m
      BY <1>3, <2>1
    <2> QED BY <1>2, <2>2
  <1> HIDE DEF T, d
  <1>8. \A n, m \in T, b, c \in Byte :
           K[n][b] # Nil /\ K[n][b] = K[m][c] => n = m /\ b = c
    BY <1>2, <1>3
  <1>9. IsTree(T, K, 1, d)
    BY <1>2, <1>5, <1>6, <1>7, <1>8 DEF IsTree
  <1>10. ASSUME NEW k \in T
         PROVE  Full(heap, k) /\ EdgeShape(heap, K[k])
    <2>1. Full(heap, k)
      BY <1>3 DEF Full
    <2>2. EdgeShape(heap, K[k])
      BY <1>2, <1>3 DEF EdgeShape
    <2> QED BY <2>1, <2>2
  <1>11. RadixTree(heap, T, K, 1, d)
    BY <1>3, <1>9, <1>10 DEF RadixTree
  <1>12. LiveTree(heap, IdleOp, 1)
    BY <1>11, IdleType, IdleLive DEF K
  <1> QED BY <1>1, <1>4, <1>12 DEF SInv

\* Ownership keeps the trees apart, and the trees are radix trees.
THEOREM TreesInvariance == Spec => [](IInv /\ SInv)
  <1>1. Init => IInv /\ SInv
    BY InitIInv, InitSInv
  <1>2. IInv /\ SInv /\ [Next]_vars => (IInv /\ SInv)'
    BY NextStep, NextSInv
  <1> QED BY <1>1, <1>2, PTL DEF Spec

\* Whatever is inserted, split, merged or forked, no child array is ever asked
\* for more room than it has (setKidCount, own).
THEOREM RoomForKids == Spec => []KidsFit
  <1>1. SInv => KidsFit
    <2>1. \A n : Labels(n) = Has(heap, n)
      BY DEF Labels, Kid, Has
    <2> QED BY <2>1 DEF SInv, Fits, KidsFit, KidCount, Nodes
  <1> QED BY <1>1, TreesInvariance, PTL

\* What a radix tree that nobody is working on looks like to Reach.
LEMMA ShapeOfTree ==
    ASSUME IInv, NEW T, NEW r, NEW d, T \subseteq Nodes,
           RadixTree(heap, T, Plain(heap), r, d)
    PROVE  ShapeOf(r)
  <1> DEFINE K == Plain(heap)
  <1>1. heap \in Seq(NodeType) /\ KidsInHeap
    <2>1. \A m \in Nodes, b \in Byte : heap[m].kids[b] \in Ref
      BY MainAssumption, Facts
    <2> QED BY <2>1, MainAssumption, Facts DEF KidsInHeap, Labels, Kid
  <1>2. /\ IsTree(T, K, r, d) /\ heap[r].prefix = <<>>
        /\ \A k \in T : Full(heap, k) /\ EdgeShape(heap, K[k])
    BY DEF RadixTree
  <1>3. \A k \in T : K[k] = heap[k].kids
    BY DEF Plain, Nodes
  <1> HIDE DEF K
  <1>4. Reach(r) = T
    BY <1>1, <1>2, <1>3, ReachOfTree
  <1>5. ASSUME NEW n \in T
        PROVE  /\ \A b \in Labels(n) :
                     /\ heap[Kid(n, b)].prefix # <<>>
                     /\ Head(heap[Kid(n, b)].prefix) = b
               /\ n # r /\ heap[n].val = NoVal => KidCount(n) >= 2
    <2>1. \A b \in Byte : heap[n].kids[b] # Nil =>
                 heap[heap[n].kids[b]].prefix # <<>>
                 /\ Head(heap[heap[n].kids[b]].prefix) = b
      BY <1>2, <1>3 DEF EdgeShape
    <2>2. ASSUME n # r, heap[n].val = NoVal
          PROVE  KidCount(n) >= 2
      <3>1. PICK m \in T, b \in Byte : K[m][b] = n
        BY <1>2, <2>2 DEF IsTree
      <3>2. n # Nil
        BY DEF Nodes, Nil
      <3>3. heap[n].prefix # <<>>
        BY <1>2, <3>1, <3>2 DEF EdgeShape
      <3>4. Has(heap, n) = Labels(n)
        BY DEF Has, Labels, Kid
      <3> QED BY <1>2, <2>2, <3>3, <3>4 DEF Full, KidCount
    <2>3. \A b \in Labels(n) : b \in Byte /\ Kid(n, b) # Nil
                               /\ Kid(n, b) = heap[n].kids[b]
      BY DEF Labels, Kid
    <2> QED BY <2>1, <2>2, <2>3
  <1> QED BY <1>2, <1>4, <1>5 DEF ShapeOf

\* Between calls, every tree that anybody can hold is a radix tree: unlink,
\* mergeChild and the split leave no empty segment and no node to be merged.
THEOREM RadixShape == Spec => []Shape
  <1>1. ASSUME IInv, SInv
        PROVE  Shape
    <2>1. ASSUME NEW t \in trees
          PROVE  ShapeOf(t)
      <3>1. LiveTree(heap, IdleOp, t)
        BY <1>1 DEF SInv
      <3>2. PICK T, d : Live(heap, IdleOp, t, T, d)
        BY <3>1 DEF LiveTree
      <3>3. T \subseteq Nodes
        BY <1>1, <3>2, PubNodes
      <3>4. RadixTree(heap, T, Plain(heap), t, d)
        BY <3>2, IdleType, PlainEdges DEF Live, Cutting, Plain
      <3> QED BY <1>1, <3>3, <3>4, ShapeOfTree
    <2>2. ASSUME NEW w \in Writer, txn[w].root # Nil, Between
          PROVE  ShapeOf(txn[w].root)
      <3>1. LiveTree(heap, op[w], txn[w].root) /\ op[w].pc = "idle"
        BY <1>1, <2>2 DEF SInv, Between
      <3>2. PICK T, d : Live(heap, op[w], txn[w].root, T, d)
        BY <3>1 DEF LiveTree
      <3>3. T \subseteq Nodes
        BY <1>1, <2>2, <3>2, LiveNodes
      <3>4. RadixTree(heap, T, Plain(heap), txn[w].root, d)
        BY <3>1, <3>2, PlainEdges DEF Live, Cutting, Plain
      <3> QED BY <1>1, <3>3, <3>4, ShapeOfTree
    <2> QED BY <2>1, <2>2 DEF Shape
  <1> QED BY <1>1, TreesInvariance, PTL

=============================================================================
