-------------------------- MODULE RadixValues_proofs --------------------------
(***************************************************************************)
(* OneLeafPerValue and LeftIsSealed of RadixTrees, for every value of the  *)
(* constants.  A value enters a tree once, by the call that stores it;     *)
(* after that it moves from node to node, and takes its leaf along.  So    *)
(* when a value leaves Main's tree, the Notifier is told of the leaf that  *)
(* every copy of it has, and of each node that leaves with it.             *)
(***************************************************************************)
EXTENDS RadixNotify_proofs

-----------------------------------------------------------------------------
(* Values and leaves in a step of a call of w                               *)

\* Node k of g, which heap does not have, has no value, or is New and has that
\* of x and x's leaf; a copy of a node that others may hold is never without.
Takes(w, g, k, x) ==
    \/ g[k].val = NoVal
    \/ /\ k = New /\ x \in Nodes
       /\ g[k].val = heap[x].val /\ g[x].val = heap[x].val
       /\ g[k].leaf = g[x].leaf /\ (Owns(w, x) \/ g[k].leaf # Nil)

\* Heap g has the values and leaves that heap has, but for node z: x may have
\* got a leaf, and New may have taken over x's value.
ValsTo(w, g, x, z) ==
    /\ g \in Seq(NodeType) /\ Len(heap) <= Len(g)
    /\ \A k \in Nodes : k # z =>
          /\ g[k].val = heap[k].val
          /\ g[k].leaf = heap[k].leaf \/ (k = x /\ heap[k].leaf = Nil)
    /\ \A k \in (1..Len(g)) \ Nodes : k # z => Takes(w, g, k, x)

\* The heap itself.
LEMMA ValsBase ==
    ASSUME IInv, NEW w, NEW x, NEW z
    PROVE  ValsTo(w, heap, x, z)
  <1>1. heap \in Seq(NodeType) /\ Len(heap) \in Nat
    BY MainAssumption, Facts
  <1> QED BY <1>1 DEF ValsTo, Nodes

\* A node that is replaced by one with its value and its leaf.
LEMMA ValsPut ==
    ASSUME IInv, NEW w, NEW x, NEW z, NEW g, ValsTo(w, g, x, z),
           NEW p \in 1..Len(g), NEW y \in NodeType,
           \/ y.val = g[p].val /\ y.leaf = g[p].leaf
           \/ p = z /\ Len(g) = Len(heap)
    PROVE  /\ ValsTo(w, [g EXCEPT ![p] = y], x, z)
           /\ Len([g EXCEPT ![p] = y]) = Len(g)
  <1> DEFINE f == [g EXCEPT ![p] = y]
  <1>1. /\ g \in Seq(NodeType) /\ f \in Seq(NodeType) /\ Len(f) = Len(g)
        /\ \A k \in 1..Len(g) : f[k] = IF k = p THEN y ELSE g[k]
    BY DEF ValsTo
  <1>2. Nodes \subseteq 1..Len(g) /\ Nodes = 1..Len(heap)
    BY <1>1, MainAssumption, Facts DEF ValsTo, Nodes
  <1> HIDE DEF f
  <1>3. ASSUME NEW k \in 1..Len(g), k # z
        PROVE  f[k].val = g[k].val /\ f[k].leaf = g[k].leaf
    BY <1>1, <1>3
  <1>4. ASSUME NEW k \in Nodes, k # z
        PROVE  /\ f[k].val = heap[k].val
               /\ f[k].leaf = heap[k].leaf \/ (k = x /\ heap[k].leaf = Nil)
    <2>1. k \in 1..Len(g)
      BY <1>2
    <2>2. f[k].val = g[k].val /\ f[k].leaf = g[k].leaf
      BY <1>3, <1>4, <2>1
    <2>3. /\ g[k].val = heap[k].val
          /\ g[k].leaf = heap[k].leaf \/ (k = x /\ heap[k].leaf = Nil)
      BY <1>4 DEF ValsTo
    <2> QED BY <2>2, <2>3
  <1>5. ASSUME NEW k \in (1..Len(f)) \ Nodes, k # z
        PROVE  Takes(w, f, k, x)
    <2>1. Takes(w, g, k, x) /\ k \in 1..Len(g)
      BY <1>1, <1>5 DEF ValsTo
    <2>2. \A j \in 1..Len(g) : f[j].val = g[j].val /\ f[j].leaf = g[j].leaf
      BY <1>1, <1>2, <1>5
    <2>3. x \in Nodes => f[x].val = g[x].val /\ f[x].leaf = g[x].leaf
      BY <1>2, <2>2
    <2>4. f[k].val = g[k].val /\ f[k].leaf = g[k].leaf
      BY <2>1, <2>2
    <2> QED BY <2>1, <2>3, <2>4 DEF Takes
  <1>6. Len(heap) <= Len(f)
    BY <1>1 DEF ValsTo
  <1>7. ValsTo(w, f, x, z)
    BY <1>1, <1>4, <1>5, <1>6 DEF ValsTo
  <1> QED BY <1>1, <1>7 DEF f

\* link changes no value.
LEMMA ValsLink ==
    ASSUME IInv, NEW w, NEW x, NEW z, NEW g, ValsTo(w, g, x, z),
           NEW p \in 0..Len(g), NEW l, NEW c \in Nat
    PROVE  /\ ValsTo(w, link(g, p, l, c), x, z)
           /\ Len(link(g, p, l, c)) = Len(g)
           /\ \A k \in 1..Len(g) : /\ link(g, p, l, c)[k].val = g[k].val
                                   /\ link(g, p, l, c)[k].leaf = g[k].leaf
  <1>1. CASE p = Nil
    BY <1>1 DEF link
  <1>2. CASE p # Nil
    <2> DEFINE y == [g[p] EXCEPT !.kids = [@ EXCEPT ![l] = c]]
    <2>1. g \in Seq(NodeType) /\ p \in 1..Len(g) /\ g[p] \in NodeType
      BY <1>2 DEF ValsTo, Nil
    <2>2. link(g, p, l, c) = [g EXCEPT ![p] = y]
      BY <1>2 DEF link
    <2>3. /\ y \in NodeType /\ y.val = g[p].val /\ y.leaf = g[p].leaf
      BY <2>1 DEF NodeType
    <2> HIDE DEF y
    <2>4. /\ ValsTo(w, [g EXCEPT ![p] = y], x, z)
          /\ Len([g EXCEPT ![p] = y]) = Len(g)
      BY <2>1, <2>3, ValsPut
    <2>5. \A k \in 1..Len(g) : /\ [g EXCEPT ![p] = y][k].val = g[k].val
                               /\ [g EXCEPT ![p] = y][k].leaf = g[k].leaf
      BY <2>1, <2>3
    <2> QED BY <2>2, <2>4, <2>5
  <1> QED BY <1>1, <1>2

\* A node is added: one without a value, the one that gets a new value, or a
\* copy of x.
LEMMA ValsAppend ==
    ASSUME IInv, NEW w, NEW x, NEW z, NEW g, ValsTo(w, g, x, z),
           NEW y \in NodeType,
           \/ y.val = NoVal
           \/ z = Len(g) + 1
           \/ /\ Len(g) = Len(heap) /\ x \in Nodes
              /\ y.val = heap[x].val /\ g[x].val = heap[x].val
              /\ y.leaf = g[x].leaf /\ (Owns(w, x) \/ y.leaf # Nil)
    PROVE  /\ ValsTo(w, Append(g, y), x, z)
           /\ Len(Append(g, y)) = Len(g) + 1 /\ Append(g, y)[Len(g) + 1] = y
           /\ \A k \in 1..Len(g) : Append(g, y)[k] = g[k]
  <1> DEFINE f == Append(g, y)
  <1>1. /\ g \in Seq(NodeType) /\ f \in Seq(NodeType) /\ Len(f) = Len(g) + 1
        /\ \A k \in 1..Len(g) : f[k] = g[k]
        /\ f[Len(g) + 1] = y
    BY DEF ValsTo
  <1>2. /\ Len(heap) \in Nat /\ Len(g) \in Nat /\ Nodes \subseteq 1..Len(g)
        /\ New = Len(heap) + 1
    BY <1>1, MainAssumption, Facts DEF ValsTo, Nodes, New
  <1> HIDE DEF f
  <1>3. ASSUME NEW k \in Nodes, k # z
        PROVE  /\ f[k].val = heap[k].val
               /\ f[k].leaf = heap[k].leaf \/ (k = x /\ heap[k].leaf = Nil)
    BY <1>1, <1>2, <1>3 DEF ValsTo
  <1>4. ASSUME NEW k \in (1..Len(f)) \ Nodes, k # z
        PROVE  Takes(w, f, k, x)
    <2>1. x \in Nodes => f[x] = g[x]
      BY <1>1, <1>2
    <2>2. CASE k \in 1..Len(g)
      <3>1. Takes(w, g, k, x) /\ f[k] = g[k]
        BY <1>1, <1>4, <2>2 DEF ValsTo
      <3> QED BY <2>1, <3>1 DEF Takes
    <2>3. CASE k = Len(g) + 1
      BY <1>1, <1>2, <1>4, <2>1, <2>3 DEF Takes
    <2> QED BY <1>1, <1>2, <1>4, <2>2, <2>3
  <1>5. Len(heap) <= Len(f)
    BY <1>1, <1>2 DEF ValsTo
  <1>6. ValsTo(w, f, x, z)
    BY <1>1, <1>3, <1>4, <1>5 DEF ValsTo
  <1> QED BY <1>1, <1>6 DEF f

\* leafOf gives the node a leaf if it has none, and the copy takes it.
LEMMA ValsWithLeaf ==
    ASSUME IInv, NEW w \in Writer, NEW n \in Nodes, NEW z
    PROVE  /\ ValsTo(w, WithLeaf(w, n), n, z)
           /\ Len(WithLeaf(w, n)) = Len(heap)
           /\ WithLeaf(w, n)[n].val = heap[n].val
           /\ heap[n].val # NoVal =>
                 /\ shareLeaf(w, n) = WithLeaf(w, n)[n].leaf
                 /\ Owns(w, n) \/ shareLeaf(w, n) # Nil
  <1>1. /\ heap \in Seq(NodeType) /\ Len(heap) \in Nat /\ heap[n] \in NodeType
        /\ Len(leaves) \in Nat /\ n \in 1..Len(heap) /\ Nodes = 1..Len(heap)
    BY Facts DEF Nodes
  <1>2. CASE ~NeedsLeaf(w, n)
    <2>1. WithLeaf(w, n) = heap
      BY <1>2 DEF WithLeaf
    <2>2. ValsTo(w, heap, n, z)
      BY ValsBase
    <2> QED BY <1>2, <2>1, <2>2 DEF shareLeaf, NeedsLeaf
  <1>3. CASE NeedsLeaf(w, n)
    <2> DEFINE y == [heap[n] EXCEPT !.leaf = Len(leaves) + 1]
               f == [heap EXCEPT ![n] = y]
    <2>1. WithLeaf(w, n) = f
      BY <1>3 DEF WithLeaf
    <2>2. heap[n] \in NodeType /\ Len(leaves) + 1 \in Nat
          /\ Len(leaves) + 1 # Nil
      BY <1>1 DEF Nil
    <2>3. /\ y \in NodeType /\ y.val = heap[n].val /\ y.leaf = Len(leaves) + 1
      BY <2>2 DEF NodeType
    <2> HIDE DEF y
    <2>4. /\ f \in Seq(NodeType) /\ Len(f) = Len(heap)
          /\ \A k \in 1..Len(heap) : f[k] = IF k = n THEN y ELSE heap[k]
      BY <1>1, <2>3
    <2> HIDE DEF f
    <2>5. heap[n].leaf = Nil /\ shareLeaf(w, n) = Len(leaves) + 1
      BY <1>3 DEF NeedsLeaf, shareLeaf
    <2>6. ValsTo(w, f, n, z)
      BY <1>1, <2>3, <2>4, <2>5 DEF ValsTo
    <2> QED BY <1>1, <2>1, <2>2, <2>3, <2>4, <2>5, <2>6
  <1> QED BY <1>2, <1>3

\* own: the value of a node that is copied goes with it.
LEMMA ValsOwn ==
    ASSUME IInv, NEW w \in Writer, NEW n \in Nodes, NEW extra \in {0, 1},
           own(w, n, extra)
    PROVE  ValsTo(w, heap', n, Nil)
  <1>1. /\ heap \in Seq(NodeType) /\ Len(heap) \in Nat /\ New = Len(heap) + 1
        /\ op[w].parent \in 0..Len(heap) /\ New \in Nat /\ n \in 1..Len(heap)
    BY Facts DEF New, Ref, Nodes
  <1>2. CASE ownKeep(w, n, extra)
    BY <1>2, ValsBase DEF ownKeep
  <1>3. CASE ownGrow(w, n, extra)
    <2> DEFINE k == KidCount(n) + extra
               c == copyNode(w, n, KidCount(n) + extra)
               y == [c EXCEPT !.lob = heap[n].lob]
               g == link(heap, op[w].parent, op[w].l, New)
    <2>1. KidCount(n) + extra \in 0..(Cardinality(Byte) + 1)
      <3>1. KidCount(n) \in 0..Cardinality(Byte)
        BY KidCountType
      <3>2. Cardinality(Byte) \in Nat
        BY ByteAssumption, FS_CardinalityType
      <3> QED BY <3>1, <3>2
    <2>2. /\ c \in NodeType /\ c.val = heap[n].val /\ c.leaf = shareLeaf(w, n)
      BY <2>1, CopyType
    <2>3. heap[n] \in NodeType
      BY Facts
    <2> HIDE DEF c
    <2>4. /\ y \in NodeType /\ y.val = heap[n].val /\ y.leaf = shareLeaf(w, n)
      BY <2>2, <2>3 DEF NodeType
    <2> HIDE DEF y
    <2>5. ValsTo(w, heap, n, Nil)
      BY ValsBase
    <2>6. /\ ValsTo(w, g, n, Nil) /\ Len(g) = Len(heap)
          /\ g[n].val = heap[n].val /\ g[n].leaf = heap[n].leaf
      BY <1>1, <2>5, ValsLink
    <2> HIDE DEF g
    <2>7. Owns(w, n) /\ (heap[n].val # NoVal => y.leaf = heap[n].leaf)
      BY <1>3, <2>4 DEF ownGrow, shareLeaf, NeedsLeaf
    <2>8. ValsTo(w, Append(g, y), n, Nil)
      BY <2>4, <2>6, <2>7, ValsAppend
    <2>9. heap' = Append(g, y)
      BY <1>3 DEF ownGrow, g, y, c
    <2> QED BY <2>8, <2>9
  <1>4. CASE ownCopy(w, n, extra)
    <2> DEFINE y == copyNode(w, n, extra)
               h == WithLeaf(w, n)
               g == link(h, op[w].parent, op[w].l, New)
    <2>1. extra \in 0..(Cardinality(Byte) + 1)
      BY ByteAssumption, FS_CardinalityType
    <2>2. /\ y \in NodeType /\ y.val = heap[n].val /\ y.leaf = shareLeaf(w, n)
      BY <2>1, CopyType
    <2> HIDE DEF y
    <2>3. /\ ValsTo(w, h, n, Nil) /\ Len(h) = Len(heap)
          /\ h[n].val = heap[n].val
          /\ heap[n].val # NoVal => /\ shareLeaf(w, n) = h[n].leaf
                                    /\ Owns(w, n) \/ shareLeaf(w, n) # Nil
      BY ValsWithLeaf
    <2> HIDE DEF h
    <2>4. /\ ValsTo(w, g, n, Nil) /\ Len(g) = Len(heap)
          /\ g[n].val = h[n].val /\ g[n].leaf = h[n].leaf
      BY <1>1, <2>3, ValsLink
    <2> HIDE DEF g
    <2>5. ValsTo(w, Append(g, y), n, Nil)
      BY <2>2, <2>3, <2>4, ValsAppend
    <2>6. heap' = Append(g, y)
      BY <1>4 DEF ownCopy, g, y, h
    <2> QED BY <2>5, <2>6
  <1> QED BY <1>2, <1>3, <1>4 DEF own

\* ownValueless: z is the node that the value is stored in.
LEMMA ValsValueless ==
    ASSUME IInv, NEW w \in Writer, NEW n \in Nodes, NEW v \in Nat,
           NEW bit \in {0, 1}, ownValueless(w, n, v, bit)
    PROVE  \E z \in {n, New} : /\ ValsTo(w, heap', n, z) /\ heap'[z].val = v
                               /\ z = n => Owns(w, n)
  <1>1. /\ heap \in Seq(NodeType) /\ Len(heap) \in Nat /\ New = Len(heap) + 1
        /\ op[w].parent \in 0..Len(heap) /\ New \in Nat /\ n \in 1..Len(heap)
        /\ heap[n] \in NodeType
    BY Facts DEF New, Ref, Nodes
  <1>2. CASE Owns(w, n)
    <2> DEFINE y == [heap[n] EXCEPT !.leaf = Nil, !.val = v, !.lob = bit]
    <2>1. /\ y \in NodeType /\ y.val = v
      <3>1. heap[n] \in NodeType /\ Nil \in Nat
        BY <1>1 DEF Nil
      <3> QED BY <3>1 DEF NodeType
    <2> HIDE DEF y
    <2>2. ValsTo(w, heap, n, n)
      BY ValsBase
    <2>3. ValsTo(w, [heap EXCEPT ![n] = y], n, n)
      BY <1>1, <2>1, <2>2, ValsPut
    <2>4. heap' = [heap EXCEPT ![n] = y]
      BY <1>2 DEF ownValueless, y
    <2>5. heap'[n].val = v
      BY <1>1, <2>1, <2>4
    <2> QED BY <1>2, <2>3, <2>4, <2>5
  <1>3. CASE ~Owns(w, n)
    <2> DEFINE c == copyShape(w, n, 0)
               y == [c EXCEPT !.val = v, !.lob = bit]
               g == link(heap, op[w].parent, op[w].l, New)
    <2>1. heap' = Append(g, y)
      BY <1>3 DEF ownValueless
    <2>2. c \in NodeType
      <3>1. 0 \in 0..(Cardinality(Byte) + 1)
        BY ByteAssumption, FS_CardinalityType
      <3> QED BY <3>1, CopyType
    <2> HIDE DEF c
    <2>3. y \in NodeType /\ y.val = v
      BY <2>2 DEF NodeType
    <2> HIDE DEF y
    <2>4. ValsTo(w, heap, n, New)
      BY ValsBase
    <2>5. ValsTo(w, g, n, New) /\ Len(g) = Len(heap)
      BY <1>1, <2>4, ValsLink
    <2> HIDE DEF g
    <2>6. New = Len(g) + 1
      BY <2>5 DEF New
    <2>7. ValsTo(w, Append(g, y), n, New) /\ Append(g, y)[New] = y
      BY <2>3, <2>5, <2>6, ValsAppend
    <2> QED
      <3>1. New # n
        BY <1>1
      <3> QED BY <2>1, <2>3, <2>7, <3>1
  <1> QED BY <1>2, <1>3

\* mergeChild: the value of the child goes with it.
LEMMA ValsMerge ==
    ASSUME IInv, NEW w \in Writer, NEW n \in Nodes, NEW c \in Nodes, NEW nf,
           op[w].parent # Nil, mergeChild(w, nf, n, c)
    PROVE  ValsTo(w, heap', c, Nil)
  <1> DEFINE p == op[w].parent
             l == op[w].l
             joined == heap[n].prefix \o heap[c].prefix
  <1>1. /\ heap \in Seq(NodeType) /\ Len(heap) \in Nat /\ New = Len(heap) + 1
        /\ p \in 0..Len(heap) /\ p # Nil /\ New \in Nat /\ c \in 1..Len(heap)
        /\ heap[c] \in NodeType /\ c \in Nat
    BY Facts DEF New, Ref, Nodes
  <1>2. joined \in Seq(Byte)
    <2>1. heap[n] \in NodeType /\ heap[c] \in NodeType
      BY Facts
    <2>2. heap[n].prefix \in Seq(Byte) /\ heap[c].prefix \in Seq(Byte)
      BY <2>1 DEF NodeType
    <2> QED BY <2>2
  <1> HIDE DEF joined
  <1>3. CASE Owns(w, c) /\ ~Childless(c)
    <2> DEFINE y == [heap[c] EXCEPT !.prefix = joined]
               h == [heap EXCEPT ![c] = y]
               g == link(h, p, l, c)
    <2>1. y \in NodeType /\ y.val = heap[c].val /\ y.leaf = heap[c].leaf
      BY <1>1, <1>2 DEF NodeType
    <2> HIDE DEF y
    <2>2. ValsTo(w, heap, c, Nil)
      BY ValsBase
    <2>3. ValsTo(w, h, c, Nil) /\ Len(h) = Len(heap)
      BY <1>1, <2>1, <2>2, ValsPut
    <2> HIDE DEF h
    <2>4. ValsTo(w, g, c, Nil)
      BY <1>1, <2>3, ValsLink
    <2>5. heap' = g
      BY <1>1, <1>3 DEF mergeChild, h, y, link, joined
    <2> QED BY <2>4, <2>5
  <1>4. CASE ~(Owns(w, c) /\ ~Childless(c))
    <2> DEFINE b == IF Owns(w, c) THEN heap[c].lob ELSE 0
               x == copyNode(w, c, 0)
               y == [x EXCEPT !.prefix = joined, !.lob = b]
               h == WithLeaf(w, c)
               g == link(h, p, l, New)
    <2>1. 0 \in 0..(Cardinality(Byte) + 1)
      BY ByteAssumption, FS_CardinalityType
    <2>2. x \in NodeType /\ x.val = heap[c].val /\ x.leaf = shareLeaf(w, c)
      BY <2>1, CopyType
    <2> HIDE DEF x
    <2>3. b \in {0, 1}
      BY <1>1 DEF NodeType
    <2> HIDE DEF b
    <2>4. y \in NodeType /\ y.val = heap[c].val /\ y.leaf = shareLeaf(w, c)
      BY <1>2, <2>2, <2>3 DEF NodeType
    <2> HIDE DEF y
    <2>5. /\ ValsTo(w, h, c, Nil) /\ Len(h) = Len(heap)
          /\ h[c].val = heap[c].val
          /\ heap[c].val # NoVal => /\ shareLeaf(w, c) = h[c].leaf
                                    /\ Owns(w, c) \/ shareLeaf(w, c) # Nil
      BY ValsWithLeaf
    <2> HIDE DEF h
    <2>6. /\ ValsTo(w, g, c, Nil) /\ Len(g) = Len(heap)
          /\ g[c].val = h[c].val /\ g[c].leaf = h[c].leaf
      BY <1>1, <2>5, ValsLink
    <2> HIDE DEF g
    <2>7. ValsTo(w, Append(g, y), c, Nil)
      BY <2>4, <2>5, <2>6, ValsAppend
    <2>8. heap' = Append(g, y)
      BY <1>4 DEF mergeChild, g, y, h, x, b, joined
    <2> QED BY <2>7, <2>8
  <1> QED BY <1>3, <1>4

\* Insert stores the value of the call in the node, or in the one that takes its
\* place.
LEMMA ValsInsertValue ==
    ASSUME IInv, NEW w \in Writer, InsertValue(w)
    PROVE  /\ op[w].n \in Nodes
           /\ \E z \in {op[w].n, New} :
                 ValsTo(w, heap', op[w].n, z) /\ heap'[z].val = op[w].val
  <1> DEFINE n == op[w].n
             v == op[w].val
  <1>1. n \in Nodes /\ n \in 1..Len(heap) /\ heap[n] \in NodeType /\ v \in Nat
        /\ heap \in Seq(NodeType)
    <2>1. op[w].pc = "insert" /\ op[w].n # Nil
      BY Facts DEF InsertValue, At, CallAt, InsertPc
    <2>2. op[w].n \in Nodes
      BY <2>1, Facts
    <2> QED BY <2>2, Facts DEF OpType, Nodes
  <1>2. CASE /\ heap[n].val # NoVal /\ Owns(w, n) /\ heap[n].lob = 1
             /\ heap' = [heap EXCEPT ![n].val = v]
    <2> DEFINE y == [heap[n] EXCEPT !.val = v]
    <2>1. y \in NodeType /\ y.val = v
      BY <1>1 DEF NodeType
    <2>2. heap' = [heap EXCEPT ![n] = y]
      BY <1>2
    <2> HIDE DEF y
    <2>3. ValsTo(w, heap, n, n)
      BY ValsBase
    <2>4. ValsTo(w, [heap EXCEPT ![n] = y], n, n)
      BY <1>1, <2>1, <2>3, ValsPut
    <2>5. heap'[n].val = v
      BY <1>1, <2>1, <2>2
    <2> QED BY <1>1, <2>2, <2>4, <2>5
  <1>3. CASE ownValueless(w, n, v, 1)
    BY <1>1, <1>3, ValsValueless
  <1> QED BY <1>1, <1>2, <1>3 DEF InsertValue

\* Insert hangs a leaf, which holds the value of the call.
LEMMA ValsInsertHang ==
    ASSUME IInv, NEW w \in Writer, InsertHang(w), NEW x
    PROVE  ValsTo(w, heap', x, New) /\ heap'[New].val = op[w].val
  <1> DEFINE n == op[w].n
             b == Head(op[w].search)
             g == link(heap, n, b, New)
             y == leafNode(w, op[w].search, op[w].val)
  <1>1. /\ n # Nil /\ n \in 0..Len(heap) /\ New \in Nat /\ New = Len(heap) + 1
        /\ op[w].search \in Seq(Byte) /\ op[w].val \in Nat
    BY Facts DEF InsertHang, At, CallAt, InsertPc, Ref, New, OpType
  <1>2. y \in NodeType /\ y.val = op[w].val
    BY <1>1, LeafFields
  <1>3. heap' = Append(g, y)
    BY <1>1 DEF InsertHang, link
  <1> HIDE DEF y
  <1>4. ValsTo(w, heap, x, New)
    BY ValsBase
  <1>5. ValsTo(w, g, x, New) /\ Len(g) = Len(heap)
    BY <1>1, <1>4, ValsLink
  <1> HIDE DEF g
  <1>6. ValsTo(w, Append(g, y), x, New) /\ Append(g, y)[New] = y
    BY <1>1, <1>2, <1>5, ValsAppend
  <1> QED BY <1>2, <1>3, <1>6

\* Insert takes up a child to be split.
LEMMA ValsInsertSplitCopy ==
    ASSUME IInv, NEW w \in Writer, InsertSplitCopy(w)
    PROVE  ValsTo(w, heap', Kid(op[w].n, Head(op[w].search)), Nil)
  <1> DEFINE c == Kid(op[w].n, Head(op[w].search))
  <1>1. c \in Nodes
    BY SlotsInsertSplitCopy
  <1>2. CASE UNCHANGED mem
    BY <1>1, <1>2, ValsBase DEF mem
  <1>3. CASE heap' = Append(WithLeaf(w, c), copyNode(w, c, 0))
    <2> DEFINE y == copyNode(w, c, 0)
               h == WithLeaf(w, c)
    <2>1. 0 \in 0..(Cardinality(Byte) + 1)
      BY ByteAssumption, FS_CardinalityType
    <2>2. y \in NodeType /\ y.val = heap[c].val /\ y.leaf = shareLeaf(w, c)
      BY <1>1, <2>1, CopyType
    <2> HIDE DEF y
    <2>3. /\ ValsTo(w, h, c, Nil) /\ Len(h) = Len(heap)
          /\ h[c].val = heap[c].val
          /\ heap[c].val # NoVal => /\ shareLeaf(w, c) = h[c].leaf
                                    /\ Owns(w, c) \/ shareLeaf(w, c) # Nil
      BY <1>1, ValsWithLeaf
    <2> HIDE DEF h
    <2>4. ValsTo(w, Append(h, y), c, Nil)
      BY <1>1, <2>2, <2>3, ValsAppend
    <2>5. heap' = Append(h, y)
      BY <1>3 DEF y, h
    <2> QED BY <2>4, <2>5
  <1> QED BY <1>2, <1>3 DEF InsertSplitCopy

\* DeletePrefix at the root.
LEMMA ValsDeleteAll ==
    ASSUME IInv, NEW w \in Writer, DeleteAll(w), NEW x
    PROVE  ValsTo(w, heap', x, Nil) /\ heap'[New].val = NoVal
  <1> DEFINE y == EmptyNode(txn[w].epoch)
  <1>1. txn[w].epoch \in Nat /\ Len(heap) + 1 = New
    BY Facts DEF New
  <1>2. y \in NodeType
    BY <1>1, NewNodeType
  <1>3. y.val = NoVal
    BY DEF EmptyNode
  <1>4. heap' = Append(heap, y)
    BY DEF DeleteAll
  <1> HIDE DEF y
  <1>5. ValsTo(w, heap, x, Nil)
    BY ValsBase
  <1>6. ValsTo(w, Append(heap, y), x, Nil) /\ Append(heap, y)[New] = y
    BY <1>1, <1>2, <1>3, <1>5, ValsAppend
  <1> QED BY <1>3, <1>4, <1>6

\* delKid.
LEMMA ValsCut ==
    ASSUME IInv, NEW w \in Writer, Cut(w), NEW x
    PROVE  ValsTo(w, heap', x, Nil)
  <1>1. op[w].parent # Nil /\ op[w].parent \in 0..Len(heap) /\ Nil \in Nat
    BY Facts DEF Cut, At, CallAt, Ref, Nil
  <1>2. heap' = link(heap, op[w].parent, op[w].l, Nil)
    BY <1>1 DEF Cut, link
  <1>3. ValsTo(w, heap, x, Nil)
    BY ValsBase
  <1>4. ValsTo(w, link(heap, op[w].parent, op[w].l, Nil), x, Nil)
    BY <1>1, <1>3, ValsLink
  <1> QED BY <1>2, <1>4

\* Insert splits the child: the value of the call is in the node for the common
\* part, or in the leaf below it.
LEMMA ValsInsertSplit ==
    ASSUME IInv, NEW w \in Writer, InsertSplit(w), NEW q
    PROVE  \E z \in {New, New + 1} :
              /\ ValsTo(w, heap', q, z) /\ heap'[z].val = op[w].val
              /\ z = New + 1 => heap'[New].val = NoVal
  <1> DEFINE n == op[w].n
             m == op[w].m
             search == op[w].search
             prefix == heap[m].prefix
             b == Head(search)
  <1>1. op[w].pc = "fork"
    BY DEF InsertSplit, At
  <1>2. /\ search \in Seq(Byte) /\ op[w].val \in Nat
        /\ n # Nil /\ n \in Nodes /\ m # Nil /\ m \in Nodes /\ m \in Nat
        /\ heap[m] \in NodeType /\ prefix \in Seq(Byte)
    <2>1. op[w] \in OpType /\ n # Nil /\ m # Nil
      BY <1>1, Facts DEF CallAt, InsertPc
    <2>2. n \in Nodes /\ m \in Nodes
      BY <2>1, Facts
    <2>3. heap[m] \in NodeType /\ m \in Nat
      BY <2>2, Facts
    <2> QED BY <2>1, <2>2, <2>3 DEF OpType, NodeType
  <1>3. PICK common \in 1..(Len(prefix) - 1) :
            LET split == [EmptyNode(txn[w].epoch) EXCEPT
                            !.prefix = SubSeq(prefix, 1, common),
                            !.kids = [@ EXCEPT ![prefix[common + 1]] = m],
                            !.cap = Class(2)]
                h == [[heap EXCEPT ![m].prefix = Drop(prefix, common)]
                        EXCEPT ![n].kids[b] = New]
            IN  \/ heap' = Append(h, [split EXCEPT !.val = op[w].val,
                                                   !.lob = 1])
                \/ /\ common < Len(search)
                   /\ heap' = Append(Append(h,
                        [split EXCEPT !.kids[search[common + 1]] = New + 1]),
                        leafNode(w, Drop(search, common), op[w].val))
    BY DEF InsertSplit
  <1> DEFINE x == [heap[m] EXCEPT !.prefix = Drop(prefix, common)]
             f == [heap EXCEPT ![m] = x]
             h == link(f, n, b, New)
             e == EmptyNode(txn[w].epoch)
             kids == [e.kids EXCEPT ![prefix[common + 1]] = m]
             split == [e EXCEPT !.prefix = SubSeq(prefix, 1, common),
                                !.kids = kids, !.cap = Class(2)]
             y == [split EXCEPT !.val = op[w].val, !.lob = 1]
             z == [split EXCEPT !.kids = [kids EXCEPT
                                            ![search[common + 1]] = New + 1]]
             leaf == leafNode(w, Drop(search, common), op[w].val)
  <1>4. /\ Len(prefix) \in Nat /\ Len(search) \in Nat /\ common \in Nat
        /\ common + 1 \in 1..Len(prefix) /\ prefix[common + 1] \in Byte
        /\ SubSeq(prefix, 1, common) \in Seq(Byte)
        /\ Drop(prefix, common) \in Seq(Byte)
        /\ Drop(search, common) \in Seq(Byte)
    <2>1. Len(prefix) \in Nat /\ Len(search) \in Nat
      BY <1>2
    <2>2. common \in Nat /\ common + 1 \in 1..Len(prefix)
          /\ common \in 1..Len(prefix)
      BY <2>1
    <2>3. prefix[common + 1] \in Byte
      BY <1>2, <2>2
    <2>4. SubSeq(prefix, 1, common) \in Seq(Byte)
      BY <1>2, <2>1, <2>2, SubSeqProperties
    <2>5. /\ Drop(prefix, common) \in Seq(Byte)
          /\ Drop(search, common) \in Seq(Byte)
      BY <1>2, <2>2, DropType
    <2> QED BY <2>1, <2>2, <2>3, <2>4, <2>5
  <1>5. \/ heap' = Append(h, y)
        \/ heap' = Append(Append(h, z), leaf)
    <2>1. h = [[heap EXCEPT ![m].prefix = Drop(prefix, common)]
                     EXCEPT ![n].kids[b] = New]
      BY <1>2 DEF link
    <2>2. split.kids = kids
      BY DEF EmptyNode
    <2> QED BY <1>3, <2>1, <2>2
  <1>6. /\ heap \in Seq(NodeType) /\ Len(heap) \in Nat /\ New \in Nat
        /\ m \in 1..Len(heap) /\ n \in 0..Len(heap) /\ txn[w].epoch \in Nat
        /\ New + 1 \in Nat /\ New = Len(heap) + 1
    BY <1>2, Facts DEF New, Nodes
  <1>7. ASSUME NEW v PROVE ValsTo(w, h, q, v) /\ Len(h) = Len(heap)
    <2>1. x \in NodeType /\ x.val = heap[m].val /\ x.leaf = heap[m].leaf
      BY <1>2, <1>4 DEF NodeType
    <2> HIDE DEF x
    <2>2. ValsTo(w, heap, q, v) /\ m \in 1..Len(heap)
      BY <1>6, ValsBase
    <2>3. ValsTo(w, f, q, v) /\ Len(f) = Len(heap)
      BY <2>1, <2>2, ValsPut
    <2> HIDE DEF f
    <2> QED BY <1>6, <2>3, ValsLink
  <1>8. /\ split \in NodeType /\ split.val = NoVal /\ kids \in [Byte -> Nat]
    <2>1. e \in NodeType /\ e.kids = NoKids
      BY <1>6, NewNodeType
    <2>2. e.val = NoVal
      BY DEF EmptyNode
    <2> HIDE DEF e
    <2>3. kids \in [Byte -> Nat]
      BY <1>2, <2>1 DEF NoKids, Nil
    <2>4. Class(2) \in Nat
      <3>1. Cardinality(Byte) \in Nat /\ Cardinality(Byte) # 0
        BY <1>4, ByteAssumption, FS_CardinalityType, FS_EmptySet
      <3>2. 2 \in 0..(2 * Cardinality(Byte) + 1)
        BY <3>1
      <3> QED BY <3>2, ClassType
    <2> HIDE DEF kids
    <2>5. split \in NodeType
      BY <1>4, <2>1, <2>3, <2>4 DEF NodeType
    <2> QED BY <2>1, <2>2, <2>3, <2>5 DEF NodeType
  <1> HIDE DEF h, e, kids, split
  <1>9. CASE heap' = Append(h, y)
    <2>1. y \in NodeType /\ y.val = op[w].val
      BY <1>2, <1>8 DEF NodeType
    <2> HIDE DEF y
    <2>2. ValsTo(w, h, q, New) /\ Len(h) = Len(heap)
      BY <1>7
    <2>3. ValsTo(w, Append(h, y), q, New) /\ Append(h, y)[New] = y
      BY <1>6, <2>1, <2>2, ValsAppend
    <2>4. New # New + 1
      BY <1>6
    <2> QED BY <1>9, <2>1, <2>3, <2>4
  <1>10. CASE heap' = Append(Append(h, z), leaf)
    <2> DEFINE zkids == [kids EXCEPT ![search[common + 1]] = New + 1]
               g == Append(h, z)
    <2>1. zkids \in [Byte -> Nat]
      BY <1>6, <1>8, KidsExcept
    <2> HIDE DEF zkids
    <2>2. z \in NodeType /\ z.val = NoVal
      BY <1>8, <2>1 DEF NodeType, zkids
    <2> HIDE DEF z
    <2>3. ValsTo(w, h, q, New + 1) /\ Len(h) = Len(heap)
      BY <1>7
    <2>4. ValsTo(w, g, q, New + 1) /\ Len(g) = New /\ g[New] = z
      BY <1>6, <2>2, <2>3, ValsAppend
    <2> HIDE DEF g
    <2>5. leaf \in NodeType /\ leaf.val = op[w].val
      BY <1>2, <1>4, <1>6, LeafFields
    <2> HIDE DEF leaf
    <2>6. /\ ValsTo(w, Append(g, leaf), q, New + 1)
          /\ Append(g, leaf)[New + 1] = leaf /\ New \in 1..Len(g)
      BY <1>6, <2>4, <2>5, ValsAppend
    <2>7. Append(g, leaf)[New] = g[New]
      BY <2>4, <2>6 DEF ValsTo
    <2>8. heap' = Append(g, leaf)
      BY <1>10 DEF g
    <2> QED BY <2>2, <2>4, <2>5, <2>6, <2>7, <2>8
  <1> QED BY <1>5, <1>9, <1>10

-----------------------------------------------------------------------------
(* The trees that anybody holds                                             *)

\* A published tree, or the one that a transaction is working on.
HomeTree(T) ==
    \/ \E t \in trees : \E d : Live(heap, IdleOp, t, T, d)
    \/ \E w \in Writer : /\ txn[w].root # Nil
                         /\ \E d : Live(heap, op[w], txn[w].root, T, d)
InTree(n) == \E T : HomeTree(T) /\ n \in T

\* Nodes of one value share its leaf.
OneLeaf ==
    \A n, m : /\ InTree(n) /\ InTree(m) /\ n # m
              /\ heap[n].val = heap[m].val /\ heap[n].val # NoVal
              => heap[n].leaf = heap[m].leaf /\ heap[n].leaf # Nil

\* The values of calls to come, and those that calls are about to store, are
\* nowhere yet.
FreshValues ==
    /\ \A n \in Nodes : heap[n].val \notin (ops + 1)..MaxOps
    /\ \A w \in Writer : op[w].pc \in InsertPc =>
          /\ op[w].val # NoVal /\ op[w].val \notin (ops + 1)..MaxOps
          /\ \A n \in Nodes : heap[n].val # op[w].val
          /\ \A u \in Writer : u # w /\ op[u].pc \in InsertPc =>
                op[u].val # op[w].val

VInv == OneLeaf /\ FreshValues

\* Trees are made of nodes.
LEMMA InTreeNodes ==
    ASSUME IInv, NEW n, InTree(n)
    PROVE  n \in Nodes
  <1>1. PICK T : HomeTree(T) /\ n \in T
    BY DEF InTree
  <1>2. ASSUME NEW t \in trees, NEW d, Live(heap, IdleOp, t, T, d)
        PROVE  n \in Nodes
    BY <1>1, <1>2, PubNodes
  <1>3. ASSUME NEW w \in Writer, NEW d, txn[w].root # Nil,
               Live(heap, op[w], txn[w].root, T, d)
        PROVE  n \in Nodes
    BY <1>1, <1>3, LiveNodes
  <1> QED BY <1>1, <1>2, <1>3 DEF HomeTree

\* After a step of a call of w, what is in a tree is in w's, or was in one and
\* is not w's to change.
LEMMA TurnTrees ==
    ASSUME IInv, SInv, NEW w \in Writer, Spares(w), NEW T, NEW S, Turns(w, T, S),
           NEW k, InTree(k)'
    PROVE  k \in S \/ (InTree(k) /\ k \in Nodes /\ ~Mine(w, k))
  <1>1. PICK U : HomeTree(U)' /\ k \in U
    BY DEF InTree
  <1>2. /\ Len(heap) \in Nat /\ Len(heap') \in Nat /\ Len(heap) <= Len(heap')
        /\ \A j \in Nodes : ~Mine(w, j) => Same(heap, heap', j)
        /\ trees' = trees /\ Nodes = 1..Len(heap)
        /\ \A v \in Writer : v # w => op'[v] = op[v] /\ txn'[v].root = txn[v].root
    BY Facts DEF Spares, Nodes
  <1>3. ASSUME NEW o \in OpType, NEW r, NEW V, NEW e, Live(heap, o, r, V, e),
               V \subseteq Nodes, \A j \in V : ~Mine(w, j),
               HomeTree(V), NEW d, Live(heap', o, r, U, d)
        PROVE  InTree(k) /\ k \in Nodes /\ ~Mine(w, k)
    <2>1. Live(heap', o, r, V, e)
      <3>1. \A j \in V : Same(heap, heap', j)
        BY <1>2, <1>3
      <3> QED BY <1>2, <1>3, <3>1, LiveSame
    <2>2. U = V
      BY <1>3, <2>1, OneTree
    <2> QED BY <1>1, <1>3, <2>2 DEF InTree
  <1>4. ASSUME NEW t \in trees', NEW d, Live(heap', IdleOp, t, U, d)
        PROVE  InTree(k) /\ k \in Nodes /\ ~Mine(w, k)
    <2>1. t \in trees
      BY <1>2
    <2>2. PICK V, e : Live(heap, IdleOp, t, V, e)
      BY <2>1 DEF SInv, LiveTree
    <2>3. V \subseteq Nodes /\ \A j \in V : Frozen(j)
      BY <2>1, <2>2, PubNodes
    <2>4. HomeTree(V)
      BY <2>1, <2>2 DEF HomeTree
    <2>5. \A j \in V : ~Mine(w, j)
      BY <2>3 DEF Frozen
    <2> QED BY <1>3, <1>4, <2>2, <2>3, <2>4, <2>5, IdleType
  <1>5. ASSUME NEW v \in Writer, NEW d, txn'[v].root # Nil,
               Live(heap', op'[v], txn'[v].root, U, d)
        PROVE  k \in S \/ (InTree(k) /\ k \in Nodes /\ ~Mine(w, k))
    <2>1. CASE v = w
      <3>1. PICK e : Live(heap', op'[w], txn'[w].root, S, e)
        BY DEF Turns
      <3>2. U = S
        BY <1>5, <2>1, <3>1, OneTree
      <3> QED BY <1>1, <3>2
    <2>2. CASE v # w
      <3>1. op'[v] = op[v] /\ txn'[v].root = txn[v].root /\ txn[v].root # Nil
        BY <1>2, <1>5, <2>2
      <3>2. PICK V, e : Live(heap, op[v], txn[v].root, V, e)
        BY <3>1 DEF SInv, LiveTree
      <3>3. V \subseteq Nodes /\ \A j \in V : Visible(v, j)
        BY <3>1, <3>2, LiveNodes
      <3>4. HomeTree(V)
        BY <3>1, <3>2 DEF HomeTree
      <3>5. \A j \in V : ~Mine(w, j)
        BY <2>2, <3>3 DEF Visible
      <3>6. op[v] \in OpType
        BY Facts
      <3>7. Live(heap', op[v], txn[v].root, U, d)
        BY <1>5, <3>1
      <3> QED BY <1>3, <3>2, <3>3, <3>4, <3>5, <3>6, <3>7
    <2> QED BY <2>1, <2>2
  <1> QED BY <1>1, <1>4, <1>5 DEF HomeTree

\* A call that neither forks nor cuts sees the tree that readers see.
LEMMA LooksIdle ==
    ASSUME NEW h, NEW o, Looks(o), NEW r, NEW T, NEW d, Live(h, o, r, T, d)
    PROVE  Live(h, IdleOp, r, T, d)
  <1>1. RadixTree(h, T, Plain(h), r, d)
    BY PlainEdges DEF Live, Looks, Plain
  <1> QED BY <1>1, IdleLive, IdleType

\* The roots of the next state are roots of this one, and so are their trees.
SameRoots ==
    /\ \A t \in trees' : \/ t \in trees
                         \/ \E w \in Writer : /\ t = txn[w].root /\ t # Nil
                                              /\ Looks(op[w])
    /\ \A w \in Writer : txn'[w].root # Nil =>
          \/ op'[w] = op[w] /\ txn'[w].root = txn[w].root
          \/ /\ Looks(op'[w])
             /\ \/ txn'[w].root \in trees
                \/ txn'[w].root = txn[w].root /\ Looks(op[w])

\* In such a step no node gets into a tree.
LEMMA SameTrees ==
    ASSUME IInv, SInv, AllSame(heap, heap'), SameRoots, NEW k, InTree(k)'
    PROVE  InTree(k)
  <1>1. PICK U : HomeTree(U)' /\ k \in U
    BY DEF InTree
  <1>2. /\ Len(heap) \in Nat /\ Len(heap') \in Nat /\ Len(heap) <= Len(heap')
        /\ \A j \in Nodes : Same(heap, heap', j)
    BY MainAssumption, Facts DEF AllSame, Nodes
  <1>3. ASSUME NEW o \in OpType, NEW r, NEW V, NEW e, Live(heap, o, r, V, e),
               HomeTree(V), NEW d, Live(heap', o, r, U, d)
        PROVE  InTree(k)
    <2>1. V \subseteq 1..Len(heap)
      BY <1>3, InTreeNodes DEF InTree, Nodes
    <2>2. Live(heap', o, r, V, e)
      <3>1. \A j \in V : Same(heap, heap', j)
        BY <1>2, <2>1 DEF Nodes
      <3> QED BY <1>2, <1>3, <2>1, <3>1, LiveSame
    <2>3. U = V
      BY <1>3, <2>2, OneTree
    <2> QED BY <1>1, <1>3, <2>3 DEF InTree
  <1>4. ASSUME NEW r, NEW d, Live(heap', IdleOp, r, U, d),
               r \in trees \/ \E w \in Writer : /\ r = txn[w].root /\ r # Nil
                                                /\ Looks(op[w])
        PROVE  InTree(k)
    <2>1. CASE r \in trees
      <3>1. PICK V, e : Live(heap, IdleOp, r, V, e)
        BY <2>1 DEF SInv, LiveTree
      <3>2. HomeTree(V)
        BY <2>1, <3>1 DEF HomeTree
      <3> QED BY <1>3, <1>4, <3>1, <3>2, IdleType
    <2>2. ASSUME NEW w \in Writer, r = txn[w].root, r # Nil, Looks(op[w])
          PROVE  InTree(k)
      <3>1. PICK V, e : Live(heap, op[w], r, V, e)
        BY <2>2 DEF SInv, LiveTree
      <3>2. HomeTree(V)
        BY <2>2, <3>1 DEF HomeTree
      <3>3. Live(heap, IdleOp, r, V, e)
        BY <2>2, <3>1, LooksIdle
      <3> QED BY <1>3, <1>4, <3>2, <3>3, IdleType
    <2> QED BY <1>4, <2>1, <2>2
  <1>5. ASSUME NEW t \in trees', NEW d, Live(heap', IdleOp, t, U, d)
        PROVE  InTree(k)
    BY <1>4, <1>5 DEF SameRoots
  <1>6. ASSUME NEW w \in Writer, NEW d, txn'[w].root # Nil,
               Live(heap', op'[w], txn'[w].root, U, d)
        PROVE  InTree(k)
    <2>1. CASE op'[w] = op[w] /\ txn'[w].root = txn[w].root
      <3>1. PICK V, e : Live(heap, op[w], txn[w].root, V, e)
        BY <1>6, <2>1 DEF SInv, LiveTree
      <3>2. HomeTree(V)
        BY <1>6, <2>1, <3>1 DEF HomeTree
      <3>3. op[w] \in OpType /\ Live(heap', op[w], txn[w].root, U, d)
        BY <1>6, <2>1, Facts
      <3> QED BY <1>3, <3>1, <3>2, <3>3
    <2>2. CASE /\ Looks(op'[w])
               /\ \/ txn'[w].root \in trees
                  \/ txn'[w].root = txn[w].root /\ Looks(op[w])
      <3>1. Live(heap', IdleOp, txn'[w].root, U, d)
        BY <1>6, <2>2, LooksIdle
      <3> QED BY <1>4, <1>6, <2>2, <3>1
    <2> QED BY <1>6, <2>1, <2>2 DEF SameRoots
  <1> QED BY <1>1, <1>5, <1>6 DEF HomeTree

-----------------------------------------------------------------------------
(* One step                                                                 *)

\* z, the node that gets a value, gets none, or the one of w's call.
Given(w, z) == \/ z = Nil
               \/ heap'[z].val = NoVal
               \/ op[w].pc \in InsertPc /\ heap'[z].val = op[w].val

\* The tree T of w's call becomes S; if New is there with a value, it has it
\* from x, which has left unless it stays with others.
Carries(w, T, S, x, z) ==
    /\ S \subseteq T \cup ((1..Len(heap')) \ Nodes)
    /\ New \in S /\ New # z /\ heap'[New].val # NoVal =>
          x \in T /\ (Owns(w, x) => x \notin S)

\* Every node of a tree is one, and w's call works on a tree.
LEMMA TurnNodes ==
    ASSUME IInv, SInv, NEW w \in Writer, txn[w].epoch # 0, Spares(w),
           NEW T, NEW S, Turns(w, T, S), NEW x, NEW z, Carries(w, T, S, x, z)
    PROVE  /\ \A j \in T : InTree(j) /\ j \in Nodes
           /\ \A k : InTree(k)' => k \in 1..Len(heap')
  <1>1. \A j \in T : InTree(j) /\ j \in Nodes
    <2>1. PICK d : Live(heap, op[w], txn[w].root, T, d)
      BY DEF Turns
    <2>2. txn[w].root # Nil
      BY Facts DEF CallAt
    <2>3. HomeTree(T)
      BY <2>1, <2>2 DEF HomeTree
    <2> QED BY <2>1, <2>2, <2>3, LiveNodes DEF InTree
  <1>2. Len(heap) <= Len(heap') /\ Len(heap) \in Nat /\ Len(heap') \in Nat
    BY Facts DEF Spares
  <1>3. ASSUME NEW k, InTree(k)' PROVE k \in 1..Len(heap')
    <2>1. k \in S \/ k \in Nodes
      BY <1>3, TurnTrees
    <2>2. Nodes \subseteq 1..Len(heap')
      BY <1>2 DEF Nodes
    <2> QED BY <1>1, <2>1, <2>2 DEF Carries
  <1> QED BY <1>1, <1>3

\* Where a node of a tree has its value from, unless it is given one.
LEMMA FromHome ==
    ASSUME IInv, SInv, NEW w \in Writer, txn[w].epoch # 0, Spares(w),
           NEW T, NEW S, Turns(w, T, S), NEW x, NEW z, ValsTo(w, heap', x, z),
           Carries(w, T, S, x, z), NEW k, InTree(k)', k # z, heap'[k].val # NoVal
    PROVE  \/ /\ k \in Nodes /\ InTree(k) /\ heap'[k].val = heap[k].val
              /\ heap'[k].leaf = heap[k].leaf \/ (k = x /\ heap[k].leaf = Nil)
              /\ k = x /\ Owns(w, x) => x \in S
           \/ /\ k = New /\ k \in S /\ x \in Nodes /\ InTree(x)
              /\ heap'[k].val = heap[x].val /\ heap'[x].val = heap[x].val
              /\ heap'[k].leaf = heap'[x].leaf
              /\ Owns(w, x) => x \notin S
              /\ Owns(w, x) \/ heap'[k].leaf # Nil
  <1>1. /\ k \in S \/ (InTree(k) /\ k \in Nodes /\ ~Mine(w, k))
    BY TurnTrees
  <1>2. \A j \in T : InTree(j) /\ j \in Nodes
    BY TurnNodes
  <1>3. CASE k \in Nodes
    <2>1. InTree(k)
      BY <1>1, <1>2, <1>3 DEF Carries
    <2>2. k = x /\ Owns(w, x) => x \in S
      BY <1>1 DEF Mine, Owns
    <2> QED BY <1>3, <2>1, <2>2 DEF ValsTo
  <1>4. CASE k \notin Nodes
    <2>1. k \in S /\ k \in (1..Len(heap')) \ Nodes
      BY <1>1, <1>2, <1>4 DEF Carries
    <2>2. Takes(w, heap', k, x)
      BY <2>1 DEF ValsTo
    <2>3. /\ k = New /\ x \in Nodes
          /\ heap'[k].val = heap[x].val /\ heap'[x].val = heap[x].val
          /\ heap'[k].leaf = heap'[x].leaf /\ (Owns(w, x) \/ heap'[k].leaf # Nil)
      BY <2>2 DEF Takes
    <2>4. x \in T /\ (Owns(w, x) => x \notin S)
      BY <2>1, <2>3 DEF Carries
    <2> QED BY <1>2, <2>1, <2>3, <2>4
  <1> QED BY <1>3, <1>4

\* A value that is given to a node is nobody else's.
LEMMA GivenAlone ==
    ASSUME IInv, FreshValues, NEW w \in Writer, NEW x, NEW z,
           ValsTo(w, heap', x, z), Given(w, z), z # Nil, heap'[z].val # NoVal,
           NEW k \in 1..Len(heap'), k # z
    PROVE  heap'[k].val # heap'[z].val /\ (x \in Nodes => heap[x].val # heap'[z].val)
  <1>1. /\ heap'[z].val = op[w].val
        /\ \A j \in Nodes : heap[j].val # op[w].val
    BY DEF Given, FreshValues
  <1>2. CASE k \in Nodes
    BY <1>1, <1>2 DEF ValsTo
  <1>3. CASE k \notin Nodes
    <2>1. Takes(w, heap', k, x)
      BY <1>3 DEF ValsTo
    <2> QED BY <1>1, <2>1 DEF Takes
  <1> QED BY <1>1, <1>2, <1>3

\* Nodes of one value go on sharing its leaf.
LEMMA OneLeafTurn ==
    ASSUME IInv, SInv, VInv, NEW w \in Writer, txn[w].epoch # 0, Spares(w),
           NEW T, NEW S, Turns(w, T, S), NEW x, NEW z, ValsTo(w, heap', x, z),
           Carries(w, T, S, x, z), Given(w, z)
    PROVE  OneLeaf'
  <1>1. SUFFICES ASSUME NEW n, NEW m, InTree(n)', InTree(m)', n # m,
                        heap'[n].val = heap'[m].val, heap'[n].val # NoVal
                 PROVE  heap'[n].leaf = heap'[m].leaf /\ heap'[n].leaf # Nil
    BY DEF OneLeaf
  <1>2. n \in 1..Len(heap') /\ m \in 1..Len(heap')
    BY <1>1, TurnNodes
  <1>3. n # z /\ m # z
    <2>1. n # Nil /\ m # Nil /\ FreshValues
      BY <1>2 DEF Nil, VInv
    <2>2. CASE n = z
      BY <1>1, <1>2, <2>1, <2>2, GivenAlone
    <2>3. CASE m = z
      BY <1>1, <1>2, <2>1, <2>3, GivenAlone
    <2> QED BY <2>2, <2>3
  <1> DEFINE Stays(k) ==
               /\ k \in Nodes /\ InTree(k) /\ heap'[k].val = heap[k].val
               /\ heap'[k].leaf = heap[k].leaf \/ (k = x /\ heap[k].leaf = Nil)
               /\ k = x /\ Owns(w, x) => x \in S
             Comes(k) ==
               /\ k = New /\ k \in S /\ x \in Nodes /\ InTree(x)
               /\ heap'[k].val = heap[x].val /\ heap'[x].val = heap[x].val
               /\ heap'[k].leaf = heap'[x].leaf
               /\ Owns(w, x) => x \notin S
               /\ Owns(w, x) \/ heap'[k].leaf # Nil
  <1>4. \A k : InTree(k)' /\ k # z /\ heap'[k].val # NoVal => Stays(k) \/ Comes(k)
    BY FromHome
  <1>5. ASSUME NEW i, NEW j, i # j, Stays(i), Stays(j), heap'[i].val = heap'[j].val,
               heap'[i].val # NoVal
        PROVE  heap'[i].leaf = heap'[j].leaf /\ heap'[i].leaf # Nil
    <2>1. heap[i].leaf = heap[j].leaf /\ heap[i].leaf # Nil
      BY <1>5 DEF VInv, OneLeaf
    <2> QED BY <1>5, <2>1
  <1>6. ASSUME NEW i, NEW j, Stays(i), Comes(j), heap'[i].val = heap'[j].val,
               heap'[j].val # NoVal
        PROVE  heap'[i].leaf = heap'[j].leaf /\ heap'[i].leaf # Nil
    <2>1. CASE i = x
      BY <1>6, <2>1
    <2>2. CASE i # x
      <3>1. heap[i].leaf = heap[x].leaf /\ heap[x].leaf # Nil
        BY <1>6, <2>2 DEF VInv, OneLeaf
      <3>2. x # z
        <4>1. CASE z = Nil
          BY <1>6, <4>1 DEF Nodes, Nil
        <4>2. CASE z # Nil
          <5>1. ASSUME x = z PROVE FALSE
            <6>1. heap'[z].val # NoVal
              BY <1>6, <5>1
            <6>2. x \in Nodes /\ i # z /\ i \in 1..Len(heap')
              <7>1. i \in Nodes /\ Len(heap) <= Len(heap') /\ Len(heap) \in Nat
                    /\ Len(heap') \in Nat
                BY <1>6, Facts DEF Spares
              <7> QED BY <1>6, <2>2, <5>1, <7>1 DEF Nodes
            <6>3. heap[x].val # heap'[z].val
              BY <4>2, <6>1, <6>2, GivenAlone DEF VInv
            <6> QED BY <1>6, <5>1, <6>3
          <5> QED BY <5>1
        <4> QED BY <4>1, <4>2
      <3>3. heap'[x].leaf = heap[x].leaf
        BY <1>6, <3>1, <3>2 DEF ValsTo
      <3> QED BY <1>6, <2>2, <3>1, <3>3
    <2> QED BY <2>1, <2>2
  <1>7. (Stays(n) \/ Comes(n)) /\ (Stays(m) \/ Comes(m))
    BY <1>1, <1>3, <1>4
  <1> HIDE DEF Stays
  <1>8. CASE Stays(n) /\ Stays(m)
    BY <1>1, <1>5, <1>8
  <1>9. CASE Stays(n) /\ Comes(m)
    BY <1>1, <1>6, <1>9
  <1>10. CASE Comes(n) /\ Stays(m)
    BY <1>1, <1>6, <1>10
  <1>11. CASE Comes(n) /\ Comes(m)
    BY <1>1, <1>11
  <1> QED BY <1>7, <1>8, <1>9, <1>10, <1>11

\* A value that a call stores is used up; one that it still holds is fresh.
LEMMA FreshTurn ==
    ASSUME IInv, FreshValues, NEW w \in Writer, NEW x, NEW z,
           ValsTo(w, heap', x, z), Given(w, z), ops' = ops,
           NEW o, op' = [op EXCEPT ![w] = o],
           o.pc \in InsertPc => /\ op[w].pc \in InsertPc /\ o.val = op[w].val
                                /\ z = Nil
    PROVE  FreshValues'
  <1>1. /\ op'[w] = o /\ \A u \in Writer : u # w => op'[u] = op[u]
        /\ ops \in Nat /\ MaxOps \in Nat /\ NoVal \notin (ops + 1)..MaxOps
    <2>1. op \in [Writer -> OpType] /\ ops \in Nat
      BY Facts DEF IInv, TypeOK
    <2> QED BY <2>1, InitValuesAssumption DEF NoVal
  <1>2. ASSUME NEW k \in 1..Len(heap')
        PROVE  \/ heap'[k].val = NoVal
               \/ \E j \in Nodes : heap'[k].val = heap[j].val
               \/ /\ k = z /\ z # Nil /\ op[w].pc \in InsertPc
                  /\ heap'[k].val = op[w].val
    <2>1. k # Nil
      BY DEF Nil
    <2>2. CASE k = z
      BY <2>1, <2>2 DEF Given
    <2>3. CASE k # z /\ k \in Nodes
      BY <2>3 DEF ValsTo
    <2>4. CASE k # z /\ k \notin Nodes
      BY <2>4 DEF ValsTo, Takes
    <2> QED BY <2>2, <2>3, <2>4
  <1>3. ASSUME NEW k \in 1..Len(heap')
        PROVE  heap'[k].val \notin (ops' + 1)..MaxOps
    BY <1>1, <1>2 DEF FreshValues
  <1>4. ASSUME NEW u \in Writer, op'[u].pc \in InsertPc
        PROVE  /\ op'[u].val # NoVal /\ op'[u].val \notin (ops' + 1)..MaxOps
               /\ \A k \in 1..Len(heap') : heap'[k].val # op'[u].val
               /\ \A t \in Writer : t # u /\ op'[t].pc \in InsertPc =>
                     op'[t].val # op'[u].val
    <2>1. \A t \in Writer : op'[t].pc \in InsertPc =>
             /\ op[t].pc \in InsertPc /\ op'[t].val = op[t].val
             /\ t = w => z = Nil
      BY <1>1
    <2>2. /\ op[u].pc \in InsertPc /\ op'[u].val = op[u].val /\ op[u].val # NoVal
          /\ op[u].val \notin (ops + 1)..MaxOps
          /\ \A j \in Nodes : heap[j].val # op[u].val
          /\ \A t \in Writer : t # u /\ op[t].pc \in InsertPc =>
                op[t].val # op[u].val
      BY <1>4, <2>1 DEF FreshValues
    <2>3. \A k \in 1..Len(heap') : heap'[k].val # op[u].val
      <3>1. SUFFICES ASSUME NEW k \in 1..Len(heap'), heap'[k].val = op[u].val
                     PROVE  FALSE
        OBVIOUS
      <3>2. z # Nil /\ op[w].pc \in InsertPc /\ op[w].val = op[u].val
        BY <1>2, <2>2, <3>1
      <3> QED BY <1>4, <2>1, <2>2, <3>2
    <2> QED BY <1>1, <2>1, <2>2, <2>3
  <1> QED BY <1>3, <1>4 DEF FreshValues, Nodes

\* What w's call goes on with is not the value it has just stored.
Holds(w, o, z) ==
    o.pc \in InsertPc => op[w].pc \in InsertPc /\ o.val = op[w].val /\ z = Nil

\* A step of a call that writes.
LEMMA ValTurn ==
    ASSUME IInv, SInv, VInv, NEW w \in Writer, txn[w].epoch # 0, Moved(w),
           NEW T, NEW S, Turns(w, T, S), NEW x, NEW z, ValsTo(w, heap', x, z),
           Carries(w, T, S, x, z), Given(w, z), ops' = ops,
           NEW o, op' = [op EXCEPT ![w] = o], Holds(w, o, z)
    PROVE  VInv'
  <1>1. OneLeaf'
    BY OneLeafTurn DEF Moved
  <1>2. FreshValues'
    BY FreshTurn DEF VInv, Holds
  <1> QED BY <1>1, <1>2 DEF VInv

\* A step that replaces one node of the tree at most.
LEMMA SwapVals ==
    ASSUME IInv, SInv, VInv, NEW w \in Writer, txn[w].epoch # 0, Moved(w),
           NEW n, Swaps(w, n), NEW z, ValsTo(w, heap', n, z), Given(w, z),
           ops' = ops, NEW o, op' = [op EXCEPT ![w] = o], Holds(w, o, z)
    PROVE  VInv'
  <1>1. PICK T, S :
            /\ Turns(w, T, S) /\ n \in T
            /\ S = IF Len(heap') = Len(heap) THEN T ELSE (T \ {n}) \cup {New}
    BY DEF Swaps
  <1>2. T \subseteq Nodes
    <2>1. PICK d : Live(heap, op[w], txn[w].root, T, d)
      BY <1>1 DEF Turns
    <2>2. txn[w].root # Nil
      BY Facts DEF CallAt
    <2> QED BY <2>1, <2>2, LiveNodes
  <1>3. /\ Len(heap) \in Nat /\ Len(heap') \in Nat /\ Len(heap) <= Len(heap')
        /\ New = Len(heap) + 1 /\ Nodes = 1..Len(heap)
    BY Facts DEF Moved, Spares, New, Nodes
  <1>4. S \subseteq T \cup ((1..Len(heap')) \ Nodes)
    BY <1>1, <1>2, <1>3
  <1>5. New \in S => n \in T /\ n \notin S
    BY <1>1, <1>2, <1>3
  <1>6. Carries(w, T, S, n, z)
    BY <1>4, <1>5 DEF Carries
  <1> QED BY <1>1, <1>6, ValTurn

\* A step that merges n with its child c.
LEMMA MergeVals ==
    ASSUME IInv, SInv, VInv, NEW w \in Writer, txn[w].epoch # 0, Moved(w),
           NEW n, NEW c, Merges(w, n, c), NEW nf, mergeChild(w, nf, n, c),
           op[w].parent # Nil, ops' = ops,
           NEW o, op' = [op EXCEPT ![w] = o], o.pc \notin InsertPc
    PROVE  VInv'
  <1>1. PICK T, S :
            /\ Turns(w, T, S) /\ n \in T /\ c \in T /\ n # c
            /\ S = IF Len(heap') = Len(heap) THEN T \ {n}
                   ELSE ((T \ {n}) \ {c}) \cup {New}
    BY DEF Merges
  <1>2. T \subseteq Nodes
    <2>1. PICK d : Live(heap, op[w], txn[w].root, T, d)
      BY <1>1 DEF Turns
    <2>2. txn[w].root # Nil
      BY Facts DEF CallAt
    <2> QED BY <2>1, <2>2, LiveNodes
  <1>3. /\ Len(heap) \in Nat /\ Len(heap') \in Nat /\ Len(heap) <= Len(heap')
        /\ New = Len(heap) + 1 /\ Nodes = 1..Len(heap)
    BY Facts DEF Moved, Spares, New, Nodes
  <1>4. S \subseteq T \cup ((1..Len(heap')) \ Nodes)
    BY <1>1, <1>2, <1>3
  <1>5. New \in S => c \in T /\ c \notin S
    BY <1>1, <1>2, <1>3
  <1>6. Carries(w, T, S, c, Nil)
    BY <1>4, <1>5 DEF Carries
  <1>7. ValsTo(w, heap', c, Nil)
    BY <1>1, <1>2, ValsMerge
  <1>8. Holds(w, o, Nil) /\ Given(w, Nil)
    BY DEF Holds, Given
  <1> QED BY <1>1, <1>6, <1>7, <1>8, ValTurn

\* A step after which New is in the tree with the call's value, or none, or is
\* not in it.
LEMMA GrowVals ==
    ASSUME IInv, SInv, VInv, NEW w \in Writer, txn[w].epoch # 0, Moved(w),
           NEW T, NEW S, Turns(w, T, S),
           S \subseteq T \cup ((1..Len(heap')) \ Nodes),
           NEW z, ValsTo(w, heap', Nil, z), Given(w, z),
           New \in S => New = z \/ heap'[New].val = NoVal,
           ops' = ops, NEW o, op' = [op EXCEPT ![w] = o], o.pc \notin InsertPc
    PROVE  VInv'
  <1>1. Carries(w, T, S, Nil, z)
    BY DEF Carries
  <1>2. Holds(w, o, z)
    BY DEF Holds
  <1> QED BY <1>1, <1>2, ValTurn

\* A step that changes no value, and gives no value a second leaf.
SameVals == /\ AllSame(heap, heap')
            /\ \A k \in Nodes : \/ heap'[k].leaf = heap[k].leaf
                                \/ heap[k].leaf = Nil

\* The value of a call that starts is new.
Starts(w) == /\ ops < MaxOps /\ ops' = ops + 1
             /\ op'[w].pc \in InsertPc => op'[w].val = ops + 1

\* A step that moves no value: w may start a call.
LEMMA StillVals ==
    ASSUME IInv, SInv, VInv, SameVals, SameRoots,
           NEW w, ops' = ops \/ (w \in Writer /\ Starts(w)),
           \A u \in Writer : op'[u].pc \in InsertPc =>
              \/ op[u].pc \in InsertPc /\ op'[u].val = op[u].val
              \/ u = w /\ ops' # ops
    PROVE  VInv'
  <1>1. /\ ops \in Nat /\ ops' \in Nat /\ ops <= ops' /\ MaxOps \in Nat
        /\ Len(heap') = Len(heap) /\ \A k \in Nodes : heap'[k].val = heap[k].val
        /\ Nodes' = Nodes
    BY InitValuesAssumption
       DEF Starts, IInv, TypeOK, SameVals, AllSame, Same, Like, Nodes
  <1>2. OneLeaf'
    <2>1. SUFFICES ASSUME NEW n, NEW m, InTree(n)', InTree(m)', n # m,
                          heap'[n].val = heap'[m].val, heap'[n].val # NoVal
                   PROVE  heap'[n].leaf = heap'[m].leaf /\ heap'[n].leaf # Nil
      BY DEF OneLeaf
    <2>2. InTree(n) /\ InTree(m)
      BY <2>1, SameTrees DEF SameVals
    <2>3. n \in Nodes /\ m \in Nodes
      BY <2>2, InTreeNodes
    <2>4. heap[n].leaf = heap[m].leaf /\ heap[n].leaf # Nil
      BY <1>1, <2>1, <2>2, <2>3 DEF VInv, OneLeaf
    <2> QED BY <2>3, <2>4 DEF SameVals
  <1>3. \A k \in Nodes' : heap'[k].val \notin (ops' + 1)..MaxOps
    BY <1>1 DEF VInv, FreshValues
  <1>4. ASSUME NEW u \in Writer, op'[u].pc \in InsertPc
        PROVE  /\ op'[u].val # NoVal /\ op'[u].val \notin (ops' + 1)..MaxOps
               /\ \A k \in Nodes' : heap'[k].val # op'[u].val
               /\ \A t \in Writer : t # u /\ op'[t].pc \in InsertPc =>
                     op'[t].val # op'[u].val
    <2>1. CASE op[u].pc \in InsertPc /\ op'[u].val = op[u].val
      <3>1. /\ op[u].val # NoVal /\ op[u].val \notin (ops + 1)..MaxOps
            /\ \A k \in Nodes : heap[k].val # op[u].val
            /\ \A t \in Writer : t # u /\ op[t].pc \in InsertPc =>
                  op[t].val # op[u].val
        BY <2>1 DEF VInv, FreshValues
      <3>2. ASSUME NEW t \in Writer, t # u, op'[t].pc \in InsertPc
            PROVE  op'[t].val # op[u].val
        <4>1. CASE op[t].pc \in InsertPc /\ op'[t].val = op[t].val
          BY <3>1, <3>2, <4>1
        <4>2. CASE t = w /\ ops' # ops
          BY <1>1, <3>1, <3>2, <4>2 DEF Starts
        <4> QED BY <3>2, <4>1, <4>2
      <3>3. op[u].val \notin (ops' + 1)..MaxOps
        BY <1>1, <3>1
      <3> QED BY <1>1, <2>1, <3>1, <3>2, <3>3
    <2>2. CASE u = w /\ ops' # ops
      <3>1. /\ op'[u].val = ops + 1 /\ ops + 1 \in (ops + 1)..MaxOps
            /\ ops' = ops + 1
        BY <1>1, <1>4, <2>2 DEF Starts
      <3>2. \A k \in Nodes : heap[k].val # ops + 1
        BY <3>1 DEF VInv, FreshValues
      <3>3. ASSUME NEW t \in Writer, t # u, op'[t].pc \in InsertPc
            PROVE  op'[t].val # ops + 1
        <4>1. op[t].pc \in InsertPc /\ op'[t].val = op[t].val
          BY <2>2, <3>3
        <4>2. op[t].val \notin (ops + 1)..MaxOps
          BY <4>1 DEF VInv, FreshValues
        <4> QED BY <3>1, <4>1, <4>2
      <3>4. ops + 1 # NoVal /\ ops + 1 \notin (ops' + 1)..MaxOps
        BY <1>1, <3>1 DEF NoVal
      <3> QED BY <1>1, <3>1, <3>2, <3>3, <3>4
    <2> QED BY <1>4, <2>1, <2>2
  <1>5. FreshValues'
    BY <1>3, <1>4 DEF FreshValues
  <1> QED BY <1>2, <1>5 DEF VInv

-----------------------------------------------------------------------------
(* The actions                                                              *)

\* The heap is what it was.
LEMMA HeapStill ==
    ASSUME IInv, heap' = heap
    PROVE  SameVals
  <1>1. heap \in Seq(NodeType)
    BY MainAssumption, Facts
  <1> QED BY <1>1 DEF SameVals, AllSame, Same, Like

\* Where a call stands that looks for its key, decides what to do, or comes back
\* with nothing.
LEMMA LooksOn ==
    ASSUME IInv, NEW w \in Writer,
           \/ InsertDown(w) \/ FindDown(w) \/ FindMiss(w)
           \/ FindHit(w) \/ DeleteRoot(w) \/ DeleteInner(w)
    PROVE  /\ Looks(op[w]) /\ heap' = heap /\ trees' = trees /\ ops' = ops
           /\ \A u \in Writer : txn'[u].root = txn[u].root
           /\ \E o : /\ op' = [op EXCEPT ![w] = o] /\ Looks(o)
                     /\ o.pc \in InsertPc => /\ op[w].pc \in InsertPc
                                             /\ o.val = op[w].val
  <1>1. /\ op[w].pc \in {"down", "find", "remove"} /\ heap' = heap
        /\ trees' = trees /\ ops' = ops
    BY DEF InsertDown, FindDown, FindMiss, FindHit, DeleteRoot, DeleteInner,
           At, mem, Rest, pub, count
  <1>2. op[w] \in OpType /\ txn \in [Writer -> [root : Ref, epoch : Nat]]
    BY Facts
  <1>3. \A u \in Writer : txn'[u].root = txn[u].root
    <2>1. CASE FindHit(w)
      <3>1. begin(w)
        BY <2>1 DEF FindHit
      <3>2. \A u \in Writer : u # w => txn'[u] = txn[u]
        BY <1>2, <3>1 DEF begin
      <3>3. txn'[w].root = txn[w].root
        BY <1>2, <3>1, BeginEpoch
      <3> QED BY <3>2, <3>3
    <2>2. CASE ~FindHit(w)
      BY <2>2 DEF InsertDown, FindDown, FindMiss, DeleteRoot, DeleteInner
    <2> QED BY <2>1, <2>2
  <1> DEFINE Good(o) == /\ Looks(o)
                        /\ o.pc \in InsertPc => /\ op[w].pc \in InsertPc
                                                /\ o.val = op[w].val
  <1>4. ASSUME NEW o, o.pc \in {"idle", "find", "remove", "clear"} PROVE Good(o)
    BY <1>4 DEF Looks, Cutting, InsertPc
  <1>5. \E o : op' = [op EXCEPT ![w] = o] /\ Good(o)
    <2>1. CASE InsertDown(w)
      <3>1. PICK p, l, n, s : op' = [op EXCEPT ![w] =
                [op[w] EXCEPT !.pc = "insert", !.parent = p, !.l = l, !.n = n,
                              !.search = s]]
        BY <2>1 DEF InsertDown, Goto
      <3> DEFINE o == [op[w] EXCEPT !.pc = "insert", !.parent = p, !.l = l,
                                    !.n = n, !.search = s]
      <3>2. o.pc = "insert" /\ o.val = op[w].val
        BY <1>2 DEF OpType
      <3>3. op' = [op EXCEPT ![w] = o]
        BY <3>1
      <3>4. op[w].pc \in InsertPc
        BY <2>1 DEF InsertDown, At, InsertPc
      <3> HIDE DEF o
      <3>5. Good(o)
        BY <3>2, <3>4 DEF Looks, Cutting
      <3> QED BY <3>3, <3>5
    <2>2. CASE FindDown(w)
      <3>1. PICK n, p, s : op' = [op EXCEPT ![w] =
                [op[w] EXCEPT !.n = n, !.path = p, !.search = s]]
        BY <2>2 DEF FindDown, Goto
      <3> DEFINE o == [op[w] EXCEPT !.n = n, !.path = p, !.search = s]
      <3>2. o.pc = "find"
        BY <1>2, <2>2 DEF OpType, FindDown, At
      <3>3. op' = [op EXCEPT ![w] = o]
        BY <3>1
      <3> HIDE DEF o, Good
      <3>4. Good(o)
        BY <1>4, <3>2
      <3> QED BY <3>3, <3>4
    <2>3. CASE FindMiss(w)
      <3>1. Return(w, NoVal)
        BY <2>3 DEF FindMiss
      <3> HIDE DEF Good
      <3> QED BY <1>4, <3>1, ReturnIdle
    <2>4. CASE FindHit(w)
      <3>1. PICK m, v : op' = [op EXCEPT ![w] =
                [op[w] EXCEPT !.pc = "remove", !.m = m, !.val = v]]
        BY <2>4 DEF FindHit, Goto
      <3> DEFINE o == [op[w] EXCEPT !.pc = "remove", !.m = m, !.val = v]
      <3>2. o.pc = "remove"
        BY <1>2 DEF OpType
      <3>3. op' = [op EXCEPT ![w] = o]
        BY <3>1
      <3> HIDE DEF o, Good
      <3>4. Good(o)
        BY <1>4, <3>2
      <3> QED BY <3>3, <3>4
    <2>5. CASE DeleteRoot(w)
      <3> DEFINE o == [op[w] EXCEPT !.pc = "clear"]
      <3>1. op' = [op EXCEPT ![w] = o]
        BY <2>5 DEF DeleteRoot, Goto
      <3>2. o.pc = "clear"
        BY <1>2 DEF OpType
      <3> HIDE DEF o, Good
      <3>3. Good(o)
        BY <1>4, <3>2
      <3> QED BY <3>1, <3>3
    <2>6. CASE DeleteInner(w)
      <3>1. PICK g \in {"fold", "clear"} : op' = [op EXCEPT ![w] =
                [op[w] EXCEPT !.pc = "ownpath", !.goal = g]]
        BY <2>6 DEF DeleteInner, OwnPathFor, Goto
      <3> DEFINE o == [op[w] EXCEPT !.pc = "ownpath", !.goal = g]
      <3>2. o.pc = "ownpath" /\ o.goal = g
        BY <1>2 DEF OpType
      <3>3. op' = [op EXCEPT ![w] = o]
        BY <3>1
      <3> HIDE DEF o
      <3>4. Good(o)
        BY <3>2 DEF Looks, Cutting, InsertPc
      <3> QED BY <3>3, <3>4
    <2> QED BY <2>1, <2>2, <2>3, <2>4, <2>5, <2>6
  <1>6. Looks(op[w])
    BY <1>1 DEF Looks, Cutting
  <1> QED BY <1>1, <1>3, <1>5, <1>6

\* Such a step moves no value.
LEMMA LookVals ==
    ASSUME IInv, SInv, VInv, NEW w \in Writer,
           \/ InsertDown(w) \/ FindDown(w) \/ FindMiss(w)
           \/ FindHit(w) \/ DeleteRoot(w) \/ DeleteInner(w)
    PROVE  VInv'
  <1>1. /\ Looks(op[w]) /\ heap' = heap /\ trees' = trees /\ ops' = ops
        /\ \A u \in Writer : txn'[u].root = txn[u].root
    BY LooksOn
  <1>2. PICK o : /\ op' = [op EXCEPT ![w] = o] /\ Looks(o)
                 /\ o.pc \in InsertPc => /\ op[w].pc \in InsertPc
                                         /\ o.val = op[w].val
    BY LooksOn
  <1>3. op'[w] = o /\ \A u \in Writer : u # w => op'[u] = op[u]
    BY <1>2, Facts
  <1>4. SameRoots
    BY <1>1, <1>2, <1>3 DEF SameRoots
  <1>5. \A u \in Writer : op'[u].pc \in InsertPc =>
            op[u].pc \in InsertPc /\ op'[u].val = op[u].val
    BY <1>2, <1>3
  <1> QED BY <1>1, <1>4, <1>5, HeapStill, StillVals

\* A transaction starts, is shared, published or given up; a call starts.
LEMMA BeginVals ==
    ASSUME IInv, SInv, VInv, NEW w \in Writer, Begin(w)
    PROVE  VInv'
  <1>1. /\ op[w].pc = "idle" /\ heap' = heap /\ Looks(op[w])
    BY DEF Begin, Txn, Freeze, Commit, Abort, Insert, Delete, DeletePrefix, mem,
           Ready, Looks, Cutting
  <1>2. /\ txn \in [Writer -> [root : Ref, epoch : Nat]]
        /\ op \in [Writer -> OpType]
    BY Facts
  <1>3. CASE (\E root \in trees : Txn(w, root)) \/ Freeze(w) \/ Commit(w)
             \/ Abort(w)
    <2>1. ops' = ops
      BY <1>3 DEF Txn, Freeze, Commit, Abort, count
    <2>2. /\ op'[w].pc \in {"idle", "notify"}
          /\ \A u \in Writer : u # w => op'[u] = op[u] /\ txn'[u].root = txn[u].root
      BY <1>1, <1>2, <1>3, IdleType DEF Txn, Freeze, Commit, Abort, IdleOp
    <2>3. trees' = trees \/ (trees' = trees \cup {txn[w].root} /\ txn[w].root # Nil)
      BY <1>3 DEF Txn, Freeze, Commit, Abort, Ready, pub
    <2>4. txn'[w].root # Nil =>
             txn'[w].root \in trees \/ txn'[w].root = txn[w].root
      BY <1>2, <1>3 DEF Txn, Freeze, Commit, Abort, NoTxn
    <2>5. Looks(op'[w]) /\ op'[w].pc \notin InsertPc
      BY <2>2 DEF Looks, Cutting, InsertPc
    <2>6. SameRoots
      BY <1>1, <2>2, <2>3, <2>4, <2>5 DEF SameRoots
    <2>7. \A u \in Writer : op'[u].pc \in InsertPc =>
              op[u].pc \in InsertPc /\ op'[u].val = op[u].val
      BY <2>2, <2>5
    <2> QED BY <1>1, <2>1, <2>6, <2>7, HeapStill, StillVals
  <1>4. ASSUME NEW k \in Key, Insert(w, k) \/ Delete(w, k) \/ DeletePrefix(w, k)
        PROVE  VInv'
    <2>1. k \in Seq(Byte)
      BY KeyAssumption
    <2>2. /\ trees' = trees /\ ops < MaxOps /\ ops' = ops + 1 /\ ops \in Nat
          /\ \A u \in Writer : u # w => txn'[u] = txn[u]
      BY <1>2, <1>4 DEF Insert, Delete, DeletePrefix, pub, begin, IInv, TypeOK
    <2>3. txn'[w].root = txn[w].root
      BY <1>2, <1>4, BeginEpoch DEF Insert, Delete, DeletePrefix
    <2>4. PICK o : /\ op' = [op EXCEPT ![w] = o] /\ o.pc \in {"insert", "find"}
                   /\ o.pc = "insert" => o.val = ops + 1
      <3>1. CASE Insert(w, k)
        <4> DEFINE c == Call(w, "Insert", k, "insert")
                   o == [c EXCEPT !.val = ops + 1]
        <4>1. c \in OpType /\ c.pc = "insert"
          BY <2>1, CallType
        <4>2. op' = [op EXCEPT ![w] = o]
          BY <3>1 DEF Insert, Goto
        <4> HIDE DEF c
        <4>3. o.pc = "insert" /\ o.val = ops + 1
          BY <4>1 DEF OpType
        <4> QED BY <4>2, <4>3
      <3>2. CASE Delete(w, k)
        <4>1. op' = [op EXCEPT ![w] = Call(w, "Delete", k, "find")]
          BY <3>2 DEF Delete, Goto
        <4>2. Call(w, "Delete", k, "find").pc = "find"
          BY <2>1, CallType
        <4> QED BY <4>1, <4>2
      <3>3. CASE DeletePrefix(w, k)
        <4>1. op' = [op EXCEPT ![w] = Call(w, "DeletePrefix", k, "find")]
          BY <3>3 DEF DeletePrefix, Goto
        <4>2. Call(w, "DeletePrefix", k, "find").pc = "find"
          BY <2>1, CallType
        <4> QED BY <4>1, <4>2
      <3> QED BY <1>4, <3>1, <3>2, <3>3
    <2>5. op'[w] = o /\ \A u \in Writer : u # w => op'[u] = op[u]
      BY <1>2, <2>4
    <2>6. Looks(op'[w])
      BY <2>4, <2>5 DEF Looks, Cutting
    <2>7. SameRoots
      BY <1>1, <2>2, <2>3, <2>5, <2>6 DEF SameRoots
    <2>8. op'[w].pc \in InsertPc => op'[w].val = ops + 1
      BY <2>4, <2>5 DEF InsertPc
    <2>9. Starts(w) /\ ops' # ops
      BY <2>2, <2>8 DEF Starts
    <2>10. \A u \in Writer : op'[u].pc \in InsertPc =>
              \/ op[u].pc \in InsertPc /\ op'[u].val = op[u].val
              \/ u = w /\ ops' # ops
      BY <2>5, <2>9
    <2> QED BY <1>1, <2>7, <2>9, <2>10, HeapStill, StillVals
  <1> QED BY <1>3, <1>4 DEF Begin

\* A call that returns comes back idle.
LEMMA ReturnVals ==
    ASSUME NEW w, NEW v, Return(w, v)
    PROVE  \E o : /\ op' = [op EXCEPT ![w] = o]
                  /\ o.pc \notin InsertPc /\ \A z : Holds(w, o, z)
  <1>1. PICK o : op' = [op EXCEPT ![w] = o] /\ o.pc = "idle"
    BY ReturnIdle
  <1> QED BY <1>1 DEF InsertPc, Holds

\* What a call that is writing can rely on.
LEMMA Writing ==
    ASSUME IInv, NEW w \in Writer, op[w].pc \in WritePc
    PROVE  /\ txn[w].epoch # 0 /\ op[w] \in OpType
           /\ op[w].pc \in GoalPc => op[w].m # Nil
           /\ op[w].pc \in {"cut", "pull", "fold"} => op[w].parent # Nil
  BY Facts DEF CallAt

\* The steps of Insert.
LEMMA InsertVals ==
    ASSUME IInv, SInv, VInv, NEW w \in Writer, InsertStep(w)
    PROVE  VInv'
  <1>1. op[w].pc \in InsertPc
    BY DEF InsertStep, InsertValue, InsertOwn, InsertHang, InsertDown,
           InsertSplitCopy, InsertSplit, At, InsertPc
  <1>2. txn[w].epoch # 0 /\ op[w] \in OpType
    BY <1>1, Writing DEF WritePc
  <1>3. ops' = ops
    BY DEF InsertStep, InsertValue, InsertOwn, InsertHang, InsertDown,
           InsertSplitCopy, InsertSplit, Rest, count
  <1>4. CASE InsertValue(w)
    <2>1. PICK o : op' = [op EXCEPT ![w] = o] /\ \A z : Holds(w, o, z)
      BY <1>4, ReturnVals DEF InsertValue
    <2>2. PICK z : ValsTo(w, heap', op[w].n, z) /\ heap'[z].val = op[w].val
      BY <1>4, ValsInsertValue
    <2>3. Given(w, z)
      BY <1>1, <2>2 DEF Given
    <2> QED BY <1>2, <1>3, <1>4, <2>1, <2>2, <2>3, InsertValueMoves, SwapVals
  <1>5. CASE InsertOwn(w)
    <2>1. PICK extra, m, p :
             /\ extra \in {0, 1} /\ own(w, op[w].n, extra)
             /\ op' = [op EXCEPT ![w] = [op[w] EXCEPT !.n = m, !.pc = p]]
      BY <1>5 DEF InsertOwn, Goto
    <2> DEFINE o == [op[w] EXCEPT !.n = m, !.pc = p]
    <2>2. o.val = op[w].val
      BY <1>2 DEF OpType
    <2>3. op' = [op EXCEPT ![w] = o]
      BY <2>1
    <2>4. ValsTo(w, heap', op[w].n, Nil)
      BY <1>5, <2>1, SlotsInsertOwn, ValsOwn
    <2> HIDE DEF o
    <2>5. Holds(w, o, Nil) /\ Given(w, Nil)
      BY <1>1, <2>2 DEF Holds, Given
    <2> QED BY <1>2, <1>3, <1>5, <2>3, <2>4, <2>5, InsertOwnMoves, SwapVals
  <1>6. CASE InsertHang(w)
    <2>1. PICK o : op' = [op EXCEPT ![w] = o] /\ o.pc \notin InsertPc
      BY <1>6, ReturnVals DEF InsertHang
    <2>2. PICK T : Turns(w, T, T \cup {New})
      BY <1>6, InsertHangMoves
    <2>3. ValsTo(w, heap', Nil, New) /\ heap'[New].val = op[w].val
      BY <1>6, ValsInsertHang
    <2>4. Given(w, New)
      BY <1>1, <2>3 DEF Given
    <2>5. T \cup {New} \subseteq T \cup ((1..Len(heap')) \ Nodes)
      <3>1. Len(heap) \in Nat /\ Nodes = 1..Len(heap) /\ heap \in Seq(NodeType)
        BY Facts DEF Nodes
      <3>2. Len(heap') = Len(heap) + 1
        BY <1>6, <3>1 DEF InsertHang
      <3> QED BY <3>1, <3>2 DEF New
    <2> QED BY <1>2, <1>3, <1>6, <2>1, <2>2, <2>3, <2>4, <2>5, InsertHangMoves,
               GrowVals
  <1>7. CASE InsertDown(w)
    BY <1>7, LookVals
  <1>8. CASE InsertSplitCopy(w)
    <2> DEFINE x == Kid(op[w].n, Head(op[w].search))
    <2>1. PICK m : op' = [op EXCEPT ![w] = [op[w] EXCEPT !.pc = "fork", !.m = m]]
      BY <1>8 DEF InsertSplitCopy, Goto
    <2> DEFINE o == [op[w] EXCEPT !.pc = "fork", !.m = m]
    <2>2. o.val = op[w].val
      BY <1>2 DEF OpType
    <2>3. op' = [op EXCEPT ![w] = o]
      BY <2>1
    <2>4. ValsTo(w, heap', x, Nil) /\ Moved(w) /\ Swaps(w, x)
      BY <1>8, ValsInsertSplitCopy, InsertSplitCopyMoves
    <2> HIDE DEF o, x
    <2>5. Holds(w, o, Nil) /\ Given(w, Nil)
      BY <1>1, <2>2 DEF Holds, Given
    <2> QED BY <1>2, <1>3, <2>3, <2>4, <2>5, SwapVals
  <1>9. CASE InsertSplit(w)
    <2>1. PICK o : op' = [op EXCEPT ![w] = o] /\ o.pc \notin InsertPc
      BY <1>9, ReturnVals DEF InsertSplit
    <2>2. PICK z \in {New, New + 1} :
             /\ ValsTo(w, heap', Nil, z) /\ heap'[z].val = op[w].val
             /\ z = New + 1 => heap'[New].val = NoVal
      BY <1>9, ValsInsertSplit
    <2>3. Given(w, z) /\ (New = z \/ heap'[New].val = NoVal)
      BY <1>1, <2>2 DEF Given
    <2>4. Len(heap) \in Nat /\ Nodes = 1..Len(heap)
      BY Facts DEF Nodes
    <2>5. \E T, S : /\ Turns(w, T, S)
                    /\ S \subseteq T \cup ((1..Len(heap')) \ Nodes)
      <3>1. PICK T : \/ Turns(w, T, T \cup {New}) /\ Len(heap') = New
                     \/ /\ Turns(w, T, T \cup {New} \cup {New + 1})
                        /\ Len(heap') = New + 1
        BY <1>9, InsertSplitMoves
      <3>2. CASE Turns(w, T, T \cup {New}) /\ Len(heap') = New
        <4>1. T \cup {New} \subseteq T \cup ((1..Len(heap')) \ Nodes)
          BY <2>4, <3>2 DEF New
        <4> QED BY <3>2, <4>1
      <3>3. CASE /\ Turns(w, T, T \cup {New} \cup {New + 1})
                 /\ Len(heap') = New + 1
        <4>1. T \cup {New} \cup {New + 1}
                 \subseteq T \cup ((1..Len(heap')) \ Nodes)
          BY <2>4, <3>3 DEF New
        <4> QED BY <3>3, <4>1
      <3> QED BY <3>1, <3>2, <3>3
    <2> QED BY <1>2, <1>3, <1>9, <2>1, <2>2, <2>3, <2>5, InsertSplitMoves,
               GrowVals
  <1> QED BY <1>4, <1>5, <1>6, <1>7, <1>8, <1>9 DEF InsertStep

\* Delete and DeletePrefix take the node they found out of sight.
LEMMA UnlinkVals ==
    ASSUME IInv, SInv, VInv, NEW w \in Writer, DeleteLeaf(w) \/ DeleteSubtree(w)
    PROVE  VInv'
  <1>1. op[w].pc = "remove" /\ heap' = heap /\ ops' = ops
    BY DEF DeleteLeaf, DeleteSubtree, At, mem, Rest, count
  <1>2. txn[w].epoch # 0 /\ op[w] \in OpType
    BY <1>1, Writing DEF WritePc
  <1>3. PICK g : op' = [op EXCEPT ![w] =
                           [op[w] EXCEPT !.pc = "ownpath", !.goal = g]]
    BY DEF DeleteLeaf, DeleteSubtree, OwnPathFor, Goto
  <1> DEFINE o == [op[w] EXCEPT !.pc = "ownpath", !.goal = g]
  <1>4. o.pc = "ownpath"
    BY <1>2 DEF OpType
  <1>5. op' = [op EXCEPT ![w] = o]
    BY <1>3
  <1> HIDE DEF o
  <1>6. o.pc \notin InsertPc
    BY <1>4 DEF InsertPc
  <1>7. PICK T : Turns(w, T, T \ Below(T, Plain(heap), op[w].m))
    BY DeleteLeafMoves
  <1>8. T \ Below(T, Plain(heap), op[w].m)
           \subseteq T \cup ((1..Len(heap')) \ Nodes)
    OBVIOUS
  <1>9. ValsTo(w, heap', Nil, Nil) /\ Given(w, Nil)
    BY <1>1, ValsBase DEF Given
  <1>10. New \notin T \ Below(T, Plain(heap), op[w].m)
    <2>1. PICK d : Live(heap, op[w], txn[w].root, T, d)
      BY <1>7 DEF Turns
    <2>2. txn[w].root # Nil
      BY <1>1, Facts DEF CallAt
    <2>3. T \subseteq Nodes
      BY <2>1, <2>2, LiveNodes
    <2>4. New \notin Nodes
      BY Facts DEF Nodes, New
    <2> QED BY <2>3, <2>4
  <1> QED BY <1>1, <1>2, <1>5, <1>6, <1>7, <1>8, <1>9, <1>10, DeleteLeafMoves,
             GrowVals

\* The steps of Delete and DeletePrefix.
LEMMA DeleteVals ==
    ASSUME IInv, SInv, VInv, NEW w \in Writer, DeleteStep(w)
    PROVE  VInv'
  <1>1. ops' = ops
    BY DEF DeleteStep, FindDown, FindMiss, FindHit, DeleteRoot, DeleteLeaf,
           DeleteInner, DeleteAll, DeleteSubtree, OwnPath, Cut, Pull, Fold,
           Clear, Rest, count
  <1>2. Given(w, Nil)
    BY DEF Given
  <1>3. CASE FindDown(w) \/ FindMiss(w) \/ FindHit(w) \/ DeleteRoot(w)
             \/ DeleteInner(w)
    BY <1>3, LookVals
  <1>4. CASE DeleteLeaf(w) \/ DeleteSubtree(w)
    BY <1>4, UnlinkVals
  <1>5. CASE DeleteAll(w)
    <2>1. op[w].pc = "remove"
      BY <1>5 DEF DeleteAll, At
    <2>2. txn[w].epoch # 0
      BY <2>1, Writing DEF WritePc
    <2>3. PICK o : op' = [op EXCEPT ![w] = o] /\ o.pc \notin InsertPc
      BY <1>5, ReturnVals DEF DeleteAll
    <2>4. PICK T : Turns(w, T, {New})
      BY <1>5, DeleteAllMoves
    <2>5. ValsTo(w, heap', Nil, Nil) /\ heap'[New].val = NoVal
      BY <1>5, ValsDeleteAll
    <2>6. {New} \subseteq T \cup ((1..Len(heap')) \ Nodes)
      <3>1. Len(heap) \in Nat /\ Nodes = 1..Len(heap) /\ heap \in Seq(NodeType)
        BY Facts DEF Nodes
      <3>2. Len(heap') = Len(heap) + 1
        BY <1>5, <3>1 DEF DeleteAll
      <3> QED BY <3>1, <3>2 DEF New
    <2> QED BY <1>1, <1>2, <1>5, <2>2, <2>3, <2>4, <2>5, <2>6, DeleteAllMoves,
               GrowVals
  <1>6. CASE OwnPath(w)
    <2> DEFINE n == op[w].path[1].n
    <2>1. op[w].pc = "ownpath"
      BY <1>6 DEF OwnPath, At
    <2>2. txn[w].epoch # 0 /\ op[w] \in OpType /\ op[w].goal \in GoalPc
      BY <2>1, Writing, Facts DEF WritePc, CallAt
    <2>3. PICK p, l, s, g :
             /\ g \in GoalPc \cup {"ownpath"}
             /\ op' = [op EXCEPT ![w] = [op[w] EXCEPT
                          !.parent = p, !.l = l, !.path = s, !.pc = g]]
      BY <1>6, <2>1, <2>2 DEF OwnPath, Goto
    <2> DEFINE o == [op[w] EXCEPT !.parent = p, !.l = l, !.path = s, !.pc = g]
    <2>4. o.pc = g
      BY <2>2 DEF OpType
    <2>5. op' = [op EXCEPT ![w] = o]
      BY <2>3
    <2>6. n \in Nodes /\ own(w, n, 0) /\ Moved(w) /\ Swaps(w, n)
      BY <1>6, SlotsOwnPath, OwnPathMoves
    <2> HIDE DEF o, n
    <2>7. ValsTo(w, heap', n, Nil)
      BY <2>6, ValsOwn
    <2>8. Holds(w, o, Nil)
      BY <2>3, <2>4 DEF Holds, InsertPc, GoalPc
    <2> QED BY <1>1, <1>2, <2>2, <2>5, <2>6, <2>7, <2>8, SwapVals
  <1>7. CASE Cut(w)
    <2>1. op[w].pc = "cut"
      BY <1>7 DEF Cut, At
    <2>2. txn[w].epoch # 0 /\ txn[w].root # Nil
      BY <2>1, Writing, Facts DEF WritePc, GoalPc, CallAt
    <2>3. PICK o : op' = [op EXCEPT ![w] = o] /\ o.pc \notin InsertPc
      BY <1>7, ReturnVals DEF Cut
    <2>4. PICK T : Turns(w, T, T)
      BY <1>7, CutMoves
    <2>5. New \notin T
      <3>1. PICK d : Live(heap, op[w], txn[w].root, T, d)
        BY <2>4 DEF Turns
      <3>2. T \subseteq Nodes
        BY <2>2, <3>1, LiveNodes
      <3>3. New \notin Nodes
        BY Facts DEF Nodes, New
      <3> QED BY <3>2, <3>3
    <2>6. ValsTo(w, heap', Nil, Nil)
      BY <1>7, ValsCut
    <2> QED BY <1>1, <1>2, <1>7, <2>2, <2>3, <2>4, <2>5, <2>6, CutMoves, GrowVals
  <1>8. ASSUME NEW n, NEW c, NEW nf, NEW v, Merges(w, n, c),
               mergeChild(w, nf, n, c), op[w].pc \in {"pull", "fold"}, Moved(w),
               Return(w, v)
        PROVE  VInv'
    <2>1. txn[w].epoch # 0 /\ op[w].parent # Nil
      BY <1>8, Writing DEF WritePc, GoalPc
    <2>2. PICK o : op' = [op EXCEPT ![w] = o] /\ o.pc \notin InsertPc
      BY <1>8, ReturnVals
    <2> QED BY <1>1, <1>8, <2>1, <2>2, MergeVals
  <1>9. CASE Pull(w)
    <2>1. op[w].pc \in {"pull", "fold"} /\ Return(w, op[w].val)
      BY <1>9 DEF Pull, At
    <2> QED BY <1>8, <1>9, <2>1, PullMoves
  <1>10. CASE Fold(w)
    <2>1. op[w].pc \in {"pull", "fold"} /\ Return(w, op[w].val)
      BY <1>10 DEF Fold, At
    <2> QED BY <1>8, <1>10, <2>1, FoldMoves
  <1>11. CASE Clear(w)
    <2>1. op[w].pc = "clear"
      BY <1>11 DEF Clear, At
    <2>2. txn[w].epoch # 0
      BY <2>1, Writing DEF WritePc, GoalPc
    <2>3. PICK o : op' = [op EXCEPT ![w] = o] /\ \A z : Holds(w, o, z)
      BY <1>11, ReturnVals DEF Clear
    <2>4. op[w].m \in Nodes /\ ownValueless(w, op[w].m, NoVal, 0)
      BY <1>11, SlotsClear
    <2>5. PICK z : ValsTo(w, heap', op[w].m, z) /\ heap'[z].val = NoVal
      BY <2>4, ValsValueless DEF NoVal
    <2>6. Given(w, z)
      BY <2>5 DEF Given
    <2> QED BY <1>1, <1>11, <2>2, <2>3, <2>5, <2>6, ClearMoves, SwapVals
  <1> QED BY <1>3, <1>4, <1>5, <1>6, <1>7, <1>9, <1>10, <1>11 DEF DeleteStep

\* A watch slot is not a leaf.
LEMMA WatchLeaf ==
    ASSUME NEW h \in Seq(NodeType), NEW n \in 1..Len(h), NEW s \in SlotState
    PROVE  \A k \in 1..Len(h) : [h EXCEPT ![n].watch = s][k].leaf = h[k].leaf
  <1> DEFINE x == [h[n] EXCEPT !.watch = s]
             g == [h EXCEPT ![n].watch = s]
  <1>1. h[n] \in NodeType
    OBVIOUS
  <1>2. x \in NodeType /\ x.leaf = h[n].leaf
    BY <1>1 DEF NodeType
  <1>3. g = [h EXCEPT ![n] = x]
    OBVIOUS
  <1> HIDE DEF x, g
  <1>4. \A j \in 1..Len(h) : g[j] = IF j = n THEN x ELSE h[j]
    BY <1>2, <1>3, ExceptSeq
  <1> QED BY <1>2, <1>4 DEF g

\* sealValue gives a leaf to a value that has none.
LEMMA SealGives ==
    ASSUME NEW h, h \in Seq(NodeType), NEW n \in 1..Len(h)
    PROVE  \A k \in 1..Len(h) :
              sealValueHeap(h, n)[k].leaf = h[k].leaf \/ h[k].leaf = Nil
  <1> DEFINE g == sealValueHeap(h, n)
  <1>1. \A k \in 1..Len(h) : k # n => g[k] = h[k]
    BY SealEffect
  <1>2. h[n].leaf # Nil => g = h
    BY DEF sealValueHeap
  <1> HIDE DEF g
  <1>3. ASSUME NEW k \in 1..Len(h)
        PROVE  g[k].leaf = h[k].leaf \/ h[k].leaf = Nil
    <2>1. CASE k = n
      BY <1>2, <2>1
    <2>2. CASE k # n
      BY <1>1, <2>2
    <2> QED BY <2>1, <2>2
  <1> QED BY <1>3 DEF g

\* Notify moves no value, and takes no leaf away.
LEMMA NotifyKeeps ==
    ASSUME IInv, Notify
    PROVE  SameVals
  <1>1. /\ AllSame(heap, heap') /\ NfOK(notifier) /\ heap \in Seq(NodeType)
        /\ Nodes = 1..Len(heap)
    BY NotifySame, MainAssumption, Facts DEF Nodes
  <1>2. \A k \in Nodes : heap'[k].leaf = heap[k].leaf \/ heap[k].leaf = Nil
    <2>1. CASE heap' = heap
      BY <2>1
    <2>2. CASE NotifyNode
      <3> DEFINE n == Head(notifier.nodes)
      <3>1. n \in 1..Len(heap)
        BY <1>1, <2>2, NotifierTail DEF NotifyNode
      <3>2. heap' = [heap EXCEPT ![n].watch = "sealed"]
        BY <2>2 DEF NotifyNode
      <3> HIDE DEF n
      <3> QED BY <1>1, <3>1, <3>2, WatchLeaf DEF SlotState
    <2>3. CASE NotifyValue
      <3>1. Head(notifier.values) \in 1..Len(heap)
        BY <1>1, <2>3, NotifierTail DEF NotifyValue
      <3>2. heap' = sealValueHeap(heap, Head(notifier.values))
        BY <2>3 DEF NotifyValue
      <3> QED BY <1>1, <3>1, <3>2, SealGives
    <2>4. CASE SealSubtree
      <3>1. PICK n \in notifier.sealing :
               heap' = IF heap[n].val # NoVal
                       THEN sealValueHeap([heap EXCEPT ![n].watch = "sealed"], n)
                       ELSE [heap EXCEPT ![n].watch = "sealed"]
        BY <2>4 DEF SealSubtree
      <3> DEFINE h == [heap EXCEPT ![n].watch = "sealed"]
      <3>2. n \in 1..Len(heap)
        BY <1>1 DEF NfOK, NotifierType
      <3>3. AllSame(heap, h) /\ \A k \in Nodes : h[k].leaf = heap[k].leaf
        BY <1>1, <3>2, WatchSet, WatchLeaf DEF SlotState
      <3>4. heap' = IF heap[n].val # NoVal THEN sealValueHeap(h, n) ELSE h
        BY <3>1
      <3> HIDE DEF h
      <3>5. h \in Seq(NodeType) /\ Len(h) = Len(heap) /\ n \in 1..Len(h)
        BY <3>2, <3>3 DEF AllSame
      <3>6. \A k \in Nodes :
               sealValueHeap(h, n)[k].leaf = h[k].leaf \/ h[k].leaf = Nil
        BY <1>1, <3>5, SealGives
      <3> QED BY <3>3, <3>4, <3>6
    <2> QED BY <2>1, <2>2, <2>3, <2>4
         DEF Notify, NotifyLeaf, NotifySubtree, NotifyDone, mem
  <1> QED BY <1>1, <1>2 DEF SameVals

\* Notify seals slots.
LEMMA NotifyVals ==
    ASSUME IInv, SInv, VInv, Notify
    PROVE  VInv'
  <1>1. ops' = ops /\ txn' = txn /\ trees' = trees
    BY DEF Notify, NotifyNode, NotifyLeaf, NotifyValue, NotifySubtree,
           SealSubtree, NotifyDone, NotifyRest, pub, count
  <1>2. \A u \in Writer : \/ op'[u] = op[u]
                          \/ txn[u].root = Nil /\ op'[u].pc = "idle"
    <2>1. CASE NotifyDone
      <3>1. txn[Main].root = Nil /\ op' = [op EXCEPT ![Main] = IdleOp]
        BY <2>1, MainAssumption, Facts DEF NotifyDone, Notifying, CallAt
      <3>2. op \in [Writer -> OpType]
        BY MainAssumption, Facts
      <3> QED BY <3>1, <3>2, IdleType
    <2>2. CASE ~NotifyDone
      BY <2>2 DEF Notify, NotifyNode, NotifyLeaf, NotifyValue, NotifySubtree,
                  SealSubtree, NotifyRest
    <2> QED BY <2>1, <2>2
  <1>3. SameRoots
    BY <1>1, <1>2 DEF SameRoots
  <1>4. \A u \in Writer : op'[u].pc \in InsertPc =>
            op[u].pc \in InsertPc /\ op'[u].val = op[u].val
    BY <1>2 DEF InsertPc
  <1> QED BY <1>1, <1>3, <1>4, NotifyKeeps, StillVals

\* A reader moves no value, and takes no leaf away.
LEMMA ReadKeeps ==
    ASSUME IInv, NEW r \in Reader,
           \/ Read(r)
           \/ \E kind \in {"key", "prefix"}, t \in trees, k \in Key :
                 ReadStart(r, kind, t, k)
    PROVE  SameVals
  <1>1. /\ AllSame(heap, heap') /\ heap \in Seq(NodeType) /\ Nodes = 1..Len(heap)
        /\ leaves \in Seq(SlotState)
    BY ReadSame, MainAssumption, Facts DEF Nodes
  <1>2. \A k \in Nodes : heap'[k].leaf = heap[k].leaf \/ heap[k].leaf = Nil
    <2>1. CASE heap' = heap
      BY <2>1
    <2>2. CASE SlotChan(r)
      <3> DEFINE n == rd[r].n
                 s == IF heap[n].watch = "nil" THEN "live" ELSE heap[n].watch
      <3>1. n \in 1..Len(heap) /\ heap' = [heap EXCEPT ![n].watch = s]
        BY <1>1, <2>2, ReaderAt DEF SlotChan
      <3>2. heap[n] \in NodeType
        BY <1>1, <3>1
      <3>3. s \in SlotState
        BY <3>2 DEF NodeType, SlotState
      <3> HIDE DEF n, s
      <3> QED BY <1>1, <3>1, <3>3, WatchLeaf
    <2>3. CASE ValueChan(r) /\ heap' # heap
      <3> DEFINE n == rd[r].n
                 x == [heap[n] EXCEPT !.leaf = Len(leaves) + 1]
      <3>1. n \in 1..Len(heap)
        BY <1>1, <2>3, ReaderAt DEF ValueChan
      <3>2. heap[n].leaf = Nil /\ heap' = [heap EXCEPT ![n] = x]
        BY <2>3 DEF ValueChan
      <3>3. heap[n] \in NodeType /\ Len(leaves) + 1 \in Nat
        BY <1>1, <3>1
      <3>4. x \in NodeType
        BY <3>3 DEF NodeType
      <3> HIDE DEF n, x
      <3>5. \A k \in 1..Len(heap) : heap'[k] = IF k = n THEN x ELSE heap[k]
        BY <1>1, <3>1, <3>2, <3>4, ExceptSeq
      <3> QED BY <1>1, <3>2, <3>5
    <2> QED BY <2>1, <2>2, <2>3 DEF Read, ReadStart, ReadDown, ReadEnd, mem
  <1> QED BY <1>1, <1>2 DEF SameVals

\* A reader may give a value its leaf.
LEMMA ReadVals ==
    ASSUME IInv, SInv, VInv, NEW r \in Reader,
           \/ Read(r)
           \/ \E kind \in {"key", "prefix"}, t \in trees, k \in Key :
                 ReadStart(r, kind, t, k)
    PROVE  VInv'
  <1>1. SameVals
    BY ReadKeeps
  <1>2. ops' = ops /\ txn' = txn /\ trees' = trees /\ op' = op
    BY DEF Read, ReadStart, ReadDown, ReadEnd, SlotChan, ValueChan, ReaderRest,
           pub
  <1>3. SameRoots
    BY <1>2 DEF SameRoots
  <1> QED BY <1>1, <1>2, <1>3, StillVals

-----------------------------------------------------------------------------
(* The invariant                                                            *)

\* A step of anybody.
LEMMA NextVInv ==
    ASSUME IInv, SInv, VInv, [Next]_vars
    PROVE  VInv'
  <1>1. ASSUME NEW w \in Writer, Begin(w) \/ Step(w)
        PROVE  VInv'
    BY <1>1, BeginVals, InsertVals, DeleteVals DEF Step
  <1>2. CASE Notify
    BY <1>2, NotifyVals
  <1>3. CASE \E r \in Reader :
                \/ \E kind \in {"key", "prefix"}, t \in trees, k \in Key :
                      ReadStart(r, kind, t, k)
                \/ Read(r)
    BY <1>3, ReadVals
  <1>4. CASE UNCHANGED vars
    <2>1. heap' = heap /\ txn' = txn /\ op' = op /\ trees' = trees /\ ops' = ops
      BY <1>4 DEF vars
    <2>2. SameVals /\ SameRoots
      BY <2>1, HeapStill DEF SameRoots
    <2> QED BY <2>1, <2>2, StillVals
  <1> QED BY <1>1, <1>2, <1>3, <1>4 DEF Next, Quiet

\* The values of a bulk-loaded tree are distinct, and no call has run.
LEMMA InitVInv ==
    ASSUME Init
    PROVE  VInv
  <1>1. IInv
    BY InitIInv
  <1>2. /\ heap = InitHeap /\ ops = 0 /\ Nodes = 1..Len(InitHeap)
        /\ \A w \in Writer : op[w].pc = "idle"
    BY IdleType DEF Init, Nodes
  <1>3. OneLeaf
    <2>1. SUFFICES ASSUME NEW n \in Nodes, NEW m \in Nodes, n # m,
                          heap[n].val = heap[m].val, heap[n].val # NoVal
                   PROVE  FALSE
      BY <1>1, InTreeNodes DEF OneLeaf
    <2> QED BY <1>2, <2>1, InitValuesAssumption
  <1>4. FreshValues
    <2>1. \A n \in Nodes : heap[n].val \notin 1..MaxOps
      BY <1>2, InitValuesAssumption DEF NoVal
    <2>2. ops + 1 = 1
      BY <1>2
    <2>3. \A w \in Writer : op[w].pc \notin InsertPc
      BY <1>2 DEF InsertPc
    <2> QED BY <2>1, <2>2, <2>3 DEF FreshValues
  <1> QED BY <1>3, <1>4 DEF VInv

\* Wherever two nodes of trees that somebody can reach hold one value, they
\* share its leaf, in the middle of every call too.
THEOREM ValuesInvariance == Spec => [](IInv /\ SInv /\ VInv)
  <1>1. Init => IInv /\ SInv /\ VInv
    BY InitIInv, InitSInv, InitVInv
  <1>2. IInv /\ SInv /\ VInv /\ [Next]_vars => (IInv /\ SInv /\ VInv)'
    BY NextStep, NextSInv, NextVInv
  <1> QED BY <1>1, <1>2, PTL DEF Spec

\* A watcher of a value is woken whichever copy of the node it was watched at:
\* copyNode, mergeChild and the split share the leaf before there are two.
THEOREM OneLeafEach == Spec => []OneLeafPerValue
  <1>1. ASSUME IInv, SInv, VInv
        PROVE  OneLeafPerValue
    <2>1. ASSUME NEW t \in trees, NEW n \in Reach(t)
          PROVE  InTree(n)
      <3>1. PICK T, d : Live(heap, IdleOp, t, T, d)
        BY <1>1 DEF SInv, LiveTree
      <3>2. Reach(t) = T
        BY <1>1, <3>1, ReachIsTree
      <3>3. HomeTree(T)
        BY <3>1 DEF HomeTree
      <3> QED BY <2>1, <3>2, <3>3 DEF InTree
    <2> QED BY <1>1, <2>1 DEF OneLeafPerValue, VInv, OneLeaf
  <1> QED BY <1>1, ValuesInvariance, PTL

-----------------------------------------------------------------------------
(* What has left a published tree is sealed, or recorded                    *)

\* n is in a tree that Main has published, or frozen for it to publish.
Pub(n) == \E t \in lineage : \E T, d : Live(heap, IdleOp, t, T, d) /\ n \in T
Was(n) == \E t \in lineage \cup pend :
             \E T, d : Live(heap, IdleOp, t, T, d) /\ n \in T

\* sealSubtree will come to n.
Cov(n) == \A D : Doomed(D) => n \in D

\* Notify will seal the leaf of y.
Due(y) == y \in Nodes /\ (y \in Items(notifier.values) \/ Cov(y))

Shut(l) == l # Nil /\ leaves[l] = "sealed"
Told(l) == Shut(l) \/ (l # Nil /\ l \in Items(notifier.leaves))

\* Node n's leaf is sealed or is about to be: it is recorded, or it is the leaf
\* of a node that Notify is to come to.
Meets(n, y) == /\ heap[y].val = heap[n].val
               /\ y = n \/ (heap[y].leaf = heap[n].leaf /\ heap[n].leaf # Nil)
Heard(n) == Told(heap[n].leaf) \/ \E y : Due(y) /\ Meets(n, y)

LeftNodes ==
    \A T, n : MainTree(T) /\ Was(n) /\ n \notin T =>
       \/ heap[n].watch = "sealed" \/ n \in Items(notifier.nodes) \/ Cov(n)
LeftValues ==
    \A T, n : MainTree(T) /\ Was(n) /\ heap[n].val # NoVal =>
       \/ \E m \in T : heap[m].val = heap[n].val
       \/ Heard(n)

\* The same of the published tree, while Main has a transaction: nothing is
\* recorded then that the published tree has lost.
LeftBefore ==
    txn[Main].root # Nil => \A C, n : CurTree(C) /\ Pub(n) =>
       /\ n \notin C => heap[n].watch = "sealed"
       /\ heap[n].val # NoVal => \/ \E m \in C : heap[m].val = heap[n].val
                                 \/ Shut(heap[n].leaf)
NothingLeft ==
    txn[Main].root = Nil => /\ pend = {}
                            /\ op[Main].pc # "notify" => notifier = NoNotifier
LInv == LeftNodes /\ LeftValues /\ LeftBefore /\ NothingLeft

-----------------------------------------------------------------------------
(* What was published, after a step                                         *)

\* No seal is broken.
StaySealed == \A l \in 1..Len(leaves) : leaves[l] = "sealed" => leaves'[l] = "sealed"

\* What holds in every step.
Steps == /\ IInv /\ IInv' /\ SInv /\ NInv /\ VInv /\ LInv /\ FrozenStays
         /\ StaySealed /\ Len(heap) <= Len(heap')

\* A step of the kinds whose slots are known.
LEMMA SlotSteps ==
    ASSUME IInv, SInv, NInv, VInv, LInv, Next, NEW x, Slots(x)
    PROVE  Steps
  <1>1. IInv' /\ FrozenStays
    BY NextStep
  <1>2. StaySealed
    <2>1. Len(leaves) \in Nat /\ Len(leaves') \in Nat
      BY <1>1, MainAssumption, Facts, FactsNext
    <2> QED BY <2>1 DEF StaySealed, Slots, LeavesKept
  <1> QED BY <1>1, <1>2 DEF Steps, Slots, SlotsTo

\* A step that seals leaves at most.
LEMMA SealSteps ==
    ASSUME IInv, SInv, NInv, VInv, LInv, Next, Len(heap') = Len(heap), NEW l,
           leaves' = leaves \/ leaves' = [leaves EXCEPT ![l] = "sealed"]
    PROVE  Steps
  <1>1. IInv' /\ FrozenStays
    BY NextStep
  <1>2. leaves \in Seq(SlotState) /\ Len(heap) \in Nat
    BY MainAssumption, Facts
  <1>3. StaySealed
    BY <1>2 DEF StaySealed
  <1> QED BY <1>1, <1>2, <1>3 DEF Steps

\* A published tree stays what it is.
LEMMA PubTreeStays ==
    ASSUME Steps, NEW t \in trees, NEW U, NEW e, Live(heap, IdleOp, t, U, e)
    PROVE  /\ Live(heap', IdleOp, t, U, e)
           /\ U \subseteq Nodes /\ \A k \in U : Frozen(k)
  <1>2. U \subseteq Nodes /\ \A k \in U : Frozen(k)
    BY PubNodes DEF Steps
  <1>3. /\ Len(heap) \in Nat /\ Len(heap') \in Nat /\ Len(heap) <= Len(heap')
        /\ Nodes = 1..Len(heap)
    BY MainAssumption, Facts, FactsNext DEF Steps, Nodes
  <1>4. \A k \in U : Same(heap, heap', k)
    BY <1>2, <1>3 DEF Steps, FrozenStays, SameBody, Same, Like
  <1>5. Live(heap', IdleOp, t, U, e)
    BY <1>2, <1>3, <1>4, LiveSame, IdleType
  <1> QED BY <1>2, <1>5

\* A published tree that is one after the step was it before.
LEMMA PubCame ==
    ASSUME Steps, NEW t \in trees, NEW U, NEW e, Live(heap', IdleOp, t, U, e)
    PROVE  \E d : Live(heap, IdleOp, t, U, d)
  <1>1. PICK T, d : Live(heap, IdleOp, t, T, d)
    BY DEF Steps, SInv, LiveTree
  <1>2. Live(heap', IdleOp, t, T, d)
    BY <1>1, PubTreeStays
  <1>3. T = U
    BY <1>2, OneTree
  <1> QED BY <1>1, <1>3

\* The nodes of such trees are frozen, and are in trees.
LEMMA WasNode ==
    ASSUME IInv, SInv, NEW n, Was(n)
    PROVE  n \in Nodes /\ Frozen(n) /\ InTree(n)
  <1> PICK t \in lineage \cup pend :
             \E T, d : Live(heap, IdleOp, t, T, d) /\ n \in T
    BY DEF Was
  <1>1. PICK T, d : Live(heap, IdleOp, t, T, d) /\ n \in T
    OBVIOUS
  <1>2. t \in trees
    BY DEF IInv, TypeOK, PubOK
  <1>3. T \subseteq Nodes /\ \A k \in T : Frozen(k)
    BY <1>1, <1>2, PubNodes
  <1>4. HomeTree(T)
    BY <1>1, <1>2 DEF HomeTree
  <1> QED BY <1>1, <1>3, <1>4 DEF InTree

\* No node gets into a published tree.
LEMMA WasKept ==
    ASSUME Steps, lineage' \cup pend' \subseteq lineage \cup pend, NEW n, Was(n)'
    PROVE  Was(n)
  <1> PICK t \in lineage' \cup pend' :
             \E T, d : Live(heap', IdleOp, t, T, d) /\ n \in T
    BY DEF Was
  <1>1. PICK T, d : Live(heap', IdleOp, t, T, d) /\ n \in T
    OBVIOUS
  <1>2. t \in lineage \cup pend /\ t \in trees
    BY DEF Steps, IInv, TypeOK, PubOK
  <1>3. \E e : Live(heap, IdleOp, t, T, e)
    BY <1>1, <1>2, PubCame
  <1> QED BY <1>1, <1>2, <1>3 DEF Was

\* What was published was so or waits for it.
LEMMA PubWas ==
    ASSUME NEW n, Pub(n)
    PROVE  Was(n)
  BY DEF Pub, Was

\* Main's tree is one, after a step too.
LEMMA OneMainNext ==
    ASSUME NEW T, NEW S, MainTree(T)', MainTree(S)'
    PROVE  T = S
  <1>1. MainTree(T)' <=> \E d : Live(heap', MainOp', MainRoot', T, d)
    BY DEF MainTree
  <1>2. MainTree(S)' <=> \E d : Live(heap', MainOp', MainRoot', S, d)
    BY DEF MainTree
  <1> QED BY <1>1, <1>2, OneTree

\* Main's tree is one that somebody holds.
LEMMA MainHome ==
    ASSUME IInv, NEW T, MainTree(T)
    PROVE  HomeTree(T)
  <1>1. current \in trees
    BY DEF IInv, TypeOK, PubOK
  <1> QED BY <1>1, MainAssumption DEF MainTree, MainOp, MainRoot, HomeTree

-----------------------------------------------------------------------------
(* A step of Main, and what it has to record                                *)

\* y's value and leaf stay.
KeepsValue(y) ==
    /\ heap'[y].val = heap[y].val
    /\ heap[y].leaf # Nil => heap'[y].leaf = heap[y].leaf

\* A node of T that goes is recorded, and what is recorded stays so until it is
\* sealed.
NodesTold(T, S) ==
    /\ \A n \in T \ S : Was(n) =>
          heap'[n].watch = "sealed" \/ n \in Items(notifier'.nodes) \/ Cov(n)'
    /\ \A n : n \notin T /\ Was(n) /\ (n \in Items(notifier.nodes) \/ Cov(n)) =>
          heap'[n].watch = "sealed" \/ n \in Items(notifier'.nodes) \/ Cov(n)'

\* So is the value of one: another node has it, or its leaf is recorded.
ValueTold(y, S) ==
    \/ \E m \in S : heap'[m].val = heap[y].val
    \/ Due(y)' /\ KeepsValue(y)
    \/ /\ Mine(Main, y)
       /\ heap[y].leaf # Nil => heap[y].leaf \in Items(notifier'.leaves)
ValuesTold(T, S) ==
    /\ \A y \in T : heap[y].val # NoVal => ValueTold(y, S)
    /\ \A l \in Items(notifier.leaves) \ {Nil} :
          l \in Items(notifier'.leaves) \/ leaves'[l] = "sealed"
    /\ \A y : Due(y) /\ heap[y].val # NoVal =>
          KeepsValue(y) /\ (Due(y)' \/ Shut(heap[y].leaf)')

\* A step that takes Main's tree T to S.
Goes(T, S) == /\ MainTree(T) /\ MainTree(S)'
              /\ \A n : Was(n)' => Was(n) \/ n \in S

\* What was published stays as it is.
LEMMA WasHolds ==
    ASSUME Steps, NEW n, Was(n)
    PROVE  /\ n \in Nodes /\ Frozen(n) /\ InTree(n) /\ KeepsValue(n)
           /\ heap[n].watch = "sealed" => heap'[n].watch = "sealed"
           /\ Shut(heap[n].leaf) => Shut(heap[n].leaf)'
           /\ heap[n].leaf \in 0..Len(leaves)
  <1>1. n \in Nodes /\ Frozen(n) /\ InTree(n)
    BY WasNode DEF Steps
  <1>2. /\ heap'[n].val = heap[n].val
        /\ heap[n].leaf # Nil => heap'[n].leaf = heap[n].leaf
        /\ heap[n].watch = "sealed" => heap'[n].watch = "sealed"
    BY <1>1 DEF Steps, FrozenStays, SameBody, Nodes
  <1>3. heap[n].leaf \in 0..Len(leaves) /\ Len(leaves) \in Nat
    BY <1>1, MainAssumption, Facts DEF Steps
  <1>4. ASSUME Shut(heap[n].leaf) PROVE Shut(heap[n].leaf)'
    <2>1. heap[n].leaf # Nil /\ leaves[heap[n].leaf] = "sealed"
      BY <1>4 DEF Shut
    <2>2. leaves'[heap[n].leaf] = "sealed"
      BY <1>3, <2>1 DEF Steps, StaySealed, Nil
    <2> QED BY <1>2, <2>1, <2>2 DEF Shut
  <1> QED BY <1>1, <1>2, <1>3, <1>4 DEF KeepsValue

\* A step keeps LeftNodes when what goes is recorded.
LEMMA LeftNodesStep ==
    ASSUME Steps, NEW T, NEW S, Goes(T, S), NodesTold(T, S)
    PROVE  LeftNodes'
  <1> SUFFICES ASSUME NEW U, NEW n, MainTree(U)', Was(n)', n \notin U
               PROVE  \/ heap'[n].watch = "sealed"
                      \/ n \in Items(notifier'.nodes) \/ Cov(n)'
    BY DEF LeftNodes
  <1>1. U = S
    BY OneMainNext DEF Goes
  <1>2. Was(n)
    BY <1>1 DEF Goes
  <1>3. CASE n \in T
    BY <1>1, <1>2, <1>3 DEF NodesTold
  <1>4. CASE n \notin T
    <2>1. heap[n].watch = "sealed" \/ n \in Items(notifier.nodes) \/ Cov(n)
      BY <1>2, <1>4 DEF Steps, LInv, LeftNodes, Goes
    <2>2. heap[n].watch = "sealed" => heap'[n].watch = "sealed"
      BY <1>2, WasHolds
    <2> QED BY <1>2, <1>4, <2>1, <2>2 DEF NodesTold
  <1> QED BY <1>3, <1>4

\* A step keeps LeftValues when the values that go are recorded.
LEMMA LeftValuesStep ==
    ASSUME Steps, NEW T, NEW S, Goes(T, S), ValuesTold(T, S)
    PROVE  LeftValues'
  <1> SUFFICES ASSUME NEW U, NEW n, MainTree(U)', Was(n)', heap'[n].val # NoVal
               PROVE  (\E m \in U : heap'[m].val = heap'[n].val) \/ Heard(n)'
    BY DEF LeftValues
  <1>1. U = S
    BY OneMainNext DEF Goes
  <1>2. CASE n \in S
    BY <1>1, <1>2
  <1>3. CASE n \notin S
    <2>1. Was(n)
      BY <1>3 DEF Goes
    <2>2. /\ n \in Nodes /\ Frozen(n) /\ InTree(n) /\ KeepsValue(n)
          /\ Shut(heap[n].leaf) => Shut(heap[n].leaf)'
      BY <2>1, WasHolds
    <2>3. /\ heap'[n].val = heap[n].val
          /\ heap[n].leaf # Nil => heap'[n].leaf = heap[n].leaf
      BY <2>2 DEF KeepsValue
    <2>4. (\E m \in T : heap[m].val = heap[n].val) \/ Heard(n)
      BY <2>1, <2>3 DEF Steps, LInv, LeftValues, Goes
    <2>5. Heard(n)' <=> \/ Shut(heap[n].leaf)'
                        \/ heap'[n].leaf # Nil /\ heap'[n].leaf \in Items(notifier'.leaves)
                        \/ \E y : Due(y)' /\ Meets(n, y)'
      BY DEF Heard, Told
    <2>6. ASSUME NEW y, Due(y)', Meets(n, y), KeepsValue(y)
          PROVE  Heard(n)'
      <3>1. Meets(n, y)'
        BY <2>3, <2>6 DEF Meets, KeepsValue
      <3> QED BY <2>5, <2>6, <3>1
    <2>7. ASSUME NEW m \in T, heap[m].val = heap[n].val
          PROVE  (\E j \in S : heap'[j].val = heap'[n].val) \/ Heard(n)'
      <3>1. ValueTold(m, S)
        BY <2>3, <2>7 DEF ValuesTold
      <3>2. InTree(m)
        BY MainHome DEF Steps, InTree, Goes
      <3>3. m # n => heap[m].leaf = heap[n].leaf /\ heap[n].leaf # Nil
        BY <2>2, <2>3, <2>7, <3>2 DEF Steps, VInv, OneLeaf
      <3>4. Meets(n, m)
        BY <2>7, <3>3 DEF Meets
      <3>5. CASE Due(m)' /\ KeepsValue(m)
        BY <2>6, <3>4, <3>5
      <3>6. CASE /\ Mine(Main, m)
                 /\ heap[m].leaf # Nil => heap[m].leaf \in Items(notifier'.leaves)
        <4>1. m # n
          BY <2>2, <3>6, MainAssumption DEF Frozen
        <4>2. heap'[n].leaf # Nil /\ heap'[n].leaf \in Items(notifier'.leaves)
          BY <2>3, <3>3, <3>6, <4>1
        <4> QED BY <2>5, <4>2
      <3>7. CASE \E j \in S : heap'[j].val = heap[m].val
        BY <2>3, <2>7, <3>7
      <3> QED BY <3>1, <3>5, <3>6, <3>7 DEF ValueTold
    <2>8. CASE Told(heap[n].leaf)
      <3>1. CASE Shut(heap[n].leaf)
        BY <2>2, <2>5, <3>1
      <3>2. CASE heap[n].leaf # Nil /\ heap[n].leaf \in Items(notifier.leaves)
        <4>1. heap'[n].leaf = heap[n].leaf
          BY <2>3, <3>2
        <4>2. \/ heap[n].leaf \in Items(notifier'.leaves)
              \/ leaves'[heap[n].leaf] = "sealed"
          BY <3>2 DEF ValuesTold
        <4>3. leaves'[heap[n].leaf] = "sealed" => Shut(heap[n].leaf)'
          BY <3>2, <4>1 DEF Shut
        <4> QED BY <2>5, <3>2, <4>1, <4>2, <4>3
      <3> QED BY <2>8, <3>1, <3>2 DEF Told
    <2>9. ASSUME NEW y, Due(y), Meets(n, y)
          PROVE  Heard(n)'
      <3>1. KeepsValue(y) /\ (Due(y)' \/ Shut(heap[y].leaf)')
        BY <2>3, <2>9 DEF ValuesTold, Meets
      <3>2. CASE Due(y)'
        BY <2>6, <2>9, <3>1, <3>2
      <3>3. CASE Shut(heap[y].leaf)'
        <4>1. Shut(heap[n].leaf)'
          BY <2>3, <2>9, <3>1, <3>3 DEF Meets, KeepsValue, Shut
        <4> QED BY <2>5, <4>1
      <3> QED BY <3>1, <3>2, <3>3
    <2> QED BY <1>1, <2>4, <2>7, <2>8, <2>9 DEF Heard
  <1> QED BY <1>2, <1>3

\* A tree that was published before a step and is so after it.
LEMMA PubKept ==
    ASSUME Steps, lineage' = lineage, NEW n, Pub(n)'
    PROVE  Pub(n)
  <1> PICK t \in lineage' :
             \E T, d : Live(heap', IdleOp, t, T, d) /\ n \in T
    BY DEF Pub
  <1>1. PICK T, d : Live(heap', IdleOp, t, T, d) /\ n \in T
    OBVIOUS
  <1>2. t \in lineage /\ t \in trees
    BY DEF Steps, IInv, TypeOK, PubOK
  <1>3. \E e : Live(heap, IdleOp, t, T, e)
    BY <1>1, <1>2, PubCame
  <1> QED BY <1>1, <1>2, <1>3 DEF Pub

\* The published tree after a step that publishes nothing is the one before.
LEMMA CurKept ==
    ASSUME Steps, current' = current, NEW C, CurTree(C)'
    PROVE  CurTree(C) /\ \A m \in C : heap'[m].val = heap[m].val
  <1>1. PICK d : Live(heap', IdleOp, current, C, d)
    BY DEF CurTree
  <1>2. current \in trees
    BY DEF Steps, IInv, TypeOK, PubOK
  <1>3. PICK e : Live(heap, IdleOp, current, C, e)
    BY <1>1, <1>2, PubCame
  <1>4. C \subseteq Nodes /\ \A k \in C : Frozen(k)
    BY <1>2, <1>3, PubTreeStays
  <1> QED BY <1>3, <1>4 DEF CurTree, Steps, FrozenStays, SameBody, Nodes

\* What the published tree had lost before the transaction began stays sealed.
LEMMA LeftBeforeKept ==
    ASSUME Steps, current' = current, lineage' = lineage,
           txn'[Main].root # Nil => txn[Main].root # Nil
    PROVE  LeftBefore'
  <1> SUFFICES ASSUME txn'[Main].root # Nil, NEW C, NEW n, CurTree(C)', Pub(n)'
               PROVE  /\ n \notin C => heap'[n].watch = "sealed"
                      /\ heap'[n].val # NoVal =>
                            \/ \E m \in C : heap'[m].val = heap'[n].val
                            \/ Shut(heap[n].leaf)'
    BY DEF LeftBefore
  <1>1. txn[Main].root # Nil /\ Pub(n) /\ CurTree(C)
    BY PubKept, CurKept
  <1>2. /\ n \notin C => heap[n].watch = "sealed"
        /\ heap[n].val # NoVal => \/ \E m \in C : heap[m].val = heap[n].val
                                  \/ Shut(heap[n].leaf)
    BY <1>1 DEF Steps, LInv, LeftBefore
  <1>3. /\ heap'[n].val = heap[n].val
        /\ heap[n].watch = "sealed" => heap'[n].watch = "sealed"
        /\ Shut(heap[n].leaf) => Shut(heap[n].leaf)'
    BY <1>1, PubWas, WasHolds DEF KeepsValue
  <1> QED BY <1>2, <1>3, CurKept

\* While Main has no transaction, this says nothing.
LEMMA NoLeftBefore ==
    ASSUME txn'[Main].root = Nil
    PROVE  LeftBefore'
  BY DEF LeftBefore

\* What the walk through a subtree is to come to, it will come to still, unless
\* it has just come to it.
LEMMA CovKept ==
    ASSUME NEW D, Doomed(D), \A k \in D : heap'[k].kids = heap[k].kids,
           Len(heap) <= Len(heap'), NEW X, X \subseteq D,
           Items(notifier.subtrees) \cup notifier.sealing \subseteq
              Items(notifier'.subtrees) \cup notifier'.sealing \cup X,
           \A k \in X, b \in Byte : heap[k].kids[b] # Nil =>
              heap[k].kids[b] \in Items(notifier'.subtrees) \cup notifier'.sealing,
           NEW n, Cov(n)
    PROVE  n \in X \/ Cov(n)'
  <1> SUFFICES ASSUME NEW F, Doomed(F)'
               PROVE  n \in X \/ n \in F
    BY DEF Cov
  <1> DEFINE E == (F \cap D) \cup X
  <1>1. /\ D \subseteq Nodes /\ Closed(D, Plain(heap))
        /\ Items(notifier.subtrees) \subseteq D /\ notifier.sealing \subseteq D
    BY DEF Doomed
  <1>2. /\ F \subseteq 1..Len(heap') /\ Closed(F, Plain(heap'))
        /\ Items(notifier'.subtrees) \subseteq F /\ notifier'.sealing \subseteq F
    BY DEF Doomed, Nodes, Plain
  <1>3. ASSUME NEW k \in E, NEW b \in Byte, Plain(heap)[k][b] # Nil
        PROVE  Plain(heap)[k][b] \in E
    <2>1. k \in D /\ Plain(heap)[k] = heap[k].kids
      BY <1>1 DEF Plain, Nodes
    <2>2. Plain(heap)[k][b] \in D
      BY <1>1, <1>3, <2>1 DEF Closed
    <2>3. CASE k \in X
      BY <1>2, <1>3, <2>1, <2>2, <2>3
    <2>4. CASE k \in F
      <3>1. Plain(heap')[k] = Plain(heap)[k]
        BY <1>2, <2>1, <2>4 DEF Plain
      <3> QED BY <1>2, <1>3, <2>2, <2>4, <3>1 DEF Closed
    <2> QED BY <2>3, <2>4
  <1>4. Doomed(E)
    BY <1>1, <1>2, <1>3 DEF Doomed, Closed
  <1>5. n \in E
    BY <1>4 DEF Cov
  <1> QED BY <1>5

\* In a step that changes nothing in memory and nothing that is recorded.
LEMMA LeftStill ==
    ASSUME Steps, heap' = heap, leaves' = leaves, notifier' = notifier,
           NEW T, MainTree(T), MainTree(T)', \A n : Was(n)' => Was(n) \/ n \in T
    PROVE  LeftNodes' /\ LeftValues'
  <1>1. Goes(T, T)
    BY DEF Goes
  <1>2. ASSUME NEW n, Cov(n) PROVE Cov(n)'
    <2>1. PICK D : Doomed(D)
      BY DEF Steps, NInv
    <2>2. {} \subseteq D /\ Len(heap) <= Len(heap')
      BY DEF Steps
    <2>3. n \in {} \/ Cov(n)'
      <3> DEFINE X == {}
      <3>1. /\ X \subseteq D
            /\ Items(notifier.subtrees) \cup notifier.sealing \subseteq
                  Items(notifier'.subtrees) \cup notifier'.sealing \cup X
            /\ \A k \in X, b \in Byte : heap[k].kids[b] # Nil =>
                  heap[k].kids[b] \in Items(notifier'.subtrees) \cup notifier'.sealing
        OBVIOUS
      <3> HIDE DEF X
      <3>2. n \in X \/ Cov(n)'
        BY <1>2, <2>1, <2>2, <3>1, CovKept
      <3> QED BY <3>2 DEF X
    <2> QED BY <2>3
  <1>3. NodesTold(T, T)
    BY <1>2 DEF NodesTold
  <1>4. ASSUME NEW y, Due(y) PROVE Due(y)'
    <2>1. y \in Nodes'
      BY <1>4 DEF Due, Nodes
    <2> QED BY <1>2, <1>4, <2>1 DEF Due
  <1>5. ValuesTold(T, T)
    BY <1>4 DEF ValuesTold, ValueTold, KeepsValue
  <1> QED BY <1>1, <1>3, <1>5, LeftNodesStep, LeftValuesStep

\* What the walks through subtrees come to is no other writer's.
LEMMA VisibleDoomed ==
    ASSUME IInv, NInv
    PROVE  \E E : Doomed(E) /\ \A k \in E : Visible(Main, k)
  <1>1. PICK D : Doomed(D)
    BY DEF NInv
  <1>2. PICK E : E = {k \in D : Visible(Main, k)}
    OBVIOUS
  <1>3. ASSUME NEW k \in E, NEW b \in Byte, Plain(heap)[k][b] # Nil
        PROVE  Plain(heap)[k][b] \in E
    <2>1. k \in Nodes /\ Visible(Main, k) /\ k \in D
      BY <1>1, <1>2 DEF Doomed
    <2>2. Plain(heap)[k][b] = Kid(k, b)
      BY <2>1 DEF Plain, Kid, Nodes
    <2>3. Visible(Main, Kid(k, b))
      BY <1>3, <2>1, <2>2, MainAssumption, KidVisible
    <2> QED BY <1>1, <1>2, <1>3, <2>1, <2>2, <2>3 DEF Doomed, Closed
  <1>4. Recorded(notifier)
    BY DEF IInv, Ownership, RecordedIsFrozen
  <1>5. /\ \A k \in Items(notifier.subtrees) : Visible(Main, k)
        /\ \A k \in notifier.sealing : Visible(Main, k)
    BY <1>4 DEF Recorded, Items
  <1>6. Doomed(E)
    BY <1>1, <1>2, <1>3, <1>5 DEF Doomed, Closed
  <1> QED BY <1>2, <1>6

\* A step that is none of Main's.
LEMMA OthersLeft ==
    ASSUME Steps, notifier' = notifier, current' = current, lineage' = lineage,
           pend' = pend, op'[Main] = op[Main],
           txn'[Main].root = txn[Main].root,
           \A k \in Nodes : Visible(Main, k) =>
              Same(heap, heap', k) /\ (heap[k].val # NoVal => KeepsValue(k))
    PROVE  LInv'
  <1>1. PICK T : MainTree(T)
    BY DEF Steps, NInv
  <1>2. PICK d : Live(heap, MainOp, MainRoot, T, d)
    BY <1>1 DEF MainTree
  <1>3. /\ T \subseteq Nodes /\ \A k \in T : Visible(Main, k)
        /\ MainOp \in OpType
    BY <1>1, MainTreeNodes DEF Steps
  <1>4. /\ Len(heap) \in Nat /\ Len(heap') \in Nat /\ Len(heap) <= Len(heap')
        /\ Nodes = 1..Len(heap) /\ Nodes \subseteq Nodes'
    BY MainAssumption, Facts, FactsNext DEF Steps, Nodes
  <1>5. MainTree(T)'
    <2>1. Live(heap', MainOp, MainRoot, T, d)
      BY <1>2, <1>3, <1>4, LiveSame
    <2>2. MainTree(T)' <=> \E c : Live(heap', MainOp', MainRoot', T, c)
      BY DEF MainTree
    <2>3. MainOp' = MainOp /\ MainRoot' = MainRoot
      BY DEF MainOp, MainRoot
    <2> QED BY <2>1, <2>2, <2>3
  <1>6. Goes(T, T)
    BY <1>1, <1>5, WasKept DEF Goes
  <1>7. PICK E : Doomed(E) /\ \A k \in E : Visible(Main, k)
    BY VisibleDoomed DEF Steps
  <1>8. E \subseteq Nodes
    BY <1>7 DEF Doomed
  <1>9. ASSUME NEW n, Cov(n) PROVE Cov(n)'
    <2> DEFINE X == {}
    <2>1. /\ X \subseteq E
          /\ Items(notifier.subtrees) \cup notifier.sealing \subseteq
                Items(notifier'.subtrees) \cup notifier'.sealing \cup X
          /\ \A k \in X, b \in Byte : heap[k].kids[b] # Nil =>
                heap[k].kids[b] \in Items(notifier'.subtrees) \cup notifier'.sealing
      OBVIOUS
    <2> HIDE DEF X
    <2>2. \A k \in E : heap'[k].kids = heap[k].kids
      BY <1>7, <1>8 DEF Same
    <2>3. n \in X \/ Cov(n)'
      BY <1>4, <1>7, <1>9, <2>1, <2>2, CovKept
    <2> QED BY <2>3 DEF X
  <1>10. NodesTold(T, T)
    BY <1>9 DEF NodesTold
  <1>11. ASSUME NEW y, Due(y) PROVE Due(y)' /\ Visible(Main, y)
    <2>1. Due(y)'
      BY <1>4, <1>9, <1>11 DEF Due
    <2>2. ASSUME y \in Items(notifier.values) PROVE Frozen(y)
      BY <2>2 DEF Steps, IInv, Ownership, RecordedIsFrozen, Recorded, Items
    <2>3. Cov(y) => y \in E
      BY <1>7 DEF Cov
    <2> QED BY <1>7, <1>11, <2>1, <2>2, <2>3 DEF Due, Frozen, Visible
  <1>12. ValuesTold(T, T)
    <2>1. ASSUME NEW y \in T, heap[y].val # NoVal PROVE ValueTold(y, T)
      BY <1>3, <2>1 DEF ValueTold, KeepsValue
    <2>2. ASSUME NEW y, Due(y), heap[y].val # NoVal PROVE KeepsValue(y) /\ Due(y)'
      BY <1>11, <2>2 DEF Due
    <2> QED BY <2>1, <2>2 DEF ValuesTold
  <1>13. LeftNodes' /\ LeftValues'
    BY <1>6, <1>10, <1>12, LeftNodesStep, LeftValuesStep
  <1>14. LeftBefore'
    BY LeftBeforeKept
  <1>15. NothingLeft'
    BY DEF Steps, LInv, NothingLeft
  <1> QED BY <1>13, <1>14, <1>15 DEF LInv

\* A writer's step leaves the values of nodes that are not its own, and their
\* leaves.
LEMMA OtherHolds ==
    ASSUME IInv, VInv, NEW w \in Writer, Spares(w), NEW x, NEW z,
           ValsTo(w, heap', x, z), Given(w, z), NEW k \in Nodes, ~Mine(w, k),
           heap[k].val # NoVal
    PROVE  KeepsValue(k)
  <1>1. heap'[k].val = heap[k].val
    BY DEF Spares, Same, Like
  <1>2. k # z
    <2>1. k # Nil
      BY DEF Nodes, Nil
    <2>2. op[w].pc \in InsertPc => heap[k].val # op[w].val
      BY DEF VInv, FreshValues
    <2> QED BY <1>1, <2>1, <2>2 DEF Given
  <1> QED BY <1>1, <1>2 DEF ValsTo, KeepsValue

\* A writing step of another writer.
LEMMA OtherNodes ==
    ASSUME IInv, SInv, NInv, VInv, LInv, Next, NEW w \in Writer, w # Main,
           Spares(w), NEW s, Slots(s), NEW x, NEW z, ValsTo(w, heap', x, z),
           Given(w, z), notifier' = notifier, current' = current,
           lineage' = lineage, pend' = pend
    PROVE  LInv'
  <1>1. Steps
    BY SlotSteps
  <1>2. op'[Main] = op[Main] /\ txn'[Main].root = txn[Main].root
    BY MainAssumption DEF Spares
  <1>3. \A k \in Nodes : Visible(Main, k) =>
           Same(heap, heap', k) /\ (heap[k].val # NoVal => KeepsValue(k))
    BY OtherHolds DEF Spares, Visible
  <1> QED BY <1>1, <1>2, <1>3, OthersLeft

\* Another writer begins or ends a transaction, or starts a call.
LEMMA OtherBeginLeft ==
    ASSUME IInv, SInv, NInv, VInv, LInv, Next, NEW w \in Writer, w # Main,
           Begin(w)
    PROVE  LInv'
  <1>1. /\ heap' = heap /\ leaves' = leaves /\ notifier' = notifier
        /\ current' = current /\ lineage' = lineage /\ pend' = pend
        /\ op'[Main] = op[Main] /\ txn'[Main].root = txn[Main].root
    <2>1. op \in [Writer -> OpType] /\ txn \in [Writer -> [root : Ref, epoch : Nat]]
      BY MainAssumption, Facts
    <2>2. CASE \E root \in trees : Txn(w, root)
      BY <2>1, <2>2, MainAssumption DEF Txn, mem, pub
    <2>3. CASE Freeze(w)
      BY <2>1, <2>3, MainAssumption DEF Freeze, mem
    <2>4. CASE Commit(w)
      BY <2>1, <2>4, MainAssumption DEF Commit, mem
    <2>5. CASE Abort(w)
      BY <2>1, <2>5, MainAssumption DEF Abort, mem
    <2>6. ASSUME NEW k \in Key, Insert(w, k) \/ Delete(w, k) \/ DeletePrefix(w, k)
          PROVE  /\ heap' = heap /\ leaves' = leaves /\ notifier' = notifier
                 /\ current' = current /\ lineage' = lineage /\ pend' = pend
                 /\ op'[Main] = op[Main] /\ txn'[Main].root = txn[Main].root
      BY <2>1, <2>6, MainAssumption
         DEF Insert, Delete, DeletePrefix, Goto, begin, mem, pub
    <2> QED BY <2>2, <2>3, <2>4, <2>5, <2>6 DEF Begin
  <1>2. Steps
    <2>1. Slots(Nil)
      BY <1>1, SlotsStill
    <2> QED BY <2>1, SlotSteps
  <1>3. \A k \in Nodes : Same(heap, heap', k) /\ KeepsValue(k)
    BY <1>1 DEF Same, Like, KeepsValue
  <1> QED BY <1>1, <1>2, <1>3, OthersLeft

\* The step of a call writes no published root.
LEMMA StepPub ==
    ASSUME NEW w, Step(w)
    PROVE  current' = current /\ lineage' = lineage /\ pend' = pend
  BY DEF Step, InsertStep, DeleteStep, InsertValue, InsertOwn, InsertHang,
         InsertDown, InsertSplitCopy, InsertSplit, FindDown, FindMiss, FindHit,
         DeleteRoot, DeleteLeaf, DeleteInner, DeleteAll, DeleteSubtree,
         OwnPath, Cut, Pull, Fold, Clear, Rest, pub

\* A step of another writer's call.
LEMMA OtherStepLeft ==
    ASSUME IInv, SInv, NInv, VInv, LInv, Next, NEW w \in Writer, w # Main,
           Step(w)
    PROVE  LInv'
  <1>1. current' = current /\ lineage' = lineage /\ pend' = pend
    BY StepPub
  <1>2. ASSUME Moved(w), NEW s, Slots(s), NEW x, NEW z, ValsTo(w, heap', x, z),
               Given(w, z), notifier' = notifier
        PROVE  LInv'
    BY <1>1, <1>2, OtherNodes DEF Moved
  <1>3. ASSUME Moved(w), heap' = heap, leaves' = leaves, notifier' = notifier
        PROVE  LInv'
    <2>1. Slots(Nil)
      BY <1>3, SlotsStill
    <2>2. ValsTo(w, heap', Nil, Nil)
      BY <1>3, ValsBase
    <2> QED BY <1>2, <1>3, <2>1, <2>2 DEF Given
  <1>4. ASSUME NEW n, NEW extra, own(w, n, extra)
        PROVE  notifier' = notifier
    BY <1>4, Untracked DEF own, ownKeep, ownGrow, ownCopy
  <1>5. ASSUME NEW n, NEW v, NEW bit, ownValueless(w, n, v, bit)
        PROVE  notifier' = notifier
    BY <1>5, Untracked DEF ownValueless
  <1>6. ASSUME NEW n, NEW c, NEW nf, nf = notifier, mergeChild(w, nf, n, c)
        PROVE  notifier' = notifier
    BY <1>6, Untracked DEF mergeChild
  <1>7. CASE InsertValue(w)
    <2>1. notifier' = notifier
      BY <1>5, <1>7 DEF InsertValue
    <2>2. PICK z : ValsTo(w, heap', op[w].n, z) /\ heap'[z].val = op[w].val
      BY <1>7, ValsInsertValue
    <2>3. Given(w, z)
      BY <1>7, <2>2 DEF Given, InsertValue, At, InsertPc
    <2> QED BY <1>2, <1>7, <2>1, <2>2, <2>3, InsertValueMoves, SlotsInsertValue
  <1>8. CASE InsertOwn(w)
    <2>1. PICK extra : extra \in {0, 1} /\ own(w, op[w].n, extra)
      BY <1>8 DEF InsertOwn
    <2>2. ValsTo(w, heap', op[w].n, Nil)
      BY <1>8, <2>1, SlotsInsertOwn, ValsOwn
    <2>3. notifier' = notifier
      BY <1>4, <2>1
    <2>4. Given(w, Nil)
      BY DEF Given
    <2> QED BY <1>2, <1>8, <2>2, <2>3, <2>4, InsertOwnMoves, SlotsInsertOwn
  <1>9. CASE InsertHang(w)
    <2>1. ValsTo(w, heap', Nil, New) /\ heap'[New].val = op[w].val
      BY <1>9, ValsInsertHang
    <2>2. Given(w, New)
      BY <1>9, <2>1 DEF Given, InsertHang, At, InsertPc
    <2>3. notifier' = notifier /\ Slots(Nil)
      BY <1>9, SlotsInsertHang DEF InsertHang
    <2> QED BY <1>2, <1>9, <2>1, <2>2, <2>3, InsertHangMoves
  <1>10. CASE InsertDown(w)
    BY <1>3, <1>10, InsertDownMoves DEF InsertDown, mem
  <1>11. CASE InsertSplitCopy(w)
    <2> DEFINE c == Kid(op[w].n, Head(op[w].search))
    <2>1. notifier' = notifier
      BY <1>11, Untracked DEF InsertSplitCopy
    <2>2. ValsTo(w, heap', c, Nil) /\ Slots(c)
      BY <1>11, ValsInsertSplitCopy, SlotsInsertSplitCopy
    <2> HIDE DEF c
    <2>3. Given(w, Nil)
      BY DEF Given
    <2> QED BY <1>2, <1>11, <2>1, <2>2, <2>3, InsertSplitCopyMoves
  <1>12. CASE InsertSplit(w)
    <2>1. PICK z : ValsTo(w, heap', Nil, z) /\ heap'[z].val = op[w].val
      BY <1>12, ValsInsertSplit
    <2>2. Given(w, z)
      BY <1>12, <2>1 DEF Given, InsertSplit, At, InsertPc
    <2>3. notifier' = notifier /\ Slots(Nil)
      BY <1>12, SlotsInsertSplit DEF InsertSplit
    <2> QED BY <1>2, <1>12, <2>1, <2>2, <2>3, InsertSplitMoves
  <1>13. CASE FindDown(w) \/ FindMiss(w) \/ FindHit(w)
    <2>1. heap' = heap /\ leaves' = leaves /\ notifier' = notifier
      BY <1>13 DEF FindDown, FindMiss, FindHit, mem
    <2> QED BY <1>3, <1>13, <2>1, FindDownMoves, FindMissMoves, FindHitMoves
  <1>14. CASE DeleteRoot(w) \/ DeleteLeaf(w) \/ DeleteInner(w)
              \/ DeleteSubtree(w)
    <2>1. heap' = heap /\ leaves' = leaves /\ notifier' = notifier
      BY <1>14, Untracked
         DEF DeleteRoot, DeleteLeaf, DeleteInner, DeleteSubtree, mem
    <2> QED BY <1>3, <1>14, <2>1, DeleteRootMoves, DeleteLeafMoves,
               DeleteInnerMoves
  <1>15. CASE DeleteAll(w)
    <2>1. notifier' = notifier /\ Slots(Nil)
      BY <1>15, Untracked, SlotsDeleteAll DEF DeleteAll
    <2>2. ValsTo(w, heap', Nil, Nil) /\ Given(w, Nil)
      BY <1>15, ValsDeleteAll DEF Given
    <2> QED BY <1>2, <1>15, <2>1, <2>2, DeleteAllMoves
  <1>16. CASE OwnPath(w)
    <2>1. notifier' = notifier
      BY <1>4, <1>16, SlotsOwnPath
    <2>2. ValsTo(w, heap', op[w].path[1].n, Nil) /\ Given(w, Nil)
      BY <1>16, SlotsOwnPath, ValsOwn DEF Given
    <2> QED BY <1>2, <1>16, <2>1, <2>2, OwnPathMoves, SlotsOwnPath
  <1>17. CASE Cut(w)
    <2>1. notifier' = notifier /\ Slots(Nil)
      BY <1>17, SlotsCut DEF Cut
    <2>2. ValsTo(w, heap', Nil, Nil) /\ Given(w, Nil)
      BY <1>17, ValsCut DEF Given
    <2> QED BY <1>2, <1>17, <2>1, <2>2, CutMoves
  <1>18. CASE Clear(w)
    <2>1. notifier' = notifier
      BY <1>5, <1>18, SlotsClear
    <2>2. PICK z : ValsTo(w, heap', op[w].m, z) /\ heap'[z].val = NoVal
      BY <1>18, SlotsClear, ValsValueless DEF NoVal
    <2>3. Given(w, z)
      BY <2>2 DEF Given
    <2> QED BY <1>2, <1>18, <2>1, <2>2, <2>3, ClearMoves, SlotsClear
  <1>19. ASSUME NEW n, NEW c, NEW nf, nf = notifier, Merges(w, n, c),
                mergeChild(w, nf, n, c), op[w].parent # Nil, Moved(w)
         PROVE  LInv'
    <2>1. PICK T, d : /\ Live(heap, op[w], txn[w].root, T, d) /\ n \in T
                      /\ c \in T
      BY <1>19 DEF Merges, Turns
    <2>2. txn[w].root # Nil
      BY <2>1 DEF Live, RadixTree, IsTree, Nil
    <2>3. n \in Nodes /\ c \in Nodes
      BY <2>1, <2>2, LiveNodes
    <2>4. Slots(c) /\ ValsTo(w, heap', c, Nil) /\ Given(w, Nil)
      BY <1>19, <2>3, SlotsMerge, ValsMerge DEF Given
    <2> QED BY <1>2, <1>6, <1>19, <2>4
  <1>20. CASE Pull(w)
    <2>1. op[w].parent # Nil
      BY <1>20, Facts DEF Pull, At, CallAt
    <2>2. dropReplaced(w, notifier, op[w].path[1].n) = notifier
      BY Untracked
    <2> QED BY <1>19, <1>20, <2>1, <2>2, PullMoves
  <1>21. CASE Fold(w)
    <2>1. op[w].parent # Nil
      BY <1>21, Facts DEF Fold, At, CallAt
    <2>2. dropWithLeaf(w, notifier, op[w].m) = notifier
      BY Untracked
    <2> QED BY <1>19, <1>21, <2>1, <2>2, FoldMoves
  <1> QED BY <1>7, <1>8, <1>9, <1>10, <1>11, <1>12, <1>13, <1>14, <1>15, <1>16,
             <1>17, <1>18, <1>20, <1>21 DEF Step, InsertStep, DeleteStep

\* A reader's step.
LEMMA ReadLeft ==
    ASSUME IInv, SInv, NInv, VInv, LInv, Next, NEW r \in Reader,
           \/ Read(r)
           \/ \E kind \in {"key", "prefix"}, t \in trees, k \in Key :
                 ReadStart(r, kind, t, k)
    PROVE  LInv'
  <1>1. /\ notifier' = notifier /\ current' = current /\ lineage' = lineage
        /\ pend' = pend /\ op'[Main] = op[Main]
        /\ txn'[Main].root = txn[Main].root
    BY DEF Read, ReadStart, ReadDown, ReadEnd, SlotChan, ValueChan, ReaderRest,
           pub
  <1>2. SameVals
    BY ReadKeeps
  <1>3. \A k \in Nodes : Same(heap, heap', k) /\ KeepsValue(k)
    BY <1>2 DEF SameVals, AllSame, Nodes, KeepsValue, Same, Like
  <1>4. Steps
    <2>1. CASE SlotChan(r) \/ ValueChan(r)
      BY <2>1, SlotsSlotChan, SlotsValueChan, SlotSteps
    <2>2. CASE ~(SlotChan(r) \/ ValueChan(r))
      <3>1. heap' = heap /\ leaves' = leaves
        BY <2>2 DEF Read, ReadStart, ReadDown, ReadEnd, mem
      <3> QED BY <3>1, SlotsStill, SlotSteps
    <2> QED BY <2>1, <2>2
  <1> QED BY <1>1, <1>3, <1>4, OthersLeft

-----------------------------------------------------------------------------
(* What a call of Main records                                              *)

\* Nothing that nf holds is missing from ng.
Grows(nf, ng) ==
    /\ Lists(ng) /\ ng.sealing = nf.sealing
    /\ Items(nf.nodes) \subseteq Items(ng.nodes)
    /\ Items(nf.leaves) \subseteq Items(ng.leaves)
    /\ Items(nf.values) \subseteq Items(ng.values)
    /\ Items(nf.subtrees) \subseteq Items(ng.subtrees)

\* Nothing is missing from the Notifier itself.
LEMMA GrowsNot ==
    ASSUME NEW nf, Lists(nf)
    PROVE  Grows(nf, nf)
  BY DEF Grows

\* Nothing is missing after two records.
LEMMA GrowsThen ==
    ASSUME NEW nf, NEW ng, NEW nh, Grows(nf, ng), Grows(ng, nh)
    PROVE  Grows(nf, nh)
  BY DEF Grows

\* What is recorded is in the list afterwards.
LEMMA GrowsOne ==
    ASSUME NEW nf, Lists(nf), NEW e \in Nat
    PROVE  /\ Grows(nf, dropNode(Main, nf, e))
           /\ e \in Items(dropNode(Main, nf, e).nodes)
           /\ Grows(nf, dropValue(Main, nf, e))
           /\ e \in Items(dropValue(Main, nf, e).values)
           /\ Grows(nf, dropLeaf(Main, nf, e))
           /\ e \in Items(dropLeaf(Main, nf, e).leaves)
           /\ Grows(nf, dropSubtree(Main, nf, e))
           /\ e \in Items(dropSubtree(Main, nf, e).subtrees)
  <1>1. /\ nf.nodes \in Seq(Nat) /\ nf.values \in Seq(Nat)
        /\ nf.leaves \in Seq(Nat) /\ nf.subtrees \in Seq(Nat)
        /\ nf \in [nodes : Seq(Nat), leaves : Seq(Nat), values : Seq(Nat),
                   subtrees : Seq(Nat), sealing : SUBSET Nat]
    BY DEF Lists
  <1>2. \A s \in Seq(Nat) : /\ Append(s, e) \in Seq(Nat)
                            /\ Items(Append(s, e)) = Items(s) \cup {e}
    BY AppendItems
  <1>3. ASSUME NEW s \in Seq(Nat)
        PROVE  /\ Items(s) \subseteq Items(Append(s, e))
               /\ e \in Items(Append(s, e))
    BY <1>2
  <1> QED BY <1>1, <1>2, <1>3
       DEF Grows, Lists, dropNode, dropValue, dropLeaf, dropSubtree

\* dropReplaced records a node that the transaction does not own.
LEMMA GrowsReplaced ==
    ASSUME NEW nf, Lists(nf), NEW n \in Nat
    PROVE  /\ Grows(nf, dropReplaced(Main, nf, n))
           /\ ~Owns(Main, n) => n \in Items(dropReplaced(Main, nf, n).nodes)
  BY GrowsNot, GrowsOne DEF dropReplaced

\* The value of n is recorded in ng, or its leaf is.
Released(n, ng) ==
    IF Owns(Main, n) THEN heap[n].leaf # Nil => heap[n].leaf \in Items(ng.leaves)
                     ELSE n \in Items(ng.values)

\* releaseValue records the value of n, or its leaf.
LEMMA GrowsReleased ==
    ASSUME IInv, txn[Main].epoch # 0, NEW nf, Lists(nf), NEW n \in Nodes
    PROVE  /\ Grows(nf, releaseValue(Main, nf, n))
           /\ Released(n, releaseValue(Main, nf, n))
  <1>1. n \in Nat /\ heap[n] \in NodeType /\ heap[n].leaf \in Nat
    BY MainAssumption, Facts DEF NodeType
  <1>2. heap[n].lob \in {0, 1}
    BY <1>1 DEF NodeType
  <1>3. Owns(Main, n) /\ heap[n].lob # 0 => heap[n].leaf = Nil
    BY <1>2, MainAssumption DEF IInv, Ownership, LeafOnCopies, Mine, Owns
  <1> QED BY <1>1, <1>3, GrowsNot, GrowsOne DEF releaseValue, Released

\* It stays recorded.
LEMMA ReleasedStays ==
    ASSUME NEW n, NEW ng, NEW nh, Released(n, ng), Grows(ng, nh)
    PROVE  Released(n, nh)
  BY DEF Released, Grows

\* dropWithLeaf records the value, and a node that the transaction does not own.
LEMMA GrowsWithLeaf ==
    ASSUME IInv, txn[Main].epoch # 0, NEW nf, Lists(nf), NEW n \in Nodes
    PROVE  /\ Grows(nf, dropWithLeaf(Main, nf, n))
           /\ Released(n, dropWithLeaf(Main, nf, n))
           /\ ~Owns(Main, n) => n \in Items(dropWithLeaf(Main, nf, n).nodes)
  <1> DEFINE ng == releaseValue(Main, nf, n)
  <1>1. Grows(nf, ng) /\ Released(n, ng)
    BY GrowsReleased
  <1>2. n \in Nat /\ Lists(ng)
    BY <1>1, MainAssumption, Facts DEF Grows
  <1>3. dropWithLeaf(Main, nf, n) = dropReplaced(Main, ng, n)
    BY DEF dropWithLeaf
  <1> HIDE DEF ng
  <1>4. /\ Grows(ng, dropReplaced(Main, ng, n))
        /\ ~Owns(Main, n) => n \in Items(dropReplaced(Main, ng, n).nodes)
    BY <1>2, GrowsReplaced
  <1>5. Released(n, dropReplaced(Main, ng, n))
    BY <1>1, <1>4, ReleasedStays
  <1> QED BY <1>1, <1>3, <1>4, <1>5, GrowsThen

\* own records what it replaces, and the copy has the value.
LEMMA OwnGrows ==
    ASSUME IInv, NEW n \in Nodes, NEW extra \in {0, 1}, own(Main, n, extra),
           Lists(notifier)
    PROVE  /\ Grows(notifier, notifier')
           /\ ~Owns(Main, n) => n \in Items(notifier'.nodes)
           /\ \/ heap' = heap /\ Owns(Main, n)
              \/ Len(heap') = New /\ heap'[New].val = heap[n].val
  <1>1. n \in Nat /\ Len(heap) \in Nat
    BY MainAssumption, Facts
  <1>2. heap' = heap \/ (Len(heap') = New /\ heap'[New].val = heap[n].val)
    <2>1. \/ heap' = heap
          \/ PutNew(Main, n, heap[n].val, KidCount(n) + extra)
      BY MainAssumption, OwnEffect
    <2>2. ASSUME PutNew(Main, n, heap[n].val, KidCount(n) + extra)
          PROVE  Len(heap') = New /\ heap'[New].val = heap[n].val
      BY <2>2 DEF PutNew
    <2> QED BY <2>1, <2>2
  <1>3. CASE ownKeep(Main, n, extra)
    BY <1>3, GrowsNot DEF ownKeep, ownFits
  <1>4. CASE ownGrow(Main, n, extra)
    <2>1. Owns(Main, n) /\ notifier' = notifier
      BY <1>4 DEF ownGrow
    <2> QED BY <1>2, <2>1, GrowsNot
  <1>5. CASE ownCopy(Main, n, extra)
    <2>1. ~Owns(Main, n) /\ notifier' = dropNode(Main, notifier, n)
      BY <1>5 DEF ownCopy
    <2>2. heap' # heap
      <3>1. ownResult(Main, n, extra) # n
        BY <1>1, <2>1, MainAssumption, Facts DEF ownResult, ownFits, New, Nodes
      <3>2. PutNew(Main, n, heap[n].val, KidCount(n) + extra)
        BY <3>1, MainAssumption, OwnEffect
      <3> QED BY <1>1, <3>2 DEF PutNew, New
    <2> QED BY <1>1, <1>2, <2>1, <2>2, GrowsOne
  <1> QED BY <1>3, <1>4, <1>5 DEF own

\* ownValueless does, and records the value.
LEMMA ValuelessGrows ==
    ASSUME IInv, txn[Main].epoch # 0, NEW n \in Nodes, NEW v \in Nat,
           NEW bit \in {0, 1}, ownValueless(Main, n, v, bit), Lists(notifier)
    PROVE  /\ Grows(notifier, notifier')
           /\ ~Owns(Main, n) => n \in Items(notifier'.nodes)
           /\ heap[n].val # NoVal => Released(n, notifier')
           /\ IF Owns(Main, n) THEN Len(heap') = Len(heap)
                               ELSE Len(heap') = New
  <1> DEFINE nf == IF heap[n].val = NoVal THEN notifier
                                          ELSE releaseValue(Main, notifier, n)
  <1>1. n \in Nat
    BY MainAssumption, Facts
  <1>2. \/ Owns(Main, n) /\ notifier' = nf /\ Len(heap') = Len(heap)
        \/ /\ ~Owns(Main, n) /\ notifier' = dropNode(Main, nf, n)
           /\ Len(heap') = New
    BY MainAssumption, ValuelessEffect DEF PutNew
  <1>3. /\ Grows(notifier, nf)
        /\ heap[n].val # NoVal => Released(n, nf)
    BY GrowsNot, GrowsReleased
  <1> HIDE DEF nf
  <1>4. /\ Grows(nf, dropNode(Main, nf, n))
        /\ n \in Items(dropNode(Main, nf, n).nodes)
    BY <1>1, <1>3, GrowsOne DEF Grows
  <1> QED BY <1>2, <1>3, <1>4, GrowsThen, ReleasedStays

-----------------------------------------------------------------------------
(* A step of a call of Main that writes                                     *)

\* The value of y is still in the tree, or is recorded.
Counted(y, S, z) ==
    \/ y \in S /\ y # z
    \/ \E m \in S : heap'[m].val = heap[y].val
    \/ y # z /\ Due(y)'
    \/ /\ Owns(Main, y)
       /\ heap[y].leaf # Nil => heap[y].leaf \in Items(notifier'.leaves)

\* What holds in a step of Main's call that writes.
Calling == /\ IInv /\ SInv /\ NInv /\ VInv /\ LInv /\ Next /\ InCall
           /\ Moved(Main) /\ current' = current /\ lineage' = lineage
           /\ pend' = pend

\* The tree T of Main's call becomes S, and what goes is recorded.
LEMMA LeftTurn ==
    ASSUME Calling, NEW T, NEW S, Turns(Main, T, S), NEW s, Slots(s), NEW x,
           NEW z, ValsTo(Main, heap', x, z), z \notin Nodes \ T,
           Grows(notifier, notifier'),
           \A n \in T \ S : \/ Owns(Main, n) \/ n \in Items(notifier'.nodes)
                            \/ Cov(n)',
           \A y \in T : heap[y].val # NoVal => Counted(y, S, z)
    PROVE  LInv'
  <1>1. Steps
    BY SlotSteps DEF Calling
  <1>2. /\ txn[Main].root # Nil /\ txn[Main].epoch # 0 /\ IInv /\ NInv
    BY DEF Calling, InCall
  <1>3. PICK d : Live(heap, op[Main], txn[Main].root, T, d)
    BY DEF Turns
  <1>4. PICK e : Live(heap', op'[Main], txn'[Main].root, S, e)
    BY DEF Turns
  <1>5. txn'[Main].root # Nil
    BY <1>4 DEF Live, RadixTree, IsTree, Nil
  <1>6. MainTree(T)
    BY <1>2, <1>3 DEF MainTree, MainOp, MainRoot
  <1>7. MainTree(S)'
    <2>1. MainTree(S)' <=>
             \E c : Live(heap', IF txn'[Main].root = Nil THEN IdleOp ELSE op'[Main],
                         IF txn'[Main].root = Nil THEN current'
                                                  ELSE txn'[Main].root, S, c)
      BY DEF MainTree, MainOp, MainRoot
    <2> QED BY <1>4, <1>5, <2>1
  <1>8. PICK D : Doomed(D) /\ Apart(T, D)
    BY <1>2, <1>3, MainFacts
  <1>9. /\ D \subseteq Nodes /\ T \subseteq Nodes /\ D \cap T = {}
        /\ Len(heap) <= Len(heap') /\ Nodes \subseteq Nodes'
    <2>1. T \subseteq Nodes
      BY <1>2, <1>3, MainFacts
    <2>2. /\ Len(heap) \in Nat /\ Len(heap') \in Nat /\ Len(heap) <= Len(heap')
      BY <1>1, MainAssumption, Facts, FactsNext DEF Steps
    <2> QED BY <1>8, <2>1, <2>2 DEF Doomed, Apart, Nodes
  <1>10. ASSUME NEW n, Cov(n) PROVE Cov(n)' /\ n \in D
    <2> DEFINE X == {}
    <2>1. /\ X \subseteq D
          /\ \A k \in X, b \in Byte : heap[k].kids[b] # Nil =>
                heap[k].kids[b] \in Items(notifier'.subtrees) \cup notifier'.sealing
      OBVIOUS
    <2>2. Items(notifier.subtrees) \cup notifier.sealing \subseteq
                Items(notifier'.subtrees) \cup notifier'.sealing \cup X
      BY DEF Grows
    <2> HIDE DEF X
    <2>3. \A k \in D : heap'[k].kids = heap[k].kids
      BY <1>9 DEF Turns
    <2>4. n \in X \/ Cov(n)'
      BY <1>8, <1>9, <1>10, <2>1, <2>2, <2>3, CovKept
    <2> QED BY <1>8, <1>10, <2>4 DEF X, Cov
  <1>11. \A n : Was(n)' => Was(n)
    BY <1>1, WasKept DEF Calling
  <1>12. Goes(T, S)
    BY <1>6, <1>7, <1>11 DEF Goes
  <1>13. ASSUME NEW n, Was(n) PROVE ~Owns(Main, n)
    BY <1>1, <1>2, <1>13, WasHolds, MainAssumption DEF Frozen, Mine, Owns
  <1>14. NodesTold(T, S)
    <2>1. ASSUME NEW n, n \in Items(notifier.nodes) \/ Cov(n)
          PROVE  n \in Items(notifier'.nodes) \/ Cov(n)'
      BY <1>10, <2>1 DEF Grows
    <2> QED BY <1>13, <2>1 DEF NodesTold
  <1>15. ASSUME NEW y \in Nodes, y # z PROVE KeepsValue(y)
    BY <1>15 DEF ValsTo, KeepsValue
  <1>16. ASSUME NEW y, Due(y) PROVE Due(y)' /\ KeepsValue(y)
    <2>1. Due(y)'
      BY <1>9, <1>10, <1>16 DEF Due, Grows
    <2>2. y \notin T
      BY <1>8, <1>10, <1>16 DEF Due, Apart
    <2>3. y \in Nodes
      BY <1>16 DEF Due
    <2> QED BY <1>15, <2>1, <2>2, <2>3
  <1>17. ASSUME NEW y \in T, heap[y].val # NoVal PROVE ValueTold(y, S)
    <2>1. Counted(y, S, z) /\ y \in Nodes
      BY <1>9, <1>17
    <2>2. CASE y \in S /\ y # z
      BY <1>15, <2>1, <2>2 DEF ValueTold, KeepsValue
    <2>3. CASE y # z /\ Due(y)'
      BY <1>15, <2>1, <2>3 DEF ValueTold
    <2>4. Owns(Main, y) => Mine(Main, y)
      BY <1>2 DEF Owns, Mine
    <2> QED BY <2>1, <2>2, <2>3, <2>4 DEF Counted, ValueTold
  <1>18. ValuesTold(T, S)
    BY <1>16, <1>17 DEF ValuesTold, Grows
  <1>19. LeftNodes' /\ LeftValues'
    BY <1>1, <1>12, <1>14, <1>18, LeftNodesStep, LeftValuesStep
  <1>20. LeftBefore'
    BY <1>1, <1>2, LeftBeforeKept DEF Calling
  <1>21. NothingLeft'
    BY <1>5 DEF NothingLeft
  <1> QED BY <1>19, <1>20, <1>21 DEF LInv

\* A value that is released is counted.
LEMMA ReleasedCounts ==
    ASSUME Calling, NEW y \in Nodes, Released(y, notifier'), NEW S, NEW z,
           ~Owns(Main, y) => y # z
    PROVE  Counted(y, S, z)
  <1>1. Len(heap) \in Nat /\ Len(heap') \in Nat /\ Len(heap) <= Len(heap')
    BY MainAssumption, Facts, FactsNext DEF Calling, InCall, Moved, Spares
  <1>2. y \in Nodes'
    BY <1>1 DEF Nodes
  <1>3. y \in Items(notifier'.values) => Due(y)'
    BY <1>2 DEF Due
  <1> QED BY <1>3 DEF Released, Counted

\* Node n of the tree is replaced at most, and its value stays or is released.
LEMMA SwapLeft ==
    ASSUME Calling, NEW n, Swaps(Main, n), NEW s, Slots(s), NEW x, NEW z,
           ValsTo(Main, heap', x, z), z \in {Nil, n, New},
           Grows(notifier, notifier'),
           Len(heap') = Len(heap) \/ Len(heap') = New,
           Len(heap') = New => Owns(Main, n) \/ n \in Items(notifier'.nodes),
           heap[n].val # NoVal =>
              \/ Len(heap') = Len(heap) /\ z # n
              \/ Len(heap') = New /\ heap'[New].val = heap[n].val
              \/ Released(n, notifier') /\ (~Owns(Main, n) => z # n)
    PROVE  LInv'
  <1>1. PICK T, S : /\ Turns(Main, T, S) /\ n \in T
                    /\ S = IF Len(heap') = Len(heap) THEN T
                           ELSE (T \ {n}) \cup {New}
    BY DEF Swaps
  <1>2. PICK d : Live(heap, op[Main], txn[Main].root, T, d)
    BY <1>1 DEF Turns
  <1>3. T \subseteq Nodes
    BY <1>2, MainFacts DEF Calling, InCall
  <1>4. Len(heap) \in Nat /\ New = Len(heap) + 1 /\ Nodes = 1..Len(heap)
    BY MainAssumption, Facts DEF Calling, New, Nodes
  <1>5. z \notin Nodes \ T
    BY <1>1, <1>4 DEF Nil
  <1>6. \A k \in T \ S : \/ Owns(Main, k) \/ k \in Items(notifier'.nodes)
                         \/ Cov(k)'
    BY <1>1, <1>4
  <1>7. ASSUME NEW y \in T, heap[y].val # NoVal PROVE Counted(y, S, z)
    <2>1. CASE y # n
      <3>1. y \in S /\ y # z
        BY <1>1, <1>3, <1>4, <2>1 DEF Nil
      <3> QED BY <3>1 DEF Counted
    <2>2. CASE y = n /\ Len(heap') = Len(heap) /\ z # n
      BY <1>1, <2>2 DEF Counted
    <2>3. CASE y = n /\ Len(heap') = New /\ heap'[New].val = heap[n].val
      BY <1>1, <1>4, <2>3 DEF Counted
    <2>4. CASE y = n /\ Released(n, notifier') /\ (~Owns(Main, n) => z # n)
      BY <1>3, <2>4, ReleasedCounts
    <2> QED BY <1>7, <2>1, <2>2, <2>3, <2>4
  <1> QED BY <1>1, <1>5, <1>6, <1>7, LeftTurn

\* The parts of Calling.
LEMMA CallsOn ==
    ASSUME IInv, SInv, NInv, VInv, LInv, Next, op[Main].pc \in WritePc,
           Step(Main), Moved(Main)
    PROVE  Calling /\ Lists(notifier)
  BY CallTurn, StepPub DEF Calling

\* A step that makes a node owned.
LEMMA OwnLeft ==
    ASSUME Calling, NEW n, Swaps(Main, n), NEW extra \in {0, 1},
           own(Main, n, extra)
    PROVE  LInv'
  <1>1. n \in Nodes /\ Lists(notifier) /\ IInv
    BY SwapNotYet DEF Calling
  <1>2. Slots(n) /\ ValsTo(Main, heap', n, Nil)
    BY <1>1, MainAssumption, SlotsOwn, ValsOwn
  <1>3. /\ Grows(notifier, notifier')
        /\ ~Owns(Main, n) => n \in Items(notifier'.nodes)
        /\ \/ heap' = heap /\ Owns(Main, n)
           \/ Len(heap') = New /\ heap'[New].val = heap[n].val
    BY <1>1, OwnGrows
  <1>4. n # Nil
    BY <1>1 DEF Nodes, Nil
  <1> QED BY <1>2, <1>3, <1>4, SwapLeft

\* A step that takes a node's value, or gives it another.
LEMMA ValuelessLeft ==
    ASSUME Calling, NEW n, Swaps(Main, n), NEW v \in Nat, NEW bit \in {0, 1},
           ownValueless(Main, n, v, bit)
    PROVE  LInv'
  <1>1. n \in Nodes /\ Lists(notifier) /\ IInv /\ txn[Main].epoch # 0
    BY SwapNotYet DEF Calling, InCall
  <1>2. Slots(n)
    BY <1>1, MainAssumption, SlotsValueless
  <1>3. PICK z \in {n, New} : ValsTo(Main, heap', n, z) /\ (z = n => Owns(Main, n))
    BY <1>1, MainAssumption, ValsValueless
  <1>4. /\ Grows(notifier, notifier')
        /\ ~Owns(Main, n) => n \in Items(notifier'.nodes)
        /\ heap[n].val # NoVal => Released(n, notifier')
        /\ Len(heap') = Len(heap) \/ Len(heap') = New
    BY <1>1, ValuelessGrows
  <1> QED BY <1>2, <1>3, <1>4, SwapLeft

\* InsertOwn.
LEMMA InsertOwnLeft ==
    ASSUME IInv, SInv, NInv, VInv, LInv, Next, InsertOwn(Main)
    PROVE  LInv'
  <1> DEFINE n == op[Main].n
             extra == IF Kid(n, Head(op[Main].search)) = Nil THEN 1 ELSE 0
  <1>1. Moved(Main) /\ Swaps(Main, n)
    BY MainAssumption, InsertOwnMoves
  <1>2. op[Main].pc \in WritePc /\ Step(Main)
    BY DEF InsertOwn, At, WritePc, InsertPc, GoalPc, Step, InsertStep
  <1>3. Calling
    BY <1>1, <1>2, CallsOn
  <1>4. own(Main, n, extra) /\ extra \in {0, 1}
    BY DEF InsertOwn
  <1> HIDE DEF n, extra
  <1> QED BY <1>1, <1>3, <1>4, OwnLeft

\* One level of ownPath.
LEMMA OwnPathLeft ==
    ASSUME IInv, SInv, NInv, VInv, LInv, Next, OwnPath(Main)
    PROVE  LInv'
  <1> DEFINE n == op[Main].path[1].n
  <1>1. Moved(Main) /\ Swaps(Main, n)
    BY MainAssumption, OwnPathMoves
  <1>2. op[Main].pc \in WritePc /\ Step(Main)
    BY DEF OwnPath, At, WritePc, InsertPc, GoalPc, Step, DeleteStep
  <1>3. Calling
    BY <1>1, <1>2, CallsOn
  <1>4. own(Main, n, 0)
    BY MainAssumption, SlotsOwnPath
  <1> HIDE DEF n
  <1> QED BY <1>1, <1>3, <1>4, OwnLeft

\* Delete's node loses its value.
LEMMA ClearLeft ==
    ASSUME IInv, SInv, NInv, VInv, LInv, Next, Clear(Main)
    PROVE  LInv'
  <1> DEFINE n == op[Main].m
  <1>1. Moved(Main) /\ Swaps(Main, n)
    BY MainAssumption, ClearMoves
  <1>2. op[Main].pc \in WritePc /\ Step(Main)
    BY DEF Clear, At, WritePc, InsertPc, GoalPc, Step, DeleteStep
  <1>3. Calling
    BY <1>1, <1>2, CallsOn
  <1>4. ownValueless(Main, n, NoVal, 0) /\ NoVal \in Nat
    BY MainAssumption, SlotsClear DEF NoVal
  <1> HIDE DEF n
  <1> QED BY <1>1, <1>3, <1>4, ValuelessLeft

\* A value stored over one that the transaction has stored itself is not
\* recorded: nobody has seen it.
LEMMA InsertValueLeft ==
    ASSUME IInv, SInv, NInv, VInv, LInv, Next, InsertValue(Main)
    PROVE  LInv'
  <1> DEFINE n == op[Main].n
             v == op[Main].val
  <1>1. Moved(Main) /\ Swaps(Main, n)
    BY MainAssumption, InsertValueMoves
  <1>2. op[Main].pc \in WritePc /\ Step(Main)
    BY DEF InsertValue, At, WritePc, InsertPc, GoalPc, Step, InsertStep
  <1>3. Calling /\ Lists(notifier)
    BY <1>1, <1>2, CallsOn
  <1>4. v \in Nat /\ n \in Nodes /\ Slots(n)
    BY <1>2, MainAssumption, SlotsInsertValue, Facts DEF OpType
  <1>5. CASE ownValueless(Main, n, v, 1)
    <2> HIDE DEF n, v
    <2> QED BY <1>1, <1>3, <1>4, <1>5, ValuelessLeft
  <1>6. CASE /\ heap[n].val # NoVal /\ Owns(Main, n) /\ heap[n].lob = 1
             /\ heap' = [heap EXCEPT ![n].val = v] /\ notifier' = notifier
    <2> DEFINE y == [heap[n] EXCEPT !.val = v]
    <2>1. /\ n \in 1..Len(heap) /\ heap[n] \in NodeType
          /\ heap \in Seq(NodeType) /\ txn[Main].epoch # 0
      BY <1>3, <1>4, MainAssumption, Facts DEF Nodes, Calling, InCall
    <2>2. y \in NodeType /\ heap' = [heap EXCEPT ![n] = y]
      BY <1>4, <1>6, <2>1 DEF NodeType
    <2> HIDE DEF y, n, v
    <2>3. ValsTo(Main, heap, n, n)
      BY ValsBase
    <2>4. ValsTo(Main, [heap EXCEPT ![n] = y], n, n)
      BY <2>1, <2>2, <2>3, ValsPut
    <2>5. ValsTo(Main, heap', n, n) /\ Len(heap') = Len(heap)
      BY <2>1, <2>2, <2>4
    <2>6. Mine(Main, n)
      BY <1>6, <2>1 DEF Mine, Owns
    <2>7. heap[n].leaf = Nil
      BY <1>4, <1>6, <2>6, MainAssumption DEF IInv, Ownership, LeafOnCopies
    <2>8. Released(n, notifier')
      BY <1>6, <2>7 DEF Released
    <2>9. Grows(notifier, notifier')
      BY <1>3, <1>6, GrowsNot
    <2>10. New # Len(heap)
      BY Facts, MainAssumption DEF New
    <2> QED BY <1>1, <1>3, <1>4, <1>6, <2>5, <2>8, <2>9, <2>10, SwapLeft
  <1> QED BY <1>5, <1>6 DEF InsertValue

\* The child that a split copies.
LEMMA InsertSplitCopyLeft ==
    ASSUME IInv, SInv, NInv, VInv, LInv, Next, InsertSplitCopy(Main)
    PROVE  LInv'
  <1> DEFINE n == Kid(op[Main].n, Head(op[Main].search))
  <1>1. Moved(Main) /\ Swaps(Main, n)
    BY MainAssumption, InsertSplitCopyMoves
  <1>2. op[Main].pc \in WritePc /\ Step(Main)
    BY DEF InsertSplitCopy, At, WritePc, InsertPc, GoalPc, Step, InsertStep
  <1>3. Calling /\ Lists(notifier)
    BY <1>1, <1>2, CallsOn
  <1>4. Slots(n) /\ n \in Nodes /\ ValsTo(Main, heap', n, Nil)
    BY MainAssumption, SlotsInsertSplitCopy, ValsInsertSplitCopy
  <1>5. /\ Grows(notifier, notifier')
        /\ Len(heap') = New => Owns(Main, n) \/ n \in Items(notifier'.nodes)
        /\ \/ Len(heap') = Len(heap)
           \/ Len(heap') = New /\ heap'[New].val = heap[n].val
    <2>1. CASE UNCHANGED <<mem, notifier>> /\ Owns(Main, n)
      BY <1>3, <2>1, GrowsNot DEF mem
    <2>2. CASE /\ heap' = Append(WithLeaf(Main, n), copyNode(Main, n, 0))
               /\ notifier' = dropNode(Main, notifier, n)
      <3> HIDE DEF n
      <3>1. 0 \in 0..(Cardinality(Byte) + 1)
        BY ByteAssumption, FS_CardinalityType
      <3>2. /\ copyNode(Main, n, 0) \in NodeType
            /\ copyNode(Main, n, 0).val = heap[n].val
        BY <1>4, <3>1, MainAssumption, CopyType
      <3>3. Len(WithLeaf(Main, n)) = Len(heap) /\ WithLeaf(Main, n) \in Seq(NodeType)
        BY <1>4, MainAssumption, ValsWithLeaf DEF ValsTo
      <3>4. Len(heap') = New /\ heap'[New].val = heap[n].val
        BY <2>2, <3>2, <3>3 DEF New
      <3>5. n \in Nat
        BY <1>4 DEF Nodes
      <3>6. Grows(notifier, notifier') /\ n \in Items(notifier'.nodes)
        BY <1>3, <2>2, <3>5, GrowsOne
      <3> QED BY <3>4, <3>6
    <2> QED BY <2>1, <2>2 DEF InsertSplitCopy
  <1>6. n # Nil
    BY <1>4 DEF Nodes, Nil
  <1> HIDE DEF n
  <1> QED BY <1>1, <1>3, <1>4, <1>5, <1>6, SwapLeft

\* Nothing is taken out of the tree or recorded.
LEMMA GrowLeft ==
    ASSUME Calling, notifier' = notifier, Slots(Nil), NEW T, NEW S,
           Turns(Main, T, S), T \subseteq S, NEW z,
           ValsTo(Main, heap', Nil, z), z \notin Nodes
    PROVE  LInv'
  <1>1. PICK d : Live(heap, op[Main], txn[Main].root, T, d)
    BY DEF Turns
  <1>2. T \subseteq Nodes
    BY <1>1, MainFacts DEF Calling, InCall
  <1>3. Lists(notifier)
    BY DEF Calling, IInv, TypeOK, NotifierOK, NotifierType, Lists
  <1>4. Grows(notifier, notifier')
    BY <1>3, GrowsNot
  <1>5. \A n \in T \ S : \/ Owns(Main, n) \/ n \in Items(notifier'.nodes)
                         \/ Cov(n)'
    OBVIOUS
  <1>6. \A y \in T : Counted(y, S, z)
    BY <1>2 DEF Counted
  <1> QED BY <1>4, <1>5, <1>6, LeftTurn

\* Insert hangs a new leaf.
LEMMA InsertHangLeft ==
    ASSUME IInv, SInv, NInv, VInv, LInv, Next, InsertHang(Main)
    PROVE  LInv'
  <1>1. PICK T : Moved(Main) /\ Turns(Main, T, T \cup {New})
    BY MainAssumption, InsertHangMoves
  <1>2. op[Main].pc \in WritePc /\ Step(Main)
    BY DEF InsertHang, At, WritePc, InsertPc, GoalPc, Step, InsertStep
  <1>3. Calling
    BY <1>1, <1>2, CallsOn
  <1>4. /\ Slots(Nil) /\ notifier' = notifier
        /\ ValsTo(Main, heap', Nil, New)
    BY MainAssumption, SlotsInsertHang, ValsInsertHang DEF InsertHang
  <1>5. New \notin Nodes
    BY MainAssumption, Facts DEF New, Nodes
  <1>6. T \subseteq T \cup {New}
    OBVIOUS
  <1> QED BY <1>1, <1>3, <1>4, <1>5, <1>6, GrowLeft

\* Insert splits a child.
LEMMA InsertSplitLeft ==
    ASSUME IInv, SInv, NInv, VInv, LInv, Next, InsertSplit(Main)
    PROVE  LInv'
  <1>1. PICK T : /\ Moved(Main)
                 /\ \/ Turns(Main, T, T \cup {New})
                    \/ Turns(Main, T, T \cup {New} \cup {New + 1})
    BY MainAssumption, InsertSplitMoves
  <1>2. op[Main].pc \in WritePc /\ Step(Main)
    BY DEF InsertSplit, At, WritePc, InsertPc, GoalPc, Step, InsertStep
  <1>3. Calling
    BY <1>1, <1>2, CallsOn
  <1>4. Slots(Nil) /\ notifier' = notifier
    BY MainAssumption, SlotsInsertSplit DEF InsertSplit
  <1>5. PICK z \in {New, New + 1} : ValsTo(Main, heap', Nil, z)
    BY MainAssumption, ValsInsertSplit
  <1>6. z \notin Nodes
    BY MainAssumption, Facts DEF New, Nodes
  <1>7. T \subseteq T \cup {New} /\ T \subseteq T \cup {New} \cup {New + 1}
    OBVIOUS
  <1> QED BY <1>1, <1>3, <1>4, <1>5, <1>6, <1>7, GrowLeft

\* delKid.
LEMMA CutLeft ==
    ASSUME IInv, SInv, NInv, VInv, LInv, Next, Cut(Main)
    PROVE  LInv'
  <1>1. PICK T : Moved(Main) /\ Turns(Main, T, T)
    BY MainAssumption, CutMoves
  <1>2. op[Main].pc \in WritePc /\ Step(Main)
    BY DEF Cut, At, WritePc, InsertPc, GoalPc, Step, DeleteStep
  <1>3. Calling
    BY <1>1, <1>2, CallsOn
  <1>4. /\ Slots(Nil) /\ notifier' = notifier
        /\ ValsTo(Main, heap', Nil, Nil)
    BY MainAssumption, SlotsCut, ValsCut DEF Cut
  <1>5. Nil \notin Nodes
    BY DEF Nil, Nodes
  <1> QED BY <1>1, <1>3, <1>4, <1>5, GrowLeft

\* A step that merges n, whose value has been recorded if it has one, with its
\* child c.
LEMMA MergeLeft ==
    ASSUME Calling, NEW n, NEW c, Merges(Main, n, c), NEW ng,
           mergeChild(Main, ng, n, c), op[Main].parent # Nil,
           Grows(notifier, ng), ~Owns(Main, n) => n \in Items(ng.nodes),
           heap[n].val = NoVal \/ Released(n, ng)
    PROVE  LInv'
  <1>1. PICK T, S : /\ Turns(Main, T, S) /\ n \in T /\ c \in T /\ n # c
                    /\ S = IF Len(heap') = Len(heap) THEN T \ {n}
                           ELSE ((T \ {n}) \ {c}) \cup {New}
    BY DEF Merges
  <1>2. PICK d : Live(heap, op[Main], txn[Main].root, T, d)
    BY <1>1 DEF Turns
  <1>3. T \subseteq Nodes
    BY <1>2, MainFacts DEF Calling, InCall
  <1>4. /\ n \in Nodes /\ c \in Nodes /\ c \in Nat /\ Nil \notin Nodes
        /\ New # Len(heap)
    BY <1>1, <1>3, MainAssumption, Facts DEF Nodes, Nil, Calling, New
  <1>5. Slots(c) /\ ValsTo(Main, heap', c, Nil)
    BY <1>4, MainAssumption, SlotsMerge, ValsMerge DEF Calling, InCall
  <1>6. /\ notifier' = dropReplaced(Main, ng, c)
        /\ \/ Len(heap') = Len(heap)
           \/ Len(heap') = New /\ heap'[New].val = heap[c].val
    BY <1>4, MainAssumption, MergeEffect DEF Calling
  <1>7. Grows(ng, notifier') /\ (~Owns(Main, c) => c \in Items(notifier'.nodes))
    BY <1>4, <1>6, GrowsReplaced DEF Grows
  <1>8. /\ Grows(notifier, notifier')
        /\ ~Owns(Main, n) => n \in Items(notifier'.nodes)
        /\ heap[n].val = NoVal \/ Released(n, notifier')
    BY <1>7, GrowsThen, ReleasedStays DEF Grows
  <1>9. \A k \in T \ S : \/ Owns(Main, k) \/ k \in Items(notifier'.nodes)
                         \/ Cov(k)'
    BY <1>1, <1>7, <1>8
  <1>10. ASSUME NEW y \in T, heap[y].val # NoVal PROVE Counted(y, S, Nil)
    <2>1. CASE y = n
      BY <1>3, <1>4, <1>8, <1>10, <2>1, ReleasedCounts
    <2>2. CASE y \in S
      BY <1>3, <1>4, <2>2 DEF Counted
    <2>3. CASE y = c /\ y \notin S
      <3>1. Len(heap') = New /\ New \in S
        BY <1>1, <1>4, <1>6, <2>3
      <3> QED BY <1>4, <1>6, <2>3, <3>1 DEF Counted
    <2> QED BY <1>1, <2>1, <2>2, <2>3
  <1>11. Nil \notin Nodes \ T
    BY <1>4
  <1> QED BY <1>1, <1>5, <1>8, <1>9, <1>10, <1>11, LeftTurn

\* unlink merges the parent, which has no value.
LEMMA PullLeft ==
    ASSUME IInv, SInv, NInv, VInv, LInv, Next, Pull(Main)
    PROVE  LInv'
  <1> DEFINE n == op[Main].path[1].n
             ng == dropReplaced(Main, notifier, n)
  <1>1. Moved(Main)
    BY MainAssumption, PullMoves
  <1>2. PICK c : Merges(Main, n, c) /\ mergeChild(Main, ng, n, c)
    BY MainAssumption, PullMoves
  <1>3. op[Main].pc \in WritePc /\ Step(Main) /\ op[Main].pc = "pull"
    BY DEF Pull, At, WritePc, InsertPc, GoalPc, Step, DeleteStep
  <1>4. Calling /\ Lists(notifier)
    BY <1>1, <1>3, CallsOn
  <1>5. op[Main].parent # Nil
    BY <1>3, MainAssumption, Writing
  <1>6. heap[n].val = NoVal
    <2> DEFINE q == op[Main]
    <2>1. txn[Main].root # Nil
      BY <1>4 DEF Calling, InCall
    <2>2. PICK T, d : Place(heap, q, T, Edges(heap, q), txn[Main].root, d)
      BY <2>1, MainAssumption DEF SInv, LiveTree, Live
    <2>3. Cutting(q) /\ Goal(q) = "pull" /\ Len(q.path) = 1
      BY <1>3, <2>2 DEF Cutting, Goal, Place
    <2>4. CutAt(q) = n
      BY <1>3, <2>3 DEF CutAt, LastEntry
    <2>5. heap[CutAt(q)].val = NoVal
      BY <2>2, <2>3 DEF Place
    <2> QED BY <2>4, <2>5
  <1> HIDE DEF n
  <1>7. n \in Nat
    BY <1>2, <1>4, MergeNotYet DEF Calling
  <1>8. Grows(notifier, ng) /\ (~Owns(Main, n) => n \in Items(ng.nodes))
    BY <1>4, <1>7, GrowsReplaced
  <1> HIDE DEF ng
  <1> QED BY <1>2, <1>4, <1>5, <1>6, <1>8, MergeLeft

\* Delete merges its node.
LEMMA FoldLeft ==
    ASSUME IInv, SInv, NInv, VInv, LInv, Next, Fold(Main)
    PROVE  LInv'
  <1> DEFINE n == op[Main].m
             ng == dropWithLeaf(Main, notifier, n)
  <1>1. Moved(Main)
    BY MainAssumption, FoldMoves
  <1>2. PICK c : Merges(Main, n, c) /\ mergeChild(Main, ng, n, c)
    BY MainAssumption, FoldMoves
  <1>3. op[Main].pc \in WritePc /\ Step(Main) /\ op[Main].pc = "fold"
    BY DEF Fold, At, WritePc, InsertPc, GoalPc, Step, DeleteStep
  <1>4. Calling /\ Lists(notifier)
    BY <1>1, <1>3, CallsOn
  <1>5. op[Main].parent # Nil
    BY <1>3, MainAssumption, Writing
  <1> HIDE DEF n
  <1>6. n \in Nodes
    BY <1>2, <1>4, MergeNotYet DEF Calling
  <1>7. /\ Grows(notifier, ng) /\ (~Owns(Main, n) => n \in Items(ng.nodes))
        /\ Released(n, ng)
    BY <1>4, <1>6, GrowsWithLeaf DEF Calling, InCall
  <1> HIDE DEF ng
  <1> QED BY <1>2, <1>4, <1>5, <1>7, MergeLeft

\* Every closed set of the next state that holds a recorded subtree's root has
\* what hangs below it in the tree.
LEMMA BelowCov ==
    ASSUME NEW T, T \subseteq Nodes, NEW r, NEW d, IsTree(T, Plain(heap), r, d),
           NEW m \in T, m \in Items(notifier'.subtrees),
           Len(heap) \in Nat, Len(heap') \in Nat, Len(heap) <= Len(heap'),
           \A k \in T : heap'[k].kids = heap[k].kids
    PROVE  /\ \A k \in Below(T, Plain(heap), m) : k \in Nodes' /\ Cov(k)'
           /\ m = r => \A k \in T : k \in Nodes' /\ Cov(k)'
  <1>1. /\ \A k \in T, b \in Byte : Plain(heap)[k][b] # Nil =>
              Plain(heap)[k][b] \in T
    BY TreeParts
  <1>2. \A k \in T : k \in Nodes'
    BY DEF Nodes
  <1>3. ASSUME NEW F, Doomed(F)'
        PROVE  \A k \in F \cap T, b \in Byte : Plain(heap)[k][b] # Nil =>
                  Plain(heap)[k][b] \in F
    <2>1. /\ F \subseteq 1..Len(heap') /\ Closed(F, Plain(heap'))
      BY <1>3 DEF Doomed, Nodes, Plain
    <2> SUFFICES ASSUME NEW k \in F \cap T, NEW b \in Byte,
                        Plain(heap)[k][b] # Nil
                 PROVE  Plain(heap)[k][b] \in F
      OBVIOUS
    <2>2. Plain(heap')[k] = Plain(heap)[k]
      BY <2>1 DEF Plain, Nodes
    <2> QED BY <2>1, <2>2 DEF Closed
  <1>4. \A F : Doomed(F)' => m \in F
    BY DEF Doomed
  <1>5. ASSUME NEW k \in Below(T, Plain(heap), m) PROVE k \in T /\ Cov(k)'
    <2>1. ASSUME NEW F, Doomed(F)' PROVE k \in F
      <3> DEFINE S == F \cap T
      <3>1. S \in SUBSET T /\ m \in S
        BY <1>4, <2>1
      <3>2. Closed(S, Plain(heap))
        BY <1>1, <1>3, <2>1 DEF Closed
      <3> QED BY <3>1, <3>2 DEF Below
    <2> QED BY <2>1 DEF Cov, Below
  <1>6. ASSUME m = r, NEW k \in T PROVE Cov(k)'
    <2>1. ASSUME NEW F, Doomed(F)' PROVE k \in F
      BY <1>3, <1>4, <1>6, <2>1, TreeLeast
    <2> QED BY <2>1 DEF Cov
  <1> QED BY <1>2, <1>5, <1>6

\* Delete cuts a leaf off, DeletePrefix a subtree.
LEMMA UnlinkLeft ==
    ASSUME IInv, SInv, NInv, VInv, LInv, Next,
           DeleteLeaf(Main) \/ DeleteSubtree(Main)
    PROVE  LInv'
  <1> DEFINE m == op[Main].m
  <1>1. op[Main].pc = "remove" /\ heap' = heap /\ leaves' = leaves
    BY DEF DeleteLeaf, DeleteSubtree, At, mem
  <1>2. Moved(Main) /\ Step(Main)
    BY MainAssumption, DeleteLeafMoves DEF Step, DeleteStep
  <1>3. Calling /\ Lists(notifier)
    BY <1>1, <1>2, CallsOn DEF WritePc
  <1>4. PICK T : m \in T /\ Turns(Main, T, T \ Below(T, Plain(heap), m))
    BY MainAssumption, DeleteLeafMoves
  <1>5. Edges(heap, op[Main]) = Plain(heap)
    BY <1>1, MainAssumption, Looking
  <1>6. PICK d : Live(heap, op[Main], txn[Main].root, T, d)
    BY <1>4 DEF Turns
  <1>7. T \subseteq Nodes
    BY <1>3, <1>6, MainFacts DEF Calling, InCall
  <1> DEFINE S == T \ Below(T, Plain(heap), m)
  <1>8. /\ IsTree(T, Plain(heap), txn[Main].root, d)
        /\ S \subseteq T /\ T \ S = Below(T, Plain(heap), m)
        /\ m \in T \ S
    <2>1. IsTree(T, Plain(heap), txn[Main].root, d)
      BY <1>5, <1>6 DEF Live, RadixTree
    <2> QED BY <1>4, <2>1, BelowFacts
  <1>9. m \in Nodes /\ m \in Nat /\ Nil \notin Nodes /\ Len(heap) \in Nat
    BY <1>4, <1>7, MainAssumption, Facts DEF Nodes, Nil
  <1>10. Slots(Nil) /\ ValsTo(Main, heap', Nil, Nil)
    BY <1>1, <1>3, SlotsStill, ValsBase DEF Calling, InCall
  <1>11. Turns(Main, T, S)
    BY <1>4
  <1>12. CASE DeleteLeaf(Main)
    <2>1. notifier' = dropWithLeaf(Main, notifier, m) /\ Childless(m)
      BY <1>12 DEF DeleteLeaf
    <2>2. T \ S = {m}
      <3>1. {m} \in SUBSET T /\ Closed({m}, Plain(heap))
        BY <1>4, <1>9, <2>1 DEF Closed, Plain, Nodes, Childless, Labels, Kid,
                                KidCount
      <3> QED BY <1>8, <3>1 DEF Below
    <2> HIDE DEF m, S
    <2>3. /\ Grows(notifier, notifier') /\ Released(m, notifier')
          /\ ~Owns(Main, m) => m \in Items(notifier'.nodes)
      BY <1>3, <1>9, <2>1, GrowsWithLeaf DEF Calling, InCall
    <2>4. \A n \in T \ S : \/ Owns(Main, n) \/ n \in Items(notifier'.nodes)
                           \/ Cov(n)'
      BY <2>2, <2>3
    <2>5. ASSUME NEW y \in T, heap[y].val # NoVal PROVE Counted(y, S, Nil)
      <3>1. CASE y = m
        BY <1>3, <1>9, <2>3, <3>1, ReleasedCounts
      <3>2. CASE y # m
        BY <1>7, <1>9, <2>2, <3>2 DEF Counted
      <3> QED BY <3>1, <3>2
    <2> QED BY <1>3, <1>9, <1>10, <1>11, <2>3, <2>4, <2>5, LeftTurn
  <1>13. CASE DeleteSubtree(Main)
    <2>1. notifier' = dropSubtree(Main, notifier, m)
      BY <1>13 DEF DeleteSubtree
    <2> HIDE DEF m
    <2>2. Grows(notifier, notifier') /\ m \in Items(notifier'.subtrees)
      BY <1>3, <1>9, <2>1, GrowsOne
    <2>3. \A k \in Below(T, Plain(heap), m) : k \in Nodes' /\ Cov(k)'
      <3>1. /\ \A k \in T : heap'[k].kids = heap[k].kids
            /\ Len(heap') \in Nat /\ Len(heap) <= Len(heap') /\ m \in T
        BY <1>1, <1>8, <1>9
      <3> QED BY <1>7, <1>8, <1>9, <2>2, <3>1, BelowCov
    <2>4. \A n \in T \ S : \/ Owns(Main, n) \/ n \in Items(notifier'.nodes)
                           \/ Cov(n)'
      BY <1>8, <2>3
    <2>5. ASSUME NEW y \in T PROVE Counted(y, S, Nil)
      <3>1. y # Nil
        BY <1>7, <1>9
      <3>2. CASE y \in S
        BY <3>1, <3>2 DEF Counted
      <3>3. CASE y \notin S
        <4>1. y \in Nodes' /\ Cov(y)'
          BY <1>8, <2>3, <3>3
        <4> QED BY <3>1, <4>1 DEF Counted, Due
      <3> QED BY <3>2, <3>3
    <2> HIDE DEF S
    <2> QED BY <1>3, <1>9, <1>10, <1>11, <2>2, <2>4, <2>5, LeftTurn
  <1> QED BY <1>12, <1>13

\* DeletePrefix takes the whole tree.
LEMMA DeleteAllLeft ==
    ASSUME IInv, SInv, NInv, VInv, LInv, Next, DeleteAll(Main)
    PROVE  LInv'
  <1> DEFINE m == op[Main].m
             S == {New}
  <1>1. /\ op[Main].pc = "remove" /\ op[Main].path = <<>>
        /\ notifier' = dropSubtree(Main, notifier, m)
        /\ heap' = Append(heap, EmptyNode(txn[Main].epoch))
    BY DEF DeleteAll, At
  <1>2. Moved(Main) /\ Step(Main)
    BY MainAssumption, DeleteAllMoves DEF Step, DeleteStep
  <1>3. Calling /\ Lists(notifier)
    BY <1>1, <1>2, CallsOn DEF WritePc
  <1>4. PICK T : m \in T /\ Turns(Main, T, S)
    BY MainAssumption, DeleteAllMoves
  <1>5. /\ Edges(heap, op[Main]) = Plain(heap) /\ op[Main].parent = Nil
        /\ Stop(op[Main], Len(op[Main].path) + 1) = Target(op[Main])
    BY <1>1, MainAssumption, Looking
  <1>6. PICK d : Live(heap, op[Main], txn[Main].root, T, d)
    BY <1>4 DEF Turns
  <1>7. T \subseteq Nodes
    BY <1>3, <1>6, MainFacts DEF Calling, InCall
  <1>8. IsTree(T, Plain(heap), txn[Main].root, d)
    BY <1>5, <1>6 DEF Live, RadixTree
  <1>9. m = txn[Main].root
    <2>1. Way(op[Main], T, Plain(heap), txn[Main].root, d)
      BY <1>1, <1>5, <1>6 DEF Live, Place
    <2>2. Stop(op[Main], 1) = m
      BY <1>1, <1>5 DEF Target
    <2> QED BY <1>5, <2>1, <2>2 DEF Way, HangsAt
  <1> HIDE DEF m
  <1>10. /\ m \in Nat /\ Nil \notin Nodes /\ Len(heap) \in Nat
         /\ heap \in Seq(NodeType) /\ Nodes = 1..Len(heap)
    BY <1>4, <1>7, MainAssumption, Facts DEF Nodes, Nil
  <1>11. Slots(Nil) /\ ValsTo(Main, heap', Nil, Nil)
    BY MainAssumption, SlotsDeleteAll, ValsDeleteAll
  <1>12. /\ Len(heap') = Len(heap) + 1
         /\ \A k \in Nodes : heap'[k].kids = heap[k].kids
    BY <1>1, <1>10
  <1>13. Grows(notifier, notifier') /\ m \in Items(notifier'.subtrees)
    BY <1>1, <1>3, <1>10, GrowsOne
  <1>14. \A k \in T : k \in Nodes' /\ Cov(k)'
    <2>1. /\ \A k \in T : heap'[k].kids = heap[k].kids
          /\ Len(heap') \in Nat /\ Len(heap) <= Len(heap') /\ m \in T
      BY <1>4, <1>7, <1>10, <1>12
    <2> QED BY <1>7, <1>8, <1>9, <1>10, <1>13, <2>1, BelowCov
  <1>15. \A n \in T \ S : \/ Owns(Main, n) \/ n \in Items(notifier'.nodes)
                          \/ Cov(n)'
    BY <1>14
  <1>16. \A y \in T : Counted(y, S, Nil)
    BY <1>7, <1>10, <1>14 DEF Counted, Due
  <1> HIDE DEF S
  <1> QED BY <1>3, <1>4, <1>10, <1>11, <1>13, <1>15, <1>16, LeftTurn

\* A step of Main's call that changes nothing but the call's locals.
LEMMA StillLeft ==
    ASSUME IInv, SInv, NInv, VInv, LInv, Next, heap' = heap, leaves' = leaves,
           notifier' = notifier, current' = current, lineage' = lineage,
           pend' = pend, txn[Main].root # Nil,
           txn'[Main].root = txn[Main].root, Looks(op[Main]), Looks(op'[Main])
    PROVE  LInv'
  <1>1. Slots(Nil)
    BY SlotsStill
  <1>2. Steps
    BY <1>1, SlotSteps
  <1>3. SInv' /\ IInv'
    BY NextStep, NextSInv
  <1>4. /\ MainOp = op[Main] /\ MainOp' = op'[Main] /\ MainRoot' = MainRoot
    BY DEF MainOp, MainRoot
  <1>5. PICK T : MainTree(T)
    BY DEF NInv
  <1>6. MainTree(T)'
    BY <1>3, <1>4, <1>5, StillTree DEF Looks
  <1>7. \A n : Was(n)' => Was(n) \/ n \in T
    BY <1>2, WasKept
  <1>8. LeftNodes' /\ LeftValues'
    BY <1>2, <1>5, <1>6, <1>7, LeftStill
  <1>9. LeftBefore'
    BY <1>2, LeftBeforeKept
  <1>10. NothingLeft'
    BY DEF NothingLeft
  <1> QED BY <1>8, <1>9, <1>10 DEF LInv

\* A call of Main starts, looks for its key, or decides what to do.
LEMMA LookLeft ==
    ASSUME IInv, SInv, NInv, VInv, LInv, Next,
           \/ \E k \in Key : \/ Insert(Main, k) \/ Delete(Main, k)
                             \/ DeletePrefix(Main, k)
           \/ InsertDown(Main) \/ FindDown(Main) \/ FindMiss(Main)
           \/ FindHit(Main) \/ DeleteRoot(Main) \/ DeleteInner(Main)
    PROVE  LInv'
  <1>1. ASSUME NEW k \in Key,
               Insert(Main, k) \/ Delete(Main, k) \/ DeletePrefix(Main, k)
        PROVE  LInv'
    BY <1>1, StartStill, StillLeft
  <1>2. CASE \/ InsertDown(Main) \/ FindDown(Main) \/ FindMiss(Main)
             \/ FindHit(Main) \/ DeleteRoot(Main) \/ DeleteInner(Main)
    <2>1. /\ op[Main].pc \in {"down", "find", "remove"} /\ leaves' = leaves
          /\ notifier' = notifier /\ current' = current
          /\ lineage' = lineage /\ pend' = pend
      BY <1>2 DEF InsertDown, FindDown, FindMiss, FindHit, DeleteRoot,
                  DeleteInner, At, mem, Rest, pub
    <2>2. /\ Looks(op[Main]) /\ heap' = heap
          /\ txn'[Main].root = txn[Main].root
          /\ \E o : op' = [op EXCEPT ![Main] = o] /\ Looks(o)
      BY <1>2, MainAssumption, LooksOn
    <2>3. Looks(op'[Main])
      BY <2>2, NextOp
    <2>4. txn[Main].root # Nil
      BY <2>1, MainAssumption, Facts DEF CallAt
    <2> QED BY <2>1, <2>2, <2>3, <2>4, StillLeft
  <1> QED BY <1>1, <1>2

\* Between Main's transactions, with nothing left to notify, what was published
\* and is no longer in the tree is sealed.
LEMMA QuietLeft ==
    ASSUME LInv, txn[Main].root = Nil, op[Main].pc # "notify",
           NEW C, CurTree(C), NEW n, Was(n)
    PROVE  /\ n \notin C => heap[n].watch = "sealed"
           /\ heap[n].val # NoVal => \/ \E m \in C : heap[m].val = heap[n].val
                                     \/ Shut(heap[n].leaf)
  <1>1. MainTree(C)
    BY DEF MainTree, CurTree, MainOp, MainRoot
  <1>2. /\ Items(notifier.nodes) = {} /\ Items(notifier.values) = {}
        /\ Items(notifier.leaves) = {} /\ Items(notifier.subtrees) = {}
        /\ notifier.sealing = {}
    BY DEF LInv, NothingLeft, NoNotifier, Items
  <1>3. Doomed({})
    BY <1>2 DEF Doomed, Closed
  <1>4. \A y : ~Cov(y) /\ ~Due(y)
    BY <1>2, <1>3 DEF Cov, Due
  <1> QED BY <1>1, <1>2, <1>4 DEF LInv, LeftNodes, LeftValues, Heard, Told

\* A transaction of Main's starts, its tree is shared or published.
LEMMA PublishLeft ==
    ASSUME IInv, SInv, NInv, VInv, LInv, Next,
           \/ \E root \in trees : Txn(Main, root)
           \/ Freeze(Main) \/ Commit(Main)
    PROVE  LInv'
  <1>1. /\ op[Main].pc = "idle" /\ heap' = heap /\ leaves' = leaves
        /\ notifier' = notifier /\ MainRoot' = MainRoot
        /\ MainOp.pc # "fork" /\ ~Cutting(MainOp)
        /\ MainOp'.pc # "fork" /\ ~Cutting(MainOp')
    BY PublishStill
  <1>2. Slots(Nil)
    BY <1>1, SlotsStill
  <1>3. Steps
    BY <1>2, SlotSteps
  <1>4. SInv' /\ IInv'
    BY NextStep, NextSInv
  <1>5. PICK T : MainTree(T)
    BY DEF NInv
  <1>6. PICK d : RadixTree(heap, T, Plain(heap), MainRoot, d)
    BY <1>1, <1>4, <1>5, StillTree
  <1>7. MainTree(T)'
    BY <1>1, <1>4, <1>5, StillTree
  <1>8. /\ txn \in [Writer -> [root : Ref, epoch : Nat]]
        /\ op \in [Writer -> OpType]
    BY MainAssumption, Facts
  <1>9. /\ lineage' \cup pend' \subseteq
              lineage \cup pend \cup
                 IF txn[Main].root = Nil THEN {} ELSE {txn[Main].root}
        /\ lineage' # lineage => txn'[Main].root = Nil
        /\ current' # current => txn'[Main].root = Nil
        /\ txn'[Main].root = Nil => pend' = {} /\ op'[Main].pc = "notify"
        /\ txn[Main].root = Nil => current' = current /\ lineage' = lineage
    <2>1. CASE \E root \in trees : Txn(Main, root)
      <3>1. current # Nil
        BY MainAssumption, Facts DEF IInv, TypeOK, PubOK, Nodes, Nil
      <3>2. txn'[Main].root # Nil
        BY <1>8, <2>1, <3>1, MainAssumption DEF Txn
      <3> QED BY <2>1, <3>2 DEF Txn, pub
    <2>2. CASE Freeze(Main)
      BY <1>8, <2>2, MainAssumption DEF Freeze, Ready
    <2>3. CASE Commit(Main)
      <3>1. op'[Main].pc = "notify"
        BY <1>8, <2>3, MainAssumption, IdleType DEF Commit, IdleOp
      <3>2. txn'[Main].root = Nil
        BY <1>8, <2>3, MainAssumption DEF Commit, NoTxn
      <3> QED BY <2>3, <3>1, <3>2 DEF Commit, Ready
    <2> QED BY <2>1, <2>2, <2>3
  <1>10. \A n : Was(n)' => Was(n) \/ n \in T
    <2> SUFFICES ASSUME NEW n, Was(n)' PROVE Was(n) \/ n \in T
      OBVIOUS
    <2>1. PICK t \in lineage' \cup pend' :
             \E U, e : Live(heap', IdleOp, t, U, e) /\ n \in U
      BY DEF Was
    <2>2. PICK U, e : Live(heap', IdleOp, t, U, e) /\ n \in U
      BY <2>1
    <2>3. CASE t \in lineage \cup pend
      BY <1>1, <2>2, <2>3 DEF Was
    <2>4. CASE t = txn[Main].root /\ txn[Main].root # Nil
      <3>1. MainRoot = t
        BY <2>4 DEF MainRoot
      <3>2. IdleOp.pc # "fork" /\ ~Cutting(IdleOp)
        BY IdleType DEF Cutting
      <3>3. RadixTree(heap, U, Plain(heap), t, e)
        BY <1>1, <2>2, <3>2, PlainEdges DEF Live, Plain
      <3>4. IsTree(T, Plain(heap), t, d) /\ IsTree(U, Plain(heap), t, e)
        BY <1>6, <3>1, <3>3 DEF RadixTree
      <3> QED BY <2>2, <3>4, TreeUnique
    <2> QED BY <1>9, <2>3, <2>4
  <1>11. LeftNodes' /\ LeftValues'
    BY <1>1, <1>3, <1>5, <1>7, <1>10, LeftStill
  <1>12. LeftBefore'
    <2>1. CASE txn'[Main].root = Nil
      BY <2>1, NoLeftBefore
    <2>2. CASE txn'[Main].root # Nil /\ txn[Main].root # Nil
      BY <1>3, <1>9, <2>2, LeftBeforeKept
    <2>3. CASE txn[Main].root = Nil
      <3> SUFFICES ASSUME NEW C, NEW n, CurTree(C)', Pub(n)'
                   PROVE  /\ n \notin C => heap'[n].watch = "sealed"
                          /\ heap'[n].val # NoVal =>
                                \/ \E m \in C : heap'[m].val = heap'[n].val
                                \/ Shut(heap[n].leaf)'
        BY <1>1 DEF LeftBefore
      <3>1. CurTree(C)
        BY <1>3, <1>9, <2>3, CurKept
      <3>2. Was(n)
        BY <1>3, <1>9, <2>3, PubKept, PubWas
      <3>3. Shut(heap[n].leaf)' <=> Shut(heap[n].leaf)
        BY <1>1 DEF Shut
      <3> QED BY <1>1, <2>3, <3>1, <3>2, <3>3, QuietLeft
    <2> QED BY <2>1, <2>2, <2>3
  <1>13. NothingLeft'
    BY <1>9 DEF NothingLeft
  <1> QED BY <1>11, <1>12, <1>13 DEF LInv

\* Main's transaction is given up: what was published had not lost anything.
LEMMA AbortLeft ==
    ASSUME IInv, SInv, NInv, VInv, LInv, Next, Abort(Main)
    PROVE  LInv'
  <1>1. /\ heap' = heap /\ leaves' = leaves /\ notifier' = NoNotifier
        /\ txn' = [txn EXCEPT ![Main] = NoTxn] /\ txn[Main].root # Nil
        /\ current' = current /\ lineage' = lineage /\ pend' = {}
    BY DEF Abort, Ready, mem
  <1>2. txn'[Main].root = Nil
    BY <1>1, MainAssumption, Facts DEF NoTxn
  <1>3. ASSUME NEW C, NEW n, MainTree(C)', Was(n)'
        PROVE  /\ n \notin C => heap[n].watch = "sealed"
               /\ heap[n].val # NoVal =>
                     \/ \E m \in C : heap[m].val = heap[n].val
                     \/ Shut(heap[n].leaf)
    <2>1. CurTree(C)
      <3>1. MainTree(C)' <=> \E c : Live(heap', MainOp', MainRoot', C, c)
        BY DEF MainTree
      <3>2. MainOp' = IdleOp /\ MainRoot' = current
        BY <1>1, <1>2 DEF MainOp, MainRoot
      <3> QED BY <1>1, <1>3, <3>1, <3>2 DEF CurTree
    <2>2. Pub(n)
      BY <1>1, <1>3 DEF Was, Pub
    <2> QED BY <1>1, <2>1, <2>2 DEF LInv, LeftBefore
  <1>4. LeftNodes'
    BY <1>1, <1>3 DEF LeftNodes
  <1>5. LeftValues'
    <2> SUFFICES ASSUME NEW C, NEW n, MainTree(C)', Was(n)',
                        heap'[n].val # NoVal,
                        ~\E m \in C : heap'[m].val = heap'[n].val
                 PROVE  Heard(n)'
      BY DEF LeftValues
    <2>1. Shut(heap[n].leaf)
      BY <1>1, <1>3
    <2>2. Shut(heap[n].leaf)'
      BY <1>1, <2>1 DEF Shut
    <2> QED BY <2>2 DEF Heard, Told
  <1>6. LeftBefore'
    BY <1>2, NoLeftBefore
  <1>7. NothingLeft'
    BY <1>1 DEF NothingLeft
  <1> QED BY <1>4, <1>5, <1>6, <1>7 DEF LInv

\* What Notify's step takes out of the Notifier it has sealed, or, the nodes X of
\* a subtree, sealed and replaced with their children.
Seals(X) ==
    /\ Items(notifier.subtrees) \cup notifier.sealing \subseteq
          Items(notifier'.subtrees) \cup notifier'.sealing \cup X
    /\ \A k \in X : /\ k \in Items(notifier.subtrees) \cup notifier.sealing
                    /\ heap'[k].watch = "sealed"
                    /\ heap[k].val # NoVal => Shut(heap[k].leaf)'
                    /\ \A b \in Byte : heap[k].kids[b] # Nil =>
                          heap[k].kids[b] \in
                             Items(notifier'.subtrees) \cup notifier'.sealing
    /\ \A k \in Items(notifier.nodes) :
          heap'[k].watch = "sealed" \/ k \in Items(notifier'.nodes)
    /\ \A l \in Items(notifier.leaves) \ {Nil} :
          leaves'[l] = "sealed" \/ l \in Items(notifier'.leaves)
    /\ \A k \in Items(notifier.values) :
          Shut(heap[k].leaf)' \/ k \in Items(notifier'.values)

\* Such a step keeps what was published accounted for.
LEMMA SealLeft ==
    ASSUME IInv, SInv, NInv, VInv, LInv, Next, Notify, NEW l,
           leaves' = leaves \/ leaves' = [leaves EXCEPT ![l] = "sealed"],
           NEW X, Seals(X), op'[Main].pc = "notify" \/ notifier' = NoNotifier
    PROVE  LInv'
  <1>1. op[Main].pc = "notify"
    BY DEF Notify, NotifyNode, NotifyLeaf, NotifyValue, NotifySubtree,
           SealSubtree, NotifyDone, Notifying
  <1>2. AllSame(heap, heap')
    BY NotifySame
  <1>3. PICK T, D : CurTree(T) /\ Doomed(D) /\ T \subseteq Nodes
    BY <1>1, NotifyTree
  <1>4. /\ txn[Main].root = Nil /\ txn' = txn /\ current' = current
        /\ lineage' = lineage /\ pend' = pend
    BY <1>1, NotifyTree
       DEF Notify, NotifyNode, NotifyLeaf, NotifyValue, NotifySubtree,
           SealSubtree, NotifyDone, NotifyRest, pub
  <1>5. /\ Len(heap) \in Nat /\ Len(heap') = Len(heap) /\ Nodes = 1..Len(heap)
        /\ \A k \in Nodes : /\ heap'[k].val = heap[k].val
                            /\ heap'[k].kids = heap[k].kids
                            /\ heap[k].leaf # Nil => heap'[k].leaf = heap[k].leaf
    BY <1>2, MainAssumption, Facts, NotifyKeeps
       DEF AllSame, Same, Like, SameVals, Nodes
  <1>6. Steps
    BY <1>5, SealSteps
  <1>7. MainTree(T) /\ MainTree(T)'
    <2>1. PICK d : Live(heap, IdleOp, current, T, d) /\ current \in trees
      BY <1>3 DEF CurTree, IInv, TypeOK, PubOK
    <2>2. Live(heap', IdleOp, current, T, d)
      BY <1>6, <2>1, PubTreeStays
    <2>3. MainTree(T)' <=> \E c : Live(heap', MainOp', MainRoot', T, c)
      BY DEF MainTree
    <2>4. MainOp' = IdleOp /\ MainRoot' = current
      BY <1>4 DEF MainOp, MainRoot
    <2>5. MainOp = IdleOp /\ MainRoot = current
      BY <1>4 DEF MainOp, MainRoot
    <2> QED BY <2>1, <2>2, <2>3, <2>4, <2>5 DEF MainTree
  <1>8. Goes(T, T)
    BY <1>4, <1>6, <1>7, WasKept DEF Goes
  <1>9. X \subseteq D
    BY <1>3 DEF Doomed, Seals
  <1>10. ASSUME NEW n, Cov(n) PROVE n \in X \/ Cov(n)'
    <2>1. /\ \A k \in D : heap'[k].kids = heap[k].kids
          /\ Len(heap) <= Len(heap')
      BY <1>3, <1>5 DEF Doomed
    <2> QED BY <1>3, <1>9, <1>10, <2>1, CovKept DEF Seals
  <1>11. NodesTold(T, T)
    BY <1>10 DEF NodesTold, Seals
  <1>12. ValuesTold(T, T)
    <2>1. ASSUME NEW y \in T PROVE ValueTold(y, T)
      BY <1>3, <1>5 DEF ValueTold
    <2>2. ASSUME NEW y, Due(y), heap[y].val # NoVal
          PROVE  KeepsValue(y) /\ (Due(y)' \/ Shut(heap[y].leaf)')
      <3>1. y \in Nodes /\ y \in Nodes'
        BY <1>5, <2>2 DEF Due, Nodes
      <3>2. KeepsValue(y)
        BY <1>5, <3>1 DEF KeepsValue
      <3>3. CASE y \in Items(notifier.values)
        BY <3>1, <3>2, <3>3 DEF Seals, Due
      <3>4. CASE Cov(y)
        BY <1>10, <2>2, <3>1, <3>2, <3>4 DEF Seals, Due
      <3> QED BY <2>2, <3>3, <3>4 DEF Due
    <2> QED BY <2>1, <2>2 DEF ValuesTold, Seals
  <1>13. LeftNodes' /\ LeftValues'
    BY <1>6, <1>8, <1>11, <1>12, LeftNodesStep, LeftValuesStep
  <1>14. LeftBefore'
    BY <1>4, NoLeftBefore
  <1>15. NothingLeft'
    BY <1>4 DEF LInv, NothingLeft
  <1> QED BY <1>13, <1>14, <1>15 DEF LInv

\* sealValue seals the leaf of a value, or gives it one that is sealed.
LEMMA SealShuts ==
    ASSUME IInv, NInv, NEW n \in Nodes, NEW h \in Seq(NodeType),
           n \in 1..Len(h), h[n].leaf = heap[n].leaf,
           heap' = sealValueHeap(h, n), leaves' = sealValueLeaves(n)
    PROVE  Shut(heap[n].leaf)'
  <1>1. /\ leaves \in Seq(SlotState) /\ heap[n].leaf \in 0..Len(leaves)
    BY MainAssumption, Facts
  <1>2. CASE heap[n].leaf = Nil
    <2>1. heap'[n].leaf = sealedLeaf /\ leaves' = leaves
      <3> DEFINE x == [h[n] EXCEPT !.leaf = sealedLeaf]
      <3>1. x.leaf = sealedLeaf
        <4>1. h[n] \in NodeType
          OBVIOUS
        <4> QED BY <4>1 DEF NodeType
      <3>2. heap' = [h EXCEPT ![n] = x]
        BY <1>2 DEF sealValueHeap
      <3> HIDE DEF x
      <3> QED BY <1>2, <3>1, <3>2 DEF sealValueLeaves
    <2> QED BY <2>1 DEF Shut, NInv, sealedLeaf, Nil
  <1>3. CASE heap[n].leaf # Nil
    <2>1. heap' = h /\ leaves' = [leaves EXCEPT ![heap[n].leaf] = "sealed"]
      BY <1>3 DEF sealValueHeap, sealValueLeaves
    <2>2. leaves'[heap[n].leaf] = "sealed"
      BY <1>1, <1>3, <2>1 DEF Nil
    <2> QED BY <1>3, <2>1, <2>2 DEF Shut
  <1> QED BY <1>2, <1>3

\* Notify.
LEMMA NotifyLeft ==
    ASSUME IInv, SInv, NInv, VInv, LInv, Next, Notify
    PROVE  LInv'
  <1>1. /\ heap \in Seq(NodeType) /\ leaves \in Seq(SlotState)
        /\ Nodes = 1..Len(heap) /\ op \in [Writer -> OpType]
        /\ \A k \in Nodes : heap[k] \in NodeType
        /\ "sealed" \in SlotState
    BY MainAssumption, Facts DEF Nodes, SlotState
  <1>2. /\ Lists(notifier) /\ notifier.nodes \in Seq(Nat)
        /\ notifier.leaves \in Seq(Nat) /\ notifier.values \in Seq(Nat)
        /\ notifier.subtrees \in Seq(Nat)
    BY DEF IInv, TypeOK, NotifierOK, NotifierType, Lists
  <1>3. AllSame(heap, heap') /\ op[Main].pc = "notify"
    BY NotifySame DEF Notify, NotifyNode, NotifyLeaf, NotifyValue,
                      NotifySubtree, SealSubtree, NotifyDone, Notifying
  <1>4. CASE NotifyNode
    <2> DEFINE n == Head(notifier.nodes)
               x == [heap[n] EXCEPT !.watch = "sealed"]
    <2>1. /\ notifier' = [notifier EXCEPT !.nodes = Tail(@)]
          /\ heap' = [heap EXCEPT ![n] = x] /\ leaves' = leaves
          /\ op' = op /\ notifier.nodes # <<>>
      BY <1>4 DEF NotifyNode, NotifyRest
    <2>2. /\ n \in Items(notifier.nodes)
          /\ Items(notifier.nodes) \subseteq Items(Tail(notifier.nodes)) \cup {n}
      BY <1>2, <2>1, TailItems
    <2>3. n \in 1..Len(heap) /\ heap[n] \in NodeType
      BY <1>1, <2>2, RecordedRange
    <2>4. x.watch = "sealed"
      BY <2>3 DEF NodeType
    <2> HIDE DEF n, x
    <2>5. heap'[n].watch = "sealed"
      BY <1>1, <2>1, <2>3, <2>4
    <2>6. /\ notifier'.nodes = Tail(notifier.nodes)
          /\ notifier'.leaves = notifier.leaves
          /\ notifier'.values = notifier.values
          /\ notifier'.subtrees = notifier.subtrees
          /\ notifier'.sealing = notifier.sealing
      BY <1>2, <2>1 DEF Lists
    <2>7. Seals({})
      BY <2>2, <2>5, <2>6 DEF Seals
    <2> QED BY <1>3, <2>1, <2>7, SealLeft
  <1>5. CASE NotifyLeaf
    <2> DEFINE l == Head(notifier.leaves)
    <2>1. /\ notifier' = [notifier EXCEPT !.leaves = Tail(@)]
          /\ leaves' = [leaves EXCEPT ![l] = "sealed"]
          /\ op' = op /\ notifier.leaves # <<>>
      BY <1>5 DEF NotifyLeaf, NotifyRest
    <2>2. /\ l \in Items(notifier.leaves)
          /\ Items(notifier.leaves) \subseteq Items(Tail(notifier.leaves)) \cup {l}
      BY <1>2, <2>1, TailItems
    <2>3. l \in 0..Len(leaves)
      BY <2>2 DEF IInv, TypeOK, NotifierOK, NotifierType, Items
    <2> HIDE DEF l
    <2>4. l # Nil => leaves'[l] = "sealed"
      BY <1>1, <2>1, <2>3 DEF Nil
    <2>5. /\ notifier'.nodes = notifier.nodes
          /\ notifier'.leaves = Tail(notifier.leaves)
          /\ notifier'.values = notifier.values
          /\ notifier'.subtrees = notifier.subtrees
          /\ notifier'.sealing = notifier.sealing
      BY <1>2, <2>1 DEF Lists
    <2>6. Seals({})
      BY <2>2, <2>4, <2>5 DEF Seals
    <2> QED BY <1>3, <2>1, <2>6, SealLeft
  <1>6. CASE NotifyValue
    <2> PICK n : n = Head(notifier.values)
      OBVIOUS
    <2> DEFINE l == heap[n].leaf
    <2>1. /\ notifier' = [notifier EXCEPT !.values = Tail(@)]
          /\ heap' = sealValueHeap(heap, n) /\ leaves' = sealValueLeaves(n)
          /\ op' = op /\ notifier.values # <<>>
      BY <1>6 DEF NotifyValue, NotifyRest
    <2>2. /\ n \in Items(notifier.values)
          /\ Items(notifier.values) \subseteq Items(Tail(notifier.values)) \cup {n}
      BY <1>2, <2>1, TailItems
    <2>3. n \in Nodes
      BY <2>2, RecordedRange
    <2>4. leaves' = leaves \/ leaves' = [leaves EXCEPT ![l] = "sealed"]
      BY <2>1 DEF sealValueLeaves
    <2> HIDE DEF l
    <2>5. Shut(heap[n].leaf)'
      BY <1>1, <2>1, <2>3, SealShuts
    <2>6. /\ notifier'.nodes = notifier.nodes
          /\ notifier'.leaves = notifier.leaves
          /\ notifier'.values = Tail(notifier.values)
          /\ notifier'.subtrees = notifier.subtrees
          /\ notifier'.sealing = notifier.sealing
      BY <1>2, <2>1 DEF Lists
    <2>7. Seals({})
      BY <2>2, <2>5, <2>6 DEF Seals
    <2> QED BY <1>3, <2>1, <2>4, <2>7, SealLeft
  <1>7. CASE NotifySubtree
    <2> DEFINE n == Head(notifier.subtrees)
    <2>1. /\ notifier' = [notifier EXCEPT !.subtrees = Tail(@), !.sealing = {n}]
          /\ leaves' = leaves /\ op' = op
          /\ notifier.subtrees # <<>> /\ notifier.sealing = {}
      BY <1>7 DEF NotifySubtree, NotifyRest, mem
    <2>2. Items(notifier.subtrees)
             \subseteq Items(Tail(notifier.subtrees)) \cup {n}
      BY <1>2, <2>1, TailItems
    <2> HIDE DEF n
    <2>3. /\ notifier'.nodes = notifier.nodes
          /\ notifier'.leaves = notifier.leaves
          /\ notifier'.values = notifier.values
          /\ notifier'.subtrees = Tail(notifier.subtrees)
          /\ notifier'.sealing = {n}
      BY <1>2, <2>1 DEF Lists
    <2>4. Seals({})
      BY <2>1, <2>2, <2>3 DEF Seals
    <2> QED BY <1>3, <2>1, <2>4, SealLeft
  <1>8. CASE SealSubtree
    <2>1. PICK n \in notifier.sealing :
            LET h == [heap EXCEPT ![n].watch = "sealed"]
            IN  /\ IF heap[n].val # NoVal
                   THEN heap' = sealValueHeap(h, n) /\ leaves' = sealValueLeaves(n)
                   ELSE heap' = h /\ leaves' = leaves
                /\ notifier' = [notifier EXCEPT
                     !.sealing = (@ \ {n}) \cup {Kid(n, b) : b \in Labels(n)}]
      BY <1>8 DEF SealSubtree
    <2>2. n \in Nodes /\ n \in 1..Len(heap) /\ heap[n] \in NodeType
      BY <1>1 DEF IInv, TypeOK, NotifierOK, NotifierType
    <2> DEFINE x == [heap[n] EXCEPT !.watch = "sealed"]
               h == [heap EXCEPT ![n] = x]
               l == heap[n].leaf
               S == (notifier.sealing \ {n}) \cup {Kid(n, b) : b \in Labels(n)}
    <2>3. /\ IF heap[n].val # NoVal
             THEN heap' = sealValueHeap(h, n) /\ leaves' = sealValueLeaves(n)
             ELSE heap' = h /\ leaves' = leaves
          /\ leaves' = leaves \/ leaves' = [leaves EXCEPT ![l] = "sealed"]
          /\ notifier' = [notifier EXCEPT !.sealing = S]
      BY <2>1 DEF sealValueLeaves
    <2>4. op' = op
      BY <1>8 DEF SealSubtree, NotifyRest
    <2>5. x \in NodeType /\ x.leaf = heap[n].leaf /\ x.watch = "sealed"
      BY <1>1, <2>2 DEF NodeType
    <2> HIDE DEF x
    <2>6. /\ h \in Seq(NodeType) /\ n \in 1..Len(h) /\ h[n] = x
      BY <1>1, <2>2, <2>5
    <2> HIDE DEF h
    <2>7. heap[n].val # NoVal => Shut(heap[n].leaf)'
      BY <2>2, <2>3, <2>5, <2>6, SealShuts
    <2>8. heap'[n].watch = "sealed"
      <3>1. CASE heap' = h
        BY <2>5, <2>6, <3>1
      <3>2. CASE heap' = [h EXCEPT ![n].leaf = sealedLeaf]
        <4> DEFINE y == [h[n] EXCEPT !.leaf = sealedLeaf]
        <4>1. y.watch = "sealed"
          BY <2>5, <2>6 DEF NodeType
        <4>2. heap' = [h EXCEPT ![n] = y]
          BY <3>2
        <4> HIDE DEF y
        <4> QED BY <2>6, <4>1, <4>2
      <3> QED BY <2>3, <3>1, <3>2 DEF sealValueHeap
    <2>9. /\ notifier'.nodes = notifier.nodes
          /\ notifier'.leaves = notifier.leaves
          /\ notifier'.values = notifier.values
          /\ notifier'.subtrees = notifier.subtrees
          /\ notifier'.sealing = S
      BY <1>2, <2>3 DEF Lists
    <2>10. \A b \in Byte : heap[n].kids[b] # Nil => heap[n].kids[b] \in S
      BY DEF Labels, Kid
    <2>11. notifier.sealing \subseteq S \cup {n}
      OBVIOUS
    <2> HIDE DEF S, l
    <2>12. Seals({n})
      BY <2>7, <2>8, <2>9, <2>10, <2>11 DEF Seals
    <2> QED BY <1>3, <2>3, <2>4, <2>12, SealLeft
  <1>9. CASE NotifyDone
    <2>1. leaves' = leaves /\ notifier' = notifier /\ notifier' = NoNotifier
      BY <1>9 DEF NotifyDone, mem
    <2>2. Seals({})
      BY <2>1 DEF Seals
    <2> QED BY <2>1, <2>2, SealLeft
  <1> QED BY <1>4, <1>5, <1>6, <1>7, <1>8, <1>9 DEF Notify

-----------------------------------------------------------------------------
(* Nothing that has left is forgotten                                       *)

\* A step of Main.
LEMMA MainLeft ==
    ASSUME IInv, SInv, NInv, VInv, LInv, Next, Begin(Main) \/ Step(Main)
    PROVE  LInv'
  <1>1. CASE Begin(Main)
    BY <1>1, PublishLeft, AbortLeft, LookLeft DEF Begin
  <1>2. CASE InsertStep(Main)
    BY <1>2, InsertValueLeft, InsertOwnLeft, InsertHangLeft, LookLeft,
       InsertSplitCopyLeft, InsertSplitLeft DEF InsertStep
  <1>3. CASE DeleteStep(Main)
    BY <1>3, LookLeft, UnlinkLeft, DeleteAllLeft, OwnPathLeft, CutLeft,
       PullLeft, FoldLeft, ClearLeft DEF DeleteStep
  <1> QED BY <1>1, <1>2, <1>3 DEF Step

\* A step that does nothing.
LEMMA QuietStep ==
    ASSUME LInv, UNCHANGED vars
    PROVE  LInv'
  <1>1. /\ heap' = heap /\ leaves' = leaves /\ txn' = txn /\ op' = op
        /\ notifier' = notifier /\ current' = current
        /\ lineage' = lineage /\ pend' = pend
    BY DEF vars, pub
  <1>2. \A T : (MainTree(T)' <=> MainTree(T)) /\ (CurTree(T)' <=> CurTree(T))
    BY <1>1 DEF MainTree, CurTree, MainOp, MainRoot
  <1>3. \A n : (Was(n)' <=> Was(n)) /\ (Pub(n)' <=> Pub(n))
    BY <1>1 DEF Was, Pub
  <1>4. \A D : Doomed(D)' <=> Doomed(D)
    BY <1>1 DEF Doomed, Nodes
  <1>5. \A n : Cov(n)' <=> Cov(n)
    BY <1>4 DEF Cov
  <1>6. \A n : Due(n)' <=> Due(n)
    BY <1>1, <1>5 DEF Due, Nodes
  <1>7. ASSUME NEW n
        PROVE  Heard(n) => Heard(n)'
    <2>1. Told(heap[n].leaf) => Told(heap[n].leaf)'
      BY <1>1 DEF Told, Shut
    <2>2. ASSUME NEW y, Due(y), Meets(n, y)
          PROVE  Due(y)' /\ Meets(n, y)'
      BY <1>1, <1>6, <2>2 DEF Meets
    <2> QED BY <2>1, <2>2 DEF Heard
  <1>8. LeftNodes'
    BY <1>1, <1>2, <1>3, <1>5 DEF LInv, LeftNodes
  <1>9. LeftValues'
    BY <1>1, <1>2, <1>3, <1>7 DEF LInv, LeftValues
  <1>10. LeftBefore'
    BY <1>1, <1>2, <1>3 DEF LInv, LeftBefore, Shut
  <1>11. NothingLeft'
    BY <1>1 DEF LInv, NothingLeft
  <1> QED BY <1>8, <1>9, <1>10, <1>11 DEF LInv

\* A step of anybody.
LEMMA NextLInv ==
    ASSUME IInv, SInv, NInv, VInv, LInv, [Next]_vars
    PROVE  LInv'
  <1>1. CASE Next
    <2>1. ASSUME NEW w \in Writer, Begin(w) \/ Step(w)
          PROVE  LInv'
      BY <1>1, <2>1, MainLeft, OtherBeginLeft, OtherStepLeft
    <2>2. CASE Notify
      BY <1>1, <2>2, NotifyLeft
    <2>3. ASSUME NEW r \in Reader,
                 \/ \E kind \in {"key", "prefix"}, t \in trees, k \in Key :
                       ReadStart(r, kind, t, k)
                 \/ Read(r)
          PROVE  LInv'
      BY <1>1, <2>3, ReadLeft
    <2>4. CASE Quiet
      BY <2>4, QuietStep DEF Quiet
    <2> QED BY <1>1, <2>1, <2>2, <2>3, <2>4 DEF Next
  <1>2. CASE UNCHANGED vars
    BY <1>2, QuietStep
  <1> QED BY <1>1, <1>2

\* Nothing has left the first tree, and nothing is recorded.
LEMMA InitLInv ==
    ASSUME Init
    PROVE  LInv
  <1>1. /\ notifier = NoNotifier /\ current = 1 /\ txn[Main].root = Nil
        /\ lineage = {1} /\ pend = {}
    BY MainAssumption DEF Init, NoTxn
  <1>2. ASSUME NEW T, NEW n, MainTree(T), Was(n)
        PROVE  n \in T
    <2>1. PICK d : Live(heap, IdleOp, 1, T, d)
      BY <1>1, <1>2 DEF MainTree, MainOp, MainRoot
    <2>2. PICK U, e : Live(heap, IdleOp, 1, U, e) /\ n \in U
      BY <1>1, <1>2 DEF Was
    <2>3. \A S, c : Live(heap, IdleOp, 1, S, c) => IsTree(S, Plain(heap), 1, c)
      BY IdleType, PlainEdges DEF Live, RadixTree, Cutting, Plain
    <2>4. IsTree(T, Plain(heap), 1, d) /\ IsTree(U, Plain(heap), 1, e)
      BY <2>1, <2>2, <2>3
    <2> QED BY <2>2, <2>4, TreeUnique
  <1>3. LeftNodes /\ LeftValues
    BY <1>2 DEF LeftNodes, LeftValues
  <1>4. LeftBefore /\ NothingLeft
    BY <1>1 DEF LeftBefore, NothingLeft
  <1> QED BY <1>3, <1>4 DEF LInv

\* A node or a value that was published, and that the tree Main writes on does
\* not hold, is sealed or recorded in the Notifier, in the middle of calls and
\* of transactions that are aborted or taken up again too.
THEOREM LeftInvariance == Spec => [](IInv /\ SInv /\ NInv /\ VInv /\ LInv)
  <1>1. Init => IInv /\ SInv /\ NInv /\ VInv /\ LInv
    BY InitIInv, InitSInv, InitNInv, InitVInv, InitLInv
  <1>2. IInv /\ SInv /\ NInv /\ VInv /\ LInv /\ [Next]_vars
           => (IInv /\ SInv /\ NInv /\ VInv /\ LInv)'
    BY NextStep, NextSInv, NextNInv, NextVInv, NextLInv
  <1> QED BY <1>1, <1>2, PTL DEF Spec

\* Nobody who watches a published tree is forgotten: when Notify has returned,
\* each node and each value that is in an old tree and not in the current one
\* is sealed, however many transactions lie between the two.
THEOREM NothingForgotten == Spec => []LeftIsSealed
  <1>1. ASSUME IInv, SInv, NInv, LInv
        PROVE  LeftIsSealed
    <2> DEFINE now == Reach(current)
               values == {heap[m].val : m \in now} \ {NoVal}
    <2>1. SUFFICES ASSUME Settled, NEW t \in lineage, NEW n \in Reach(t) \ now
                   PROVE  /\ heap[n].watch = "sealed"
                          /\ heap[n].val \notin values \cup {NoVal} =>
                                /\ heap[n].leaf # Nil
                                /\ leaves[heap[n].leaf] = "sealed"
      BY DEF LeftIsSealed
    <2>2. txn[Main].root = Nil /\ op[Main].pc # "notify"
      BY <1>1, <2>1, MainAssumption DEF Settled
    <2>3. current \in trees /\ t \in trees
      BY <1>1, <2>1 DEF IInv, TypeOK, PubOK
    <2>4. PICK C, c : Live(heap, IdleOp, current, C, c)
      BY <1>1 DEF NInv, CurTree
    <2>5. PICK T, d : Live(heap, IdleOp, t, T, d)
      BY <1>1, <2>3 DEF SInv, LiveTree
    <2>6. now = C /\ Reach(t) = T
      BY <1>1, <2>3, <2>4, <2>5, ReachIsTree
    <2>7. CurTree(C) /\ Was(n) /\ n \notin C
      BY <2>1, <2>4, <2>5, <2>6 DEF CurTree, Was
    <2>8. /\ heap[n].watch = "sealed"
          /\ heap[n].val # NoVal => \/ \E m \in C : heap[m].val = heap[n].val
                                    \/ Shut(heap[n].leaf)
      BY <1>1, <2>2, <2>7, QuietLeft
    <2> QED BY <2>6, <2>8 DEF Shut
  <1> QED BY <1>1, LeftInvariance, PTL
=============================================================================
