-------------------------- MODULE RadixNotify_proofs --------------------------
(***************************************************************************)
(* SealedHasLeft and RecordedOnce of RadixTrees, for every value of the    *)
(* constants.  What the Notifier records has left the tree of Main's       *)
(* transaction, object by object: a node, the identity of a value, all of  *)
(* a subtree.  So once that tree is the published one, nothing in it is    *)
(* sealed.                                                                 *)
(***************************************************************************)
EXTENDS RadixShape_proofs

-----------------------------------------------------------------------------
(* Watch slots and leaves in a step of anybody but Notify                   *)

\* The leaf l comes from node c: it is c's, or the one that x, which had none,
\* has just been given.
Gets(l, c, x) == \/ l = Nil \/ l = heap[c].leaf
                 \/ (c = x /\ heap[c].leaf = Nil /\ l = Len(leaves) + 1)

\* So does the leaf of a node that is added, which is a copy of x or has none.
Copied(k, l, x) == l = Nil \/ (k = New /\ x \in Nodes /\ Gets(l, x, x))

\* Heap g differs from heap in nothing that seals: x may have got a leaf, a node
\* may have lost its own, and New may have taken over x's.
SlotsTo(g, x) ==
    /\ g \in Seq(NodeType) /\ Len(heap) <= Len(g)
    /\ \A k \in Nodes : /\ g[k].epoch = heap[k].epoch
                        /\ g[k].watch = "sealed" => heap[k].watch = "sealed"
                        /\ Gets(g[k].leaf, k, x)
    /\ \A k \in (1..Len(g)) \ Nodes :
          /\ g[k].watch = "nil"
          /\ Copied(k, g[k].leaf, x)

\* No slot of a leaf is sealed.
LeavesKept ==
    /\ Len(leaves) <= Len(leaves')
    /\ \A l \in 1..Len(leaves') :
          leaves'[l] = "sealed" <=>
             (l \in 1..Len(leaves) /\ leaves[l] = "sealed")

Slots(x) == SlotsTo(heap', x) /\ LeavesKept

\* The heap itself.
LEMMA SlotsBase ==
    ASSUME IInv, NEW x
    PROVE  SlotsTo(heap, x)
  <1>1. heap \in Seq(NodeType) /\ Len(heap) \in Nat
    BY MainAssumption, Facts
  <1> QED BY <1>1 DEF SlotsTo, Gets, Nodes

\* A node that is replaced by one with its leaf, or with none.
LEMMA SlotsPut ==
    ASSUME IInv, NEW x, NEW g, SlotsTo(g, x), NEW p \in 1..Len(g),
           NEW y \in NodeType, y.epoch = g[p].epoch,
           y.watch = g[p].watch \/ (p \in Nodes /\ y.watch # "sealed"),
           y.leaf = g[p].leaf \/ y.leaf = Nil
    PROVE  SlotsTo([g EXCEPT ![p] = y], x) /\ Len([g EXCEPT ![p] = y]) = Len(g)
  <1> DEFINE f == [g EXCEPT ![p] = y]
  <1>1. /\ g \in Seq(NodeType) /\ f \in Seq(NodeType) /\ Len(f) = Len(g)
        /\ \A k \in 1..Len(g) : f[k] = IF k = p THEN y ELSE g[k]
    BY DEF SlotsTo
  <1>2. Nodes \subseteq 1..Len(g)
    BY <1>1, MainAssumption, Facts DEF SlotsTo, Nodes
  <1> HIDE DEF f
  <1>3. ASSUME NEW k \in Nodes
        PROVE  /\ f[k].epoch = heap[k].epoch
               /\ f[k].watch = "sealed" => heap[k].watch = "sealed"
               /\ Gets(f[k].leaf, k, x)
    BY <1>1, <1>2 DEF SlotsTo, Gets
  <1>4. ASSUME NEW k \in (1..Len(g)) \ Nodes
        PROVE  /\ f[k].watch = "nil"
               /\ Copied(k, f[k].leaf, x)
    BY <1>1, <1>4 DEF SlotsTo, Copied
  <1>5. Len(heap) <= Len(f)
    BY <1>1 DEF SlotsTo
  <1> QED BY <1>1, <1>3, <1>4, <1>5 DEF SlotsTo, f

\* link changes no slot.
LEMMA SlotsLink ==
    ASSUME IInv, NEW x, NEW g, SlotsTo(g, x), NEW p \in 0..Len(g), NEW l,
           NEW c \in Nat
    PROVE  SlotsTo(link(g, p, l, c), x) /\ Len(link(g, p, l, c)) = Len(g)
  <1>1. CASE p = Nil
    BY <1>1 DEF link
  <1>2. CASE p # Nil
    <2> DEFINE y == [g[p] EXCEPT !.kids = [@ EXCEPT ![l] = c]]
    <2>1. g \in Seq(NodeType) /\ p \in 1..Len(g) /\ g[p] \in NodeType
      BY <1>2 DEF SlotsTo, Nil
    <2>2. link(g, p, l, c) = [g EXCEPT ![p] = y]
      BY <1>2 DEF link
    <2>3. /\ y \in NodeType /\ y.epoch = g[p].epoch /\ y.watch = g[p].watch
          /\ y.leaf = g[p].leaf
      BY <2>1 DEF NodeType
    <2> HIDE DEF y
    <2>4. /\ SlotsTo([g EXCEPT ![p] = y], x)
          /\ Len([g EXCEPT ![p] = y]) = Len(g)
      BY <2>1, <2>3, SlotsPut
    <2> QED BY <2>2, <2>4
  <1> QED BY <1>1, <1>2

\* A node without a watcher is added.
LEMMA SlotsAppend ==
    ASSUME IInv, NEW x, NEW g, SlotsTo(g, x), NEW y \in NodeType,
           y.watch = "nil",
           \/ y.leaf = Nil
           \/ Len(g) = Len(heap) /\ x \in Nodes /\ Gets(y.leaf, x, x)
    PROVE  SlotsTo(Append(g, y), x) /\ Len(Append(g, y)) = Len(g) + 1
  <1> DEFINE f == Append(g, y)
  <1>1. /\ g \in Seq(NodeType) /\ f \in Seq(NodeType) /\ Len(f) = Len(g) + 1
        /\ \A k \in 1..Len(g) : f[k] = g[k]
        /\ f[Len(g) + 1] = y
    BY DEF SlotsTo
  <1>2. Len(heap) \in Nat /\ Len(g) \in Nat /\ Nodes \subseteq 1..Len(g)
    BY <1>1, MainAssumption, Facts DEF SlotsTo, Nodes
  <1> HIDE DEF f
  <1>3. ASSUME NEW k \in Nodes
        PROVE  /\ f[k].epoch = heap[k].epoch
               /\ f[k].watch = "sealed" => heap[k].watch = "sealed"
               /\ Gets(f[k].leaf, k, x)
    BY <1>1, <1>2 DEF SlotsTo
  <1>4. ASSUME NEW k \in (1..Len(f)) \ Nodes
        PROVE  /\ f[k].watch = "nil"
               /\ Copied(k, f[k].leaf, x)
    <2>1. CASE k \in 1..Len(g)
      BY <1>1, <1>4, <2>1 DEF SlotsTo
    <2>2. CASE k = Len(g) + 1
      BY <1>1, <2>2 DEF New, Copied
    <2> QED BY <1>1, <1>2, <1>4, <2>1, <2>2
  <1>5. Len(heap) <= Len(f)
    BY <1>1, <1>2 DEF SlotsTo
  <1> QED BY <1>1, <1>3, <1>4, <1>5 DEF SlotsTo, f

\* leafOf gives the node a leaf if it has none, and the copy takes it.
LEMMA SlotsWithLeaf ==
    ASSUME IInv, NEW w \in Writer, NEW n \in Nodes
    PROVE  /\ SlotsTo(WithLeaf(w, n), n) /\ Len(WithLeaf(w, n)) = Len(heap)
           /\ Gets(shareLeaf(w, n), n, n)
  <1>1. /\ heap \in Seq(NodeType) /\ Len(heap) \in Nat /\ heap[n] \in NodeType
        /\ Len(leaves) \in Nat /\ n \in 1..Len(heap) /\ Nodes = 1..Len(heap)
    BY Facts DEF Nodes
  <1>2. Gets(shareLeaf(w, n), n, n)
    BY DEF shareLeaf, Gets, NeedsLeaf
  <1>3. CASE ~NeedsLeaf(w, n)
    BY <1>2, <1>3, SlotsBase DEF WithLeaf
  <1>4. CASE NeedsLeaf(w, n)
    <2> DEFINE y == [heap[n] EXCEPT !.leaf = Len(leaves) + 1]
               f == [heap EXCEPT ![n] = y]
    <2>1. WithLeaf(w, n) = f
      BY <1>4 DEF WithLeaf
    <2>a. heap[n] \in NodeType /\ Len(leaves) + 1 \in Nat
      BY <1>1
    <2>2. /\ y \in NodeType /\ y.epoch = heap[n].epoch
          /\ y.watch = heap[n].watch /\ y.leaf = Len(leaves) + 1
      BY <2>a DEF NodeType
    <2> HIDE DEF y
    <2>3. /\ f \in Seq(NodeType) /\ Len(f) = Len(heap)
          /\ \A k \in 1..Len(heap) : f[k] = IF k = n THEN y ELSE heap[k]
      BY <1>1, <2>2
    <2> HIDE DEF f
    <2>4. heap[n].leaf = Nil
      BY <1>4 DEF NeedsLeaf
    <2>5. \A k \in Nodes : /\ f[k].epoch = heap[k].epoch
                           /\ f[k].watch = heap[k].watch
                           /\ Gets(f[k].leaf, k, n)
      BY <1>1, <2>2, <2>3, <2>4 DEF Gets
    <2>6. SlotsTo(f, n)
      BY <1>1, <2>3, <2>5 DEF SlotsTo
    <2> QED BY <1>2, <2>1, <2>3, <2>6
  <1> QED BY <1>3, <1>4

\* The slots of the leaves when leafOf may make one.
LEMMA LeavesMade ==
    ASSUME IInv, leaves' = leaves \/ \E s \in SlotState \ {"sealed"} :
                                        leaves' = Append(leaves, s)
    PROVE  LeavesKept
  <1>1. leaves \in Seq(SlotState) /\ Len(leaves) \in Nat
    BY MainAssumption, Facts
  <1>2. CASE leaves' = leaves
    BY <1>1, <1>2 DEF LeavesKept
  <1>3. ASSUME NEW s \in SlotState \ {"sealed"}, leaves' = Append(leaves, s)
        PROVE  LeavesKept
    <2>1. /\ Len(leaves') = Len(leaves) + 1 /\ leaves'[Len(leaves) + 1] = s
          /\ \A l \in 1..Len(leaves) : leaves'[l] = leaves[l]
      BY <1>1, <1>3
    <2>2. s # "sealed"
      OBVIOUS
    <2>3. \A l \in 1..Len(leaves') : l \in 1..Len(leaves) \/ l = Len(leaves) + 1
      BY <1>1, <2>1
    <2> QED BY <1>1, <2>1, <2>2, <2>3 DEF LeavesKept
  <1> QED BY <1>2, <1>3

\* Nothing in memory changes.
LEMMA SlotsStill ==
    ASSUME IInv, heap' = heap, leaves' = leaves, NEW x
    PROVE  Slots(x)
  BY SlotsBase, LeavesMade DEF Slots

\* own, and the copy in particular.
LEMMA SlotsOwn ==
    ASSUME IInv, NEW w \in Writer, NEW n \in Nodes, NEW extra \in {0, 1},
           own(w, n, extra)
    PROVE  Slots(n)
  <1>1. /\ heap \in Seq(NodeType) /\ Len(heap) \in Nat /\ New = Len(heap) + 1
        /\ op[w].parent \in 0..Len(heap) /\ New \in Nat
    BY Facts DEF New, Ref
  <1>2. CASE ownKeep(w, n, extra)
    BY <1>2, SlotsStill DEF ownKeep
  <1>3. CASE ownGrow(w, n, extra)
    <2> DEFINE k == KidCount(n) + extra
               c == copyNode(w, n, KidCount(n) + extra)
               y == [c EXCEPT !.lob = heap[n].lob]
               g == link(heap, op[w].parent, op[w].l, New)
    <2>1. KidCount(n) + extra \in 0..(Cardinality(Byte) + 1)
      <3>1. KidCount(n) \in 0..Cardinality(Byte)
        BY KidCountType
      <3>2. Cardinality(Byte) \in Nat
        BY ByteAssumption, FS_CardinalityType
      <3> QED BY <3>1, <3>2
    <2>2. /\ c \in NodeType /\ c.watch = "nil" /\ c.leaf = shareLeaf(w, n)
      BY <2>1, CopyType
    <2>3. heap[n] \in NodeType
      BY Facts
    <2> HIDE DEF c
    <2>4. /\ y \in NodeType /\ y.watch = "nil" /\ y.leaf = shareLeaf(w, n)
      BY <2>2, <2>3 DEF NodeType
    <2> HIDE DEF y
    <2>5. SlotsTo(heap, n)
      BY SlotsBase
    <2>6. SlotsTo(g, n) /\ Len(g) = Len(heap)
      BY <1>1, <2>5, SlotsLink
    <2> HIDE DEF g
    <2>7. shareLeaf(w, n) = Nil \/ shareLeaf(w, n) = heap[n].leaf
      BY <1>3 DEF ownGrow, shareLeaf, NeedsLeaf
    <2>8. Gets(y.leaf, n, n)
      BY <2>4, <2>7 DEF Gets
    <2>9. SlotsTo(Append(g, y), n)
      BY <2>4, <2>6, <2>8, SlotsAppend
    <2>10. heap' = Append(g, y) /\ leaves' = leaves
      BY <1>3 DEF ownGrow, g, y, c
    <2> QED BY <2>9, <2>10, LeavesMade DEF Slots
  <1>4. CASE ownCopy(w, n, extra)
    <2> DEFINE y == copyNode(w, n, extra)
               h == WithLeaf(w, n)
               g == link(h, op[w].parent, op[w].l, New)
    <2>1. extra \in 0..(Cardinality(Byte) + 1)
      BY ByteAssumption, FS_CardinalityType
    <2>2. /\ y \in NodeType /\ y.watch = "nil" /\ y.leaf = shareLeaf(w, n)
      BY <2>1, CopyType
    <2> HIDE DEF y
    <2>3. /\ SlotsTo(h, n) /\ Len(h) = Len(heap)
          /\ Gets(shareLeaf(w, n), n, n)
      BY SlotsWithLeaf
    <2> HIDE DEF h
    <2>4. SlotsTo(g, n) /\ Len(g) = Len(heap)
      BY <1>1, <2>3, SlotsLink
    <2> HIDE DEF g
    <2>5. Gets(y.leaf, n, n)
      BY <2>2, <2>3
    <2>6. SlotsTo(Append(g, y), n)
      BY <2>2, <2>4, <2>5, SlotsAppend
    <2>7. heap' = Append(g, y)
      BY <1>4 DEF ownCopy, g, y, h
    <2>8. leaves' = leaves \/ leaves' = Append(leaves, "nil")
      BY <1>4 DEF ownCopy, MakeLeaf
    <2>9. LeavesKept
      BY <2>8, LeavesMade DEF SlotState
    <2> QED BY <2>6, <2>7, <2>9 DEF Slots
  <1> QED BY <1>2, <1>3, <1>4 DEF own

\* ownValueless.
LEMMA SlotsValueless ==
    ASSUME IInv, NEW w \in Writer, NEW n \in Nodes, NEW v \in Nat,
           NEW bit \in {0, 1}, ownValueless(w, n, v, bit)
    PROVE  Slots(n)
  <1>1. /\ heap \in Seq(NodeType) /\ Len(heap) \in Nat /\ New = Len(heap) + 1
        /\ op[w].parent \in 0..Len(heap) /\ New \in Nat /\ n \in 1..Len(heap)
        /\ heap[n] \in NodeType
    BY Facts DEF New, Ref, Nodes
  <1>2. SlotsTo(heap, n)
    BY SlotsBase
  <1>3. CASE Owns(w, n)
    <2> DEFINE y == [heap[n] EXCEPT !.leaf = Nil, !.val = v, !.lob = bit]
    <2>1. /\ y \in NodeType /\ y.epoch = heap[n].epoch
          /\ y.watch = heap[n].watch /\ y.leaf = Nil
      <3>1. heap[n] \in NodeType /\ Nil \in Nat
        BY <1>1 DEF Nil
      <3> QED BY <3>1 DEF NodeType
    <2> HIDE DEF y
    <2>2. SlotsTo([heap EXCEPT ![n] = y], n)
      BY <1>1, <1>2, <2>1, SlotsPut
    <2>3. heap' = [heap EXCEPT ![n] = y] /\ leaves' = leaves
      BY <1>3 DEF ownValueless, y
    <2> QED BY <2>2, <2>3, LeavesMade DEF Slots
  <1>4. CASE ~Owns(w, n)
    <2> DEFINE c == copyShape(w, n, 0)
               y == [c EXCEPT !.val = v, !.lob = bit]
               g == link(heap, op[w].parent, op[w].l, New)
    <2>1. 0 \in 0..(Cardinality(Byte) + 1)
      BY ByteAssumption, FS_CardinalityType
    <2>2. /\ c \in NodeType /\ c.watch = "nil" /\ c.leaf = Nil
      BY <2>1, CopyType
    <2> HIDE DEF c
    <2>3. /\ y \in NodeType /\ y.watch = "nil" /\ y.leaf = Nil
      BY <2>2 DEF NodeType
    <2> HIDE DEF y
    <2>4. SlotsTo(g, n) /\ Len(g) = Len(heap)
      BY <1>1, <1>2, SlotsLink
    <2> HIDE DEF g
    <2>5. SlotsTo(Append(g, y), n)
      BY <2>3, <2>4, SlotsAppend
    <2>6. heap' = Append(g, y) /\ leaves' = leaves
      BY <1>4 DEF ownValueless, g, y, c
    <2> QED BY <2>5, <2>6, LeavesMade DEF Slots
  <1> QED BY <1>3, <1>4

\* mergeChild, whose copy is of c.
LEMMA SlotsMerge ==
    ASSUME IInv, NEW w \in Writer, NEW n \in Nodes, NEW c \in Nodes, NEW nf,
           op[w].parent # Nil, mergeChild(w, nf, n, c)
    PROVE  Slots(c)
  <1> DEFINE p == op[w].parent
             l == op[w].l
             joined == heap[n].prefix \o heap[c].prefix
  <1>1. /\ heap \in Seq(NodeType) /\ Len(heap) \in Nat /\ New = Len(heap) + 1
        /\ p \in 0..Len(heap) /\ p # Nil /\ New \in Nat /\ c \in 1..Len(heap)
        /\ heap[c] \in NodeType /\ c \in Nat
    BY Facts DEF New, Ref, Nodes
  <1>2. joined \in Seq(Byte)
    <2>1. heap[n] \in NodeType /\ heap[c] \in NodeType
      BY Facts
    <2>2. heap[n].prefix \in Seq(Byte) /\ heap[c].prefix \in Seq(Byte)
      BY <2>1 DEF NodeType
    <2> QED BY <2>2
  <1> HIDE DEF joined
  <1>3. leaves' = leaves \/ leaves' = Append(leaves, "nil")
    BY DEF mergeChild, MakeLeaf
  <1>4. LeavesKept
    BY <1>3, LeavesMade DEF SlotState
  <1>5. CASE Owns(w, c) /\ ~Childless(c)
    <2> DEFINE y == [heap[c] EXCEPT !.prefix = joined]
               h == [heap EXCEPT ![c] = y]
               g == link(h, p, l, c)
    <2>1. /\ y \in NodeType /\ y.epoch = heap[c].epoch
          /\ y.watch = heap[c].watch /\ y.leaf = heap[c].leaf
      BY <1>1, <1>2 DEF NodeType
    <2> HIDE DEF y
    <2>2. SlotsTo(heap, c)
      BY SlotsBase
    <2>3. SlotsTo(h, c) /\ Len(h) = Len(heap)
      BY <1>1, <2>1, <2>2, SlotsPut
    <2> HIDE DEF h
    <2>4. SlotsTo(g, c)
      BY <1>1, <2>3, SlotsLink
    <2>5. heap' = g
      BY <1>1, <1>5 DEF mergeChild, h, y, link, joined
    <2> QED BY <1>4, <2>4, <2>5 DEF Slots
  <1>6. CASE ~(Owns(w, c) /\ ~Childless(c))
    <2> DEFINE b == IF Owns(w, c) THEN heap[c].lob ELSE 0
               x == copyNode(w, c, 0)
               y == [x EXCEPT !.prefix = joined, !.lob = b]
               h == WithLeaf(w, c)
               g == link(h, p, l, New)
    <2>1. 0 \in 0..(Cardinality(Byte) + 1)
      BY ByteAssumption, FS_CardinalityType
    <2>2. /\ x \in NodeType /\ x.watch = "nil" /\ x.leaf = shareLeaf(w, c)
      BY <2>1, CopyType
    <2> HIDE DEF x
    <2>3. b \in {0, 1}
      BY <1>1 DEF NodeType
    <2> HIDE DEF b
    <2>4. /\ y \in NodeType /\ y.watch = "nil" /\ y.leaf = shareLeaf(w, c)
      BY <1>2, <2>2, <2>3 DEF NodeType
    <2> HIDE DEF y
    <2>5. /\ SlotsTo(h, c) /\ Len(h) = Len(heap)
          /\ Gets(shareLeaf(w, c), c, c)
      BY SlotsWithLeaf
    <2> HIDE DEF h
    <2>6. SlotsTo(g, c) /\ Len(g) = Len(heap)
      BY <1>1, <2>5, SlotsLink
    <2> HIDE DEF g
    <2>7. Gets(y.leaf, c, c)
      BY <2>4, <2>5
    <2>8. SlotsTo(Append(g, y), c)
      BY <2>4, <2>6, <2>7, SlotsAppend
    <2>9. heap' = Append(g, y)
      BY <1>6 DEF mergeChild, g, y, h, x, b, joined
    <2> QED BY <1>4, <2>8, <2>9 DEF Slots
  <1> QED BY <1>5, <1>6

\* Insert: the value is stored, or the node is made the transaction's own first.
LEMMA SlotsInsertValue ==
    ASSUME IInv, NEW w \in Writer, InsertValue(w)
    PROVE  op[w].n \in Nodes /\ Slots(op[w].n)
  <1> DEFINE n == op[w].n
             v == op[w].val
  <1>1. n \in Nodes /\ n \in 1..Len(heap) /\ heap[n] \in NodeType /\ v \in Nat
    <2>1. op[w].pc = "insert" /\ op[w].n # Nil
      BY Facts DEF InsertValue, At, CallAt, InsertPc
    <2>2. op[w].n \in Nodes
      BY <2>1, Facts
    <2> QED BY <2>2, Facts DEF OpType, Nodes
  <1>2. CASE /\ heap[n].val # NoVal /\ Owns(w, n) /\ heap[n].lob = 1
             /\ heap' = [heap EXCEPT ![n].val = v] /\ UNCHANGED leaves
    <2> DEFINE y == [heap[n] EXCEPT !.val = v]
    <2>1. /\ y \in NodeType /\ y.epoch = heap[n].epoch
          /\ y.watch = heap[n].watch /\ y.leaf = heap[n].leaf
      BY <1>1 DEF NodeType
    <2>2. heap' = [heap EXCEPT ![n] = y]
      BY <1>2
    <2> HIDE DEF y
    <2>3. SlotsTo(heap, n)
      BY SlotsBase
    <2>4. SlotsTo([heap EXCEPT ![n] = y], n)
      BY <1>1, <2>1, <2>3, SlotsPut
    <2> QED BY <1>1, <1>2, <2>2, <2>4, LeavesMade DEF Slots
  <1>3. CASE ownValueless(w, n, v, 1)
    BY <1>1, <1>3, SlotsValueless
  <1> QED BY <1>1, <1>2, <1>3 DEF InsertValue

\* Insert makes its node, or the parent of its new leaf, owned.
LEMMA SlotsInsertOwn ==
    ASSUME IInv, NEW w \in Writer, InsertOwn(w)
    PROVE  op[w].n \in Nodes /\ Slots(op[w].n)
  <1>1. op[w].pc = "insert" /\ op[w].n # Nil
    BY Facts DEF InsertOwn, At, CallAt, InsertPc
  <1>2. op[w].n \in Nodes
    BY <1>1, Facts
  <1>3. \E extra \in {0, 1} : own(w, op[w].n, extra)
    BY DEF InsertOwn
  <1> QED BY <1>2, <1>3, SlotsOwn

\* Insert hangs a leaf.
LEMMA SlotsInsertHang ==
    ASSUME IInv, NEW w \in Writer, InsertHang(w), NEW z
    PROVE  Slots(z)
  <1> DEFINE n == op[w].n
             b == Head(op[w].search)
             g == link(heap, n, b, New)
             y == leafNode(w, op[w].search, op[w].val)
  <1>1. /\ n # Nil /\ n \in 0..Len(heap) /\ New \in Nat
        /\ op[w].search \in Seq(Byte) /\ op[w].val \in Nat
    BY Facts DEF InsertHang, At, CallAt, InsertPc, Ref, New, OpType
  <1>2. /\ y \in NodeType /\ y.watch = "nil"
    BY <1>1, LeafNodeType
  <1>3. y.leaf = Nil
    BY DEF leafNode, EmptyNode
  <1>4. heap' = Append(g, y) /\ leaves' = leaves
    BY <1>1 DEF InsertHang, link
  <1> HIDE DEF y
  <1>5. SlotsTo(heap, z)
    BY SlotsBase
  <1>6. SlotsTo(g, z)
    BY <1>1, <1>5, SlotsLink
  <1> HIDE DEF g
  <1>7. SlotsTo(Append(g, y), z)
    BY <1>2, <1>3, <1>6, SlotsAppend
  <1> QED BY <1>4, <1>7, LeavesMade DEF Slots

\* Insert takes up a child to be split.
LEMMA SlotsInsertSplitCopy ==
    ASSUME IInv, NEW w \in Writer, InsertSplitCopy(w)
    PROVE  /\ Kid(op[w].n, Head(op[w].search)) \in Nodes
           /\ Slots(Kid(op[w].n, Head(op[w].search)))
  <1> DEFINE c == Kid(op[w].n, Head(op[w].search))
  <1>1. c \in Nodes
    <2>1. /\ op[w].pc = "split" /\ op[w].n # Nil /\ op[w].search # <<>>
          /\ c # Nil /\ op[w].search \in Seq(Byte)
      BY Facts DEF InsertSplitCopy, At, CallAt, InsertPc, OpType
    <2>2. Head(op[w].search) \in Byte
      BY <2>1
    <2>3. op[w].n \in Nodes
      BY <2>1, Facts
    <2> QED BY <2>1, <2>2, <2>3, Facts DEF Kid
  <1>2. CASE UNCHANGED mem
    BY <1>1, <1>2, SlotsStill DEF mem
  <1>3. CASE /\ heap' = Append(WithLeaf(w, c), copyNode(w, c, 0))
             /\ MakeLeaf(w, c)
    <2> DEFINE y == copyNode(w, c, 0)
               h == WithLeaf(w, c)
    <2>1. 0 \in 0..(Cardinality(Byte) + 1)
      BY ByteAssumption, FS_CardinalityType
    <2>2. /\ y \in NodeType /\ y.watch = "nil" /\ y.leaf = shareLeaf(w, c)
      BY <1>1, <2>1, CopyType
    <2> HIDE DEF y
    <2>3. /\ SlotsTo(h, c) /\ Len(h) = Len(heap)
          /\ Gets(shareLeaf(w, c), c, c)
      BY <1>1, SlotsWithLeaf
    <2> HIDE DEF h
    <2>4. Gets(y.leaf, c, c)
      BY <2>2, <2>3
    <2>5. SlotsTo(Append(h, y), c)
      BY <1>1, <2>2, <2>3, <2>4, SlotsAppend
    <2>6. heap' = Append(h, y)
      BY <1>3 DEF y, h
    <2>7. leaves' = leaves \/ leaves' = Append(leaves, "nil")
      BY <1>3 DEF MakeLeaf
    <2>8. LeavesKept
      BY <2>7, LeavesMade DEF SlotState
    <2> QED BY <1>1, <2>5, <2>6, <2>8 DEF Slots
  <1> QED BY <1>1, <1>2, <1>3 DEF InsertSplitCopy

\* DeletePrefix at the root.
LEMMA SlotsDeleteAll ==
    ASSUME IInv, NEW w \in Writer, DeleteAll(w), NEW z
    PROVE  Slots(z)
  <1> DEFINE y == EmptyNode(txn[w].epoch)
  <1>1. txn[w].epoch \in Nat
    BY Facts
  <1>2. y \in NodeType
    BY <1>1, NewNodeType
  <1>3. y.leaf = Nil /\ y.watch = "nil"
    BY DEF EmptyNode
  <1>4. heap' = Append(heap, y) /\ leaves' = leaves
    BY DEF DeleteAll
  <1> HIDE DEF y
  <1>5. SlotsTo(heap, z)
    BY SlotsBase
  <1>6. SlotsTo(Append(heap, y), z)
    BY <1>2, <1>3, <1>5, SlotsAppend
  <1> QED BY <1>4, <1>6, LeavesMade DEF Slots

\* ownPath.
LEMMA SlotsOwnPath ==
    ASSUME IInv, NEW w \in Writer, OwnPath(w)
    PROVE  /\ op[w].path[1].n \in Nodes /\ Slots(op[w].path[1].n)
           /\ own(w, op[w].path[1].n, 0)
  <1>1. /\ op[w].pc = "ownpath" /\ op[w].path \in PathType
        /\ Len(op[w].path) >= IF op[w].goal = "pull" THEN 2 ELSE 1
    BY Facts DEF OwnPath, At, CallAt, OpType
  <1>2. Len(op[w].path) >= 1 /\ Head(op[w].path) = op[w].path[1]
    BY <1>1 DEF PathType
  <1>3. op[w].path[1].n \in Nodes
    BY <1>1, <1>2, Facts DEF PathType
  <1>4. own(w, op[w].path[1].n, 0)
    BY <1>2 DEF OwnPath
  <1> QED BY <1>3, <1>4, SlotsOwn

\* delKid.
LEMMA SlotsCut ==
    ASSUME IInv, NEW w \in Writer, Cut(w), NEW z
    PROVE  Slots(z)
  <1>1. op[w].parent # Nil /\ op[w].parent \in 0..Len(heap) /\ Nil \in Nat
    BY Facts DEF Cut, At, CallAt, Ref, Nil
  <1>2. /\ heap' = link(heap, op[w].parent, op[w].l, Nil)
        /\ leaves' = leaves
    BY <1>1 DEF Cut, link
  <1>3. SlotsTo(heap, z)
    BY SlotsBase
  <1>4. SlotsTo(link(heap, op[w].parent, op[w].l, Nil), z)
    BY <1>1, <1>3, SlotsLink
  <1> QED BY <1>2, <1>4, LeavesMade DEF Slots

\* Delete keeps the node, without its value.
LEMMA SlotsClear ==
    ASSUME IInv, NEW w \in Writer, Clear(w)
    PROVE  /\ op[w].m \in Nodes /\ Slots(op[w].m)
           /\ ownValueless(w, op[w].m, NoVal, 0)
  <1>1. op[w].m # Nil
    BY Facts DEF Clear, At, CallAt, GoalPc
  <1>2. op[w].m \in Nodes
    BY <1>1, Facts
  <1>3. ownValueless(w, op[w].m, NoVal, 0)
    BY DEF Clear
  <1> QED BY <1>2, <1>3, SlotsValueless DEF NoVal

\* Insert splits the child: a node in the middle, and a new leaf if need be.
LEMMA SlotsInsertSplit ==
    ASSUME IInv, NEW w \in Writer, InsertSplit(w), NEW q
    PROVE  Slots(q)
  <1> DEFINE n == op[w].n
             m == op[w].m
             search == op[w].search
             prefix == heap[m].prefix
             b == Head(search)
  <1>1. op[w].pc = "fork" /\ leaves' = leaves
    BY DEF InsertSplit, At
  <1>2. /\ search \in Seq(Byte) /\ op[w].val \in Nat
        /\ n # Nil /\ n \in Nodes /\ m # Nil /\ m \in Nodes /\ m \in Nat
        /\ heap[m] \in NodeType /\ prefix \in Seq(Byte)
    <2>1. op[w] \in OpType /\ n # Nil /\ m # Nil
      BY <1>1, Facts DEF CallAt, InsertPc
    <2>2. n \in Nodes /\ m \in Nodes
      BY <2>1, Facts
    <2>3. heap[m] \in NodeType /\ m \in Nat
      BY <2>2, Facts
    <2> QED BY <2>1, <2>2, <2>3 DEF OpType, NodeType
  <1>3. PICK common \in 1..(Len(prefix) - 1) :
            LET split == [EmptyNode(txn[w].epoch) EXCEPT
                            !.prefix = SubSeq(prefix, 1, common),
                            !.kids = [@ EXCEPT ![prefix[common + 1]] = m],
                            !.cap = Class(2)]
                h == [[heap EXCEPT ![m].prefix = Drop(prefix, common)]
                        EXCEPT ![n].kids[b] = New]
            IN  \/ heap' = Append(h, [split EXCEPT !.val = op[w].val,
                                                   !.lob = 1])
                \/ /\ common < Len(search)
                   /\ heap' = Append(Append(h,
                        [split EXCEPT !.kids[search[common + 1]] = New + 1]),
                        leafNode(w, Drop(search, common), op[w].val))
    BY DEF InsertSplit
  <1> DEFINE x == [heap[m] EXCEPT !.prefix = Drop(prefix, common)]
             f == [heap EXCEPT ![m] = x]
             h == link(f, n, b, New)
             e == EmptyNode(txn[w].epoch)
             kids == [e.kids EXCEPT ![prefix[common + 1]] = m]
             split == [e EXCEPT !.prefix = SubSeq(prefix, 1, common),
                                !.kids = kids, !.cap = Class(2)]
             y == [split EXCEPT !.val = op[w].val, !.lob = 1]
             z == [split EXCEPT !.kids = [kids EXCEPT
                                            ![search[common + 1]] = New + 1]]
             leaf == leafNode(w, Drop(search, common), op[w].val)
  <1>4. /\ Len(prefix) \in Nat /\ Len(search) \in Nat /\ common \in Nat
        /\ common + 1 \in 1..Len(prefix) /\ prefix[common + 1] \in Byte
        /\ SubSeq(prefix, 1, common) \in Seq(Byte)
        /\ Drop(prefix, common) \in Seq(Byte)
        /\ Drop(search, common) \in Seq(Byte)
    <2>1. Len(prefix) \in Nat /\ Len(search) \in Nat
      BY <1>2
    <2>2. common \in Nat /\ common + 1 \in 1..Len(prefix)
          /\ common \in 1..Len(prefix)
      BY <2>1
    <2>3. prefix[common + 1] \in Byte
      BY <1>2, <2>2
    <2>4. SubSeq(prefix, 1, common) \in Seq(Byte)
      BY <1>2, <2>1, <2>2, SubSeqProperties
    <2>5. /\ Drop(prefix, common) \in Seq(Byte)
          /\ Drop(search, common) \in Seq(Byte)
      BY <1>2, <2>2, DropType
    <2> QED BY <2>1, <2>2, <2>3, <2>4, <2>5
  <1>5. \/ heap' = Append(h, y)
        \/ heap' = Append(Append(h, z), leaf)
    <2>1. h = [[heap EXCEPT ![m].prefix = Drop(prefix, common)]
                     EXCEPT ![n].kids[b] = New]
      BY <1>2 DEF link
    <2>2. split.kids = kids
      BY DEF EmptyNode
    <2> QED BY <1>3, <2>1, <2>2
  <1>6. /\ heap \in Seq(NodeType) /\ Len(heap) \in Nat /\ New \in Nat
        /\ m \in 1..Len(heap) /\ n \in 0..Len(heap) /\ txn[w].epoch \in Nat
        /\ New + 1 \in Nat
    BY <1>2, Facts DEF New, Nodes
  <1>7. SlotsTo(h, q) /\ Len(h) = Len(heap)
    <2>1. /\ x \in NodeType /\ x.epoch = heap[m].epoch
          /\ x.watch = heap[m].watch /\ x.leaf = heap[m].leaf
      BY <1>2, <1>4 DEF NodeType
    <2> HIDE DEF x
    <2>2. SlotsTo(heap, q)
      BY SlotsBase
    <2>3. SlotsTo(f, q) /\ Len(f) = Len(heap)
      BY <1>6, <2>1, <2>2, SlotsPut
    <2> HIDE DEF f
    <2> QED BY <1>6, <2>3, SlotsLink
  <1>8. /\ split \in NodeType /\ split.watch = "nil" /\ split.leaf = Nil
        /\ kids \in [Byte -> Nat]
    <2>1. e \in NodeType /\ e.kids = NoKids
      BY <1>6, NewNodeType
    <2>2. e.watch = "nil" /\ e.leaf = Nil
      BY DEF EmptyNode
    <2> HIDE DEF e
    <2>3. kids \in [Byte -> Nat]
      BY <1>2, <2>1 DEF NoKids, Nil
    <2>4. Class(2) \in Nat
      <3>1. Cardinality(Byte) \in Nat /\ Cardinality(Byte) # 0
        BY <1>4, ByteAssumption, FS_CardinalityType, FS_EmptySet
      <3>2. 2 \in 0..(2 * Cardinality(Byte) + 1)
        BY <3>1
      <3> QED BY <3>2, ClassType
    <2> HIDE DEF kids
    <2>5. split \in NodeType
      BY <1>4, <2>1, <2>3, <2>4 DEF NodeType
    <2> QED BY <2>1, <2>2, <2>3, <2>5 DEF NodeType
  <1> HIDE DEF h, e, kids, split
  <1>9. ASSUME heap' = Append(h, y) PROVE SlotsTo(heap', q)
    <2>1. /\ y \in NodeType /\ y.watch = "nil" /\ y.leaf = Nil
      BY <1>2, <1>8 DEF NodeType
    <2> HIDE DEF y
    <2> QED BY <1>7, <1>9, <2>1, SlotsAppend
  <1>10. ASSUME heap' = Append(Append(h, z), leaf) PROVE SlotsTo(heap', q)
    <2> DEFINE zkids == [kids EXCEPT ![search[common + 1]] = New + 1]
    <2>1. zkids \in [Byte -> Nat]
      BY <1>6, <1>8, KidsExcept
    <2> HIDE DEF zkids
    <2>2. /\ z \in NodeType /\ z.watch = "nil" /\ z.leaf = Nil
      BY <1>8, <2>1 DEF NodeType, zkids
    <2> HIDE DEF z
    <2>3. SlotsTo(Append(h, z), q)
      BY <1>7, <2>2, SlotsAppend
    <2>4. leaf \in NodeType /\ leaf.watch = "nil"
      BY <1>2, <1>4, <1>6, LeafNodeType
    <2>5. leaf.leaf = Nil
      BY DEF leafNode, EmptyNode
    <2> HIDE DEF leaf
    <2> QED BY <1>10, <2>3, <2>4, <2>5, SlotsAppend
  <1> QED BY <1>1, <1>5, <1>9, <1>10, LeavesMade DEF Slots

\* The slot of a leaf changes, and is not sealed by that.
LEMMA LeavesSet ==
    ASSUME IInv, NEW l \in 1..Len(leaves), NEW s \in SlotState,
           s = "sealed" => leaves[l] = "sealed",
           leaves[l] = "sealed" => s = "sealed",
           leaves' = [leaves EXCEPT ![l] = s]
    PROVE  LeavesKept
  <1>1. leaves \in Seq(SlotState) /\ Len(leaves) \in Nat
    BY MainAssumption, Facts
  <1>2. /\ Len(leaves') = Len(leaves)
        /\ \A k \in 1..Len(leaves) : leaves'[k] = IF k = l THEN s ELSE leaves[k]
    BY <1>1
  <1> QED BY <1>1, <1>2 DEF LeavesKept

\* Where a reader stands.
LEMMA ReaderAt ==
    ASSUME IInv, NEW r \in Reader, rd[r].pc \in {"slot", "value"}
    PROVE  rd[r].n \in Nodes
  <1>1. rd[r].n \in Ref /\ rd[r].n # Nil
    BY DEF IInv, TypeOK, RdOK
  <1> QED BY <1>1, MainAssumption, Facts

\* Watch.Chan: a slot that is empty gets a channel.
LEMMA SlotsSlotChan ==
    ASSUME IInv, NEW r \in Reader, SlotChan(r)
    PROVE  Slots(rd[r].n)
  <1> DEFINE n == rd[r].n
             s == IF heap[n].watch = "nil" THEN "live" ELSE heap[n].watch
             y == [heap[n] EXCEPT !.watch = s]
  <1>1. n \in Nodes
    BY ReaderAt DEF SlotChan
  <1>2. heap[n] \in NodeType /\ n \in 1..Len(heap)
    BY <1>1, MainAssumption, Facts DEF Nodes
  <1>3. s \in SlotState
    BY <1>2 DEF NodeType, SlotState
  <1>4. s = heap[n].watch \/ s # "sealed"
    OBVIOUS
  <1>5. heap' = [heap EXCEPT ![n] = y] /\ leaves' = leaves
    BY DEF SlotChan
  <1> HIDE DEF s
  <1>6. /\ y \in NodeType /\ y.epoch = heap[n].epoch /\ y.watch = s
        /\ y.leaf = heap[n].leaf
    BY <1>2, <1>3 DEF NodeType
  <1> HIDE DEF y
  <1>7. SlotsTo(heap, n)
    BY SlotsBase
  <1>8. SlotsTo([heap EXCEPT ![n] = y], n)
    BY <1>1, <1>2, <1>4, <1>6, <1>7, SlotsPut
  <1> QED BY <1>5, <1>8, LeavesMade DEF Slots

\* valueChan: a leaf with a channel in it, or a channel for the leaf.
LEMMA SlotsValueChan ==
    ASSUME IInv, NEW r \in Reader, ValueChan(r)
    PROVE  Slots(rd[r].n)
  <1> DEFINE n == rd[r].n
             l == heap[n].leaf
  <1>1. n \in Nodes
    BY ReaderAt DEF ValueChan
  <1>2. /\ heap \in Seq(NodeType) /\ heap[n] \in NodeType /\ n \in 1..Len(heap)
        /\ l \in 0..Len(leaves) /\ Len(leaves) \in Nat /\ Nodes = 1..Len(heap)
        /\ leaves \in Seq(SlotState)
    BY <1>1, MainAssumption, Facts DEF Nodes
  <1>3. SlotsTo(heap, n)
    BY SlotsBase
  <1>4. CASE l = Nil
    <2> DEFINE y == [heap[n] EXCEPT !.leaf = Len(leaves) + 1]
               f == [heap EXCEPT ![n] = y]
    <2>1. heap' = f /\ leaves' = Append(leaves, "live")
      BY <1>4 DEF ValueChan
    <2>2. heap[n] \in NodeType /\ Len(leaves) + 1 \in Nat
      BY <1>2
    <2>3. /\ y \in NodeType /\ y.epoch = heap[n].epoch
          /\ y.watch = heap[n].watch /\ y.leaf = Len(leaves) + 1
      BY <2>2 DEF NodeType
    <2> HIDE DEF y
    <2>4. /\ f \in Seq(NodeType) /\ Len(f) = Len(heap)
          /\ \A k \in 1..Len(heap) : f[k] = IF k = n THEN y ELSE heap[k]
      BY <1>2, <2>3
    <2> HIDE DEF f
    <2>5. \A k \in Nodes : /\ f[k].epoch = heap[k].epoch
                           /\ f[k].watch = heap[k].watch
                           /\ Gets(f[k].leaf, k, n)
      BY <1>2, <1>4, <2>3, <2>4 DEF Gets
    <2>6. SlotsTo(f, n)
      BY <1>2, <2>4, <2>5 DEF SlotsTo
    <2>7. LeavesKept
      BY <2>1, LeavesMade DEF SlotState
    <2> QED BY <2>1, <2>6, <2>7 DEF Slots
  <1>5. CASE l # Nil
    <2> DEFINE s == IF leaves[l] = "nil" THEN "live" ELSE leaves[l]
    <2>1. heap' = heap /\ leaves' = [leaves EXCEPT ![l] = s]
      BY <1>5 DEF ValueChan
    <2>2. l \in 1..Len(leaves)
      BY <1>2, <1>5 DEF Nil
    <2>3. leaves[l] \in SlotState
      BY <1>2, <2>2
    <2>4. s \in SlotState /\ (s = "sealed" <=> leaves[l] = "sealed")
      BY <2>3 DEF SlotState
    <2> HIDE DEF s
    <2>5. LeavesKept
      BY <2>1, <2>2, <2>4, LeavesSet
    <2> QED BY <1>3, <2>1, <2>5 DEF Slots
  <1> QED BY <1>4, <1>5

-----------------------------------------------------------------------------
(* What the Notifier knows, and what is left in the trees                   *)

Items(s) == {s[i] : i \in 1..Len(s)}

\* The tree Main writes on, or will write on: the one of its transaction, as
\* its call sees it, or the one it published last.
MainOp == IF txn[Main].root = Nil THEN IdleOp ELSE op[Main]
MainRoot == IF txn[Main].root = Nil THEN current ELSE txn[Main].root
MainTree(T) == \E d : Live(heap, MainOp, MainRoot, T, d)
CurTree(C) == \E d : Live(heap, IdleOp, current, C, d)

\* Nothing in T is sealed, and no two of its nodes share a leaf.
Clean(T) ==
    /\ \A n \in T : /\ heap[n].watch # "sealed"
                    /\ heap[n].leaf # Nil => leaves[heap[n].leaf] # "sealed"
    /\ \A n, m \in T :
          heap[n].leaf # Nil /\ heap[n].leaf = heap[m].leaf => n = m

\* D holds what sealSubtree may come to.
Doomed(D) == /\ D \subseteq Nodes /\ Closed(D, Plain(heap))
             /\ Items(notifier.subtrees) \subseteq D
             /\ notifier.sealing \subseteq D

\* Nothing in T is recorded, by itself, as a value or as part of a subtree.
Apart(T, D) ==
    /\ \A n \in T : /\ n \notin Items(notifier.nodes)
                    /\ n \notin Items(notifier.values) \cup D
    /\ \A n \in T : heap[n].leaf # Nil =>
          /\ heap[n].leaf \notin Items(notifier.leaves)
          /\ \A y \in Items(notifier.values) \cup D :
                heap[y].leaf # heap[n].leaf

NInv ==
    /\ leaves[sealedLeaf] = "sealed" /\ RecordedOnce
    /\ \E T, D : MainTree(T) /\ Doomed(D) /\ Clean(T) /\ Apart(T, D)
    /\ \E C : CurTree(C) /\ Clean(C)

\* What comes of T in a step that replaces x at most, when x's leaf has gone to
\* New, is as clean as T was.
Passes(T, S, x) ==
    /\ T \subseteq Nodes /\ S \subseteq 1..Len(heap')
    /\ \A k \in S : k \in Nodes => k \in T
    /\ New \in S /\ heap'[New].leaf # Nil => x \in T \ S

\* Where a leaf in S was before: at the node itself, or at the one that New
\* is a copy of.
Origin(k, x) == IF k \in Nodes THEN k ELSE x

\* Every leaf in S was at its origin, or is new there.
LEMMA Origins ==
    ASSUME IInv, NEW x, Slots(x), NEW T, NEW S, Passes(T, S, x), NEW k \in S,
           heap'[k].leaf # Nil
    PROVE  /\ Origin(k, x) \in T /\ Gets(heap'[k].leaf, Origin(k, x), x)
           /\ k \notin Nodes => k = New
           /\ heap[Origin(k, x)].leaf \in 0..Len(leaves)
  <1>1. CASE k \in Nodes
    <2>1. k \in T /\ Gets(heap'[k].leaf, k, x)
      BY <1>1 DEF Passes, Slots, SlotsTo
    <2>2. heap[k].leaf \in 0..Len(leaves)
      BY <1>1, MainAssumption, Facts
    <2> QED BY <1>1, <2>1, <2>2 DEF Origin
  <1>2. CASE k \notin Nodes
    <2>1. k \in (1..Len(heap')) \ Nodes
      BY <1>2 DEF Passes
    <2>2. k = New /\ Gets(heap'[k].leaf, x, x)
      BY <2>1 DEF Slots, SlotsTo, Copied
    <2>3. x \in T /\ x \in Nodes
      BY <2>2 DEF Passes
    <2>4. heap[x].leaf \in 0..Len(leaves)
      BY <2>3, MainAssumption, Facts
    <2> QED BY <1>2, <2>2, <2>3, <2>4 DEF Origin
  <1> QED BY <1>1, <1>2

\* Nodes with the same leaf have it from the same node, and are the same.
LEMMA SameOrigin ==
    ASSUME IInv, NEW x, Slots(x), NEW T, NEW S, Passes(T, S, x),
           NEW k \in S, NEW j \in S, heap'[k].leaf # Nil,
           heap'[j].leaf # Nil, Origin(k, x) = Origin(j, x)
    PROVE  k = j
  <1>1. /\ k \notin Nodes => k = New
        /\ j \notin Nodes => j = New
    BY Origins
  <1>2. ASSUME k \in Nodes, j \notin Nodes PROVE FALSE
    BY <1>1, <1>2 DEF Passes, Origin
  <1>3. ASSUME j \in Nodes, k \notin Nodes PROVE FALSE
    BY <1>1, <1>3 DEF Passes, Origin
  <1> QED BY <1>1, <1>2, <1>3 DEF Origin

\* A leaf is where it was, or new.
LEMMA SameLeaf ==
    ASSUME NEW l, NEW c, NEW e, NEW x, l # Nil, Gets(l, c, x), Gets(l, e, x),
           heap[c].leaf \in 0..Len(leaves), heap[e].leaf \in 0..Len(leaves),
           Len(leaves) \in Nat
    PROVE  \/ c = e
           \/ l = heap[c].leaf /\ l = heap[e].leaf
  BY DEF Gets

\* The pointers of the next state.
LEMMA FactsNext ==
    ASSUME IInv'
    PROVE  /\ heap' \in Seq(NodeType) /\ Len(heap') \in Nat
           /\ leaves' \in Seq(SlotState) /\ Len(leaves') \in Nat
           /\ \A n \in 1..Len(heap') : /\ heap'[n] \in NodeType
                                       /\ heap'[n].leaf \in 0..Len(leaves')
  <1>1. /\ heap' \in Seq(NodeType) /\ leaves' \in Seq(SlotState)
        /\ \A n \in 1..Len(heap') : heap'[n].leaf <= Len(leaves')
    BY DEF IInv, TypeOK, HeapOK, Nodes
  <1>2. \A n \in 1..Len(heap') : heap'[n] \in NodeType
    BY <1>1
  <1>3. \A n \in 1..Len(heap') : heap'[n].leaf \in Nat
    BY <1>2 DEF NodeType
  <1>4. Len(heap') \in Nat /\ Len(leaves') \in Nat
    BY <1>1
  <1> QED BY <1>1, <1>2, <1>3, <1>4

\* So S is clean.
LEMMA CleanKept ==
    ASSUME IInv, IInv', NEW x, Slots(x), NEW T, NEW S, Passes(T, S, x), Clean(T)
    PROVE  Clean(S)'
  <1>1. /\ Len(leaves) \in Nat /\ Len(leaves') \in Nat /\ Len(heap') \in Nat
        /\ Len(leaves) <= Len(leaves')
    BY MainAssumption, Facts, FactsNext DEF Slots, LeavesKept
  <1>2. ASSUME NEW k \in S PROVE heap'[k].watch # "sealed"
    <2>1. CASE k \in Nodes
      BY <2>1 DEF Slots, SlotsTo, Passes, Clean
    <2>2. CASE k \notin Nodes
      <3>1. k \in (1..Len(heap')) \ Nodes
        BY <2>2 DEF Passes
      <3> QED BY <3>1 DEF Slots, SlotsTo
    <2> QED BY <2>1, <2>2
  <1>3. ASSUME NEW k \in S, heap'[k].leaf # Nil
        PROVE  leaves'[heap'[k].leaf] # "sealed"
    <2> DEFINE l == heap'[k].leaf
               a == Origin(k, x)
    <2>1. /\ a \in T /\ Gets(l, a, x) /\ heap[a].leaf \in 0..Len(leaves)
      BY <1>3, Origins
    <2>2. l \in 1..Len(leaves')
      <3>1. k \in 1..Len(heap')
        BY DEF Passes
      <3>2. l \in 0..Len(leaves')
        BY <3>1, FactsNext
      <3> QED BY <1>1, <1>3, <3>2 DEF Nil
    <2>3. leaves'[l] = "sealed" <=>
             (l \in 1..Len(leaves) /\ leaves[l] = "sealed")
      BY <2>2 DEF Slots, LeavesKept
    <2>4. CASE l = heap[a].leaf
      BY <1>3, <2>1, <2>3, <2>4 DEF Clean
    <2>5. CASE l = Len(leaves) + 1
      BY <1>1, <2>3, <2>5
    <2> QED BY <1>3, <2>1, <2>4, <2>5 DEF Gets
  <1>4. ASSUME NEW k \in S, NEW j \in S, heap'[k].leaf # Nil,
               heap'[k].leaf = heap'[j].leaf
        PROVE  k = j
    <2> DEFINE l == heap'[k].leaf
               a == Origin(k, x)
               e == Origin(j, x)
    <2>1. /\ a \in T /\ Gets(l, a, x) /\ heap[a].leaf \in 0..Len(leaves)
      BY <1>4, Origins
    <2>2. heap'[j].leaf # Nil
      BY <1>4
    <2>3. /\ e \in T /\ Gets(l, e, x) /\ heap[e].leaf \in 0..Len(leaves)
      BY <1>4, <2>2, Origins
    <2> HIDE DEF a, e
    <2>4. a = e \/ (l = heap[a].leaf /\ l = heap[e].leaf)
      BY <1>1, <1>4, <2>1, <2>3, SameLeaf
    <2>5. a = e
      BY <1>4, <2>1, <2>3, <2>4 DEF Clean
    <2> QED BY <1>4, <2>2, <2>5, SameOrigin DEF a, e
  <1> QED BY <1>2, <1>3, <1>4 DEF Clean

\* What the step adds to the Notifier: nodes of N, values of V, leaves of A.
Records(N, V, A) ==
    /\ Items(notifier'.nodes) \subseteq Items(notifier.nodes) \cup N
    /\ Items(notifier'.values) \subseteq Items(notifier.values) \cup V
    /\ Items(notifier'.leaves) \subseteq Items(notifier.leaves) \cup A

\* Z are the nodes that lose their values.
Loses(T, S, Z, E, x) ==
    /\ Z \subseteq T /\ E \subseteq Z \ S
    /\ \A k \in S \cap Z : heap'[k].leaf = Nil
    /\ New \in S /\ heap'[New].leaf # Nil => x \notin Z
    /\ Records(T \ S, Z \ S, {heap[a].leaf : a \in Z})

\* What is recorded is nodes and leaves.
LEMMA RecordedRange ==
    ASSUME IInv
    PROVE  /\ Items(notifier.nodes) \subseteq Nodes
           /\ Items(notifier.values) \subseteq Nodes
           /\ Items(notifier.subtrees) \subseteq Nodes
           /\ notifier.sealing \subseteq Nodes
           /\ Items(notifier.leaves) \subseteq 0..Len(leaves)
  BY DEF IInv, TypeOK, NotifierOK, NotifierType, Items

\* So S is apart from what is recorded: E is what left as a subtree.
LEMMA ApartKept ==
    ASSUME IInv, IInv', NEW x, Slots(x), NEW T, NEW S, Passes(T, S, x), Clean(T),
           NEW D, D \subseteq Nodes, Apart(T, D), NEW Z, NEW E,
           Loses(T, S, Z, E, x)
    PROVE  Apart(S, D \cup E)'
  <1>1. /\ Len(leaves) \in Nat /\ Len(heap) \in Nat
        /\ Items(notifier.nodes) \subseteq Nodes
        /\ Items(notifier.values) \subseteq Nodes
        /\ Items(notifier.leaves) \subseteq 0..Len(leaves)
        /\ Z \subseteq T /\ T \subseteq Nodes /\ E \subseteq Z \ S
    BY MainAssumption, Facts, RecordedRange DEF Loses, Passes
  <1>2. ASSUME NEW k \in S
        PROVE  /\ k \notin Items(notifier'.nodes)
               /\ k \notin Items(notifier'.values) \cup (D \cup E)
    <2>1. k \in Nodes => k \in T
      BY DEF Passes
    <2>2. k \notin Items(notifier.nodes) /\ k \notin Items(notifier.values) \cup D
      BY <1>1, <2>1 DEF Apart
    <2> QED BY <1>1, <2>2 DEF Loses, Records
  <1>3. ASSUME NEW k \in S, heap'[k].leaf # Nil
        PROVE  /\ heap'[k].leaf \notin Items(notifier'.leaves)
               /\ \A y \in Items(notifier'.values) \cup (D \cup E) :
                     heap'[y].leaf # heap'[k].leaf
    <2> DEFINE l == heap'[k].leaf
               a == Origin(k, x)
    <2>1. /\ a \in T /\ Gets(l, a, x) /\ heap[a].leaf \in 0..Len(leaves)
          /\ k \notin Nodes => k = New
      BY <1>3, Origins
    <2>2. a \notin Z
      <3>1. CASE k \in Nodes
        BY <1>3, <3>1 DEF Origin, Loses
      <3>2. CASE k \notin Nodes
        BY <1>3, <2>1, <3>2 DEF Origin, Loses
      <3> QED BY <3>1, <3>2
    <2> HIDE DEF l, a
    <2>3. l # Nil
      BY <1>3 DEF l
    <2>4. ASSUME l \in Items(notifier'.leaves) PROVE FALSE
      <3>1. CASE l \in Items(notifier.leaves)
        <4>1. l \in 0..Len(leaves)
          BY <1>1, <3>1
        <4>2. l = heap[a].leaf
          BY <1>1, <2>1, <2>3, <4>1 DEF Gets
        <4> QED BY <2>1, <2>3, <3>1, <4>2 DEF Apart
      <3>2. CASE \E z \in Z : l = heap[z].leaf
        <4>1. PICK z \in Z : l = heap[z].leaf
          BY <3>2
        <4>2. z \in T /\ heap[z].leaf \in 0..Len(leaves)
          BY <1>1, MainAssumption, Facts
        <4>3. l = heap[a].leaf
          BY <1>1, <2>1, <2>3, <4>1, <4>2 DEF Gets
        <4>4. a = z
          BY <2>1, <2>3, <4>1, <4>2, <4>3 DEF Clean
        <4> QED BY <2>2, <4>4
      <3> QED BY <2>4, <3>1, <3>2 DEF Loses, Records
    <2>5. ASSUME NEW y \in Items(notifier'.values) \cup (D \cup E),
                 heap'[y].leaf = l
          PROVE  FALSE
      <3>1. /\ y \in Items(notifier.values) \cup D \/ y \in Z
            /\ y \in Nodes
        BY <1>1 DEF Loses, Records
      <3>2. Gets(l, y, x) /\ heap[y].leaf \in 0..Len(leaves)
        <4>1. heap[y].leaf \in 0..Len(leaves)
          BY <3>1, MainAssumption, Facts
        <4> QED BY <2>5, <3>1, <4>1 DEF Slots, SlotsTo
      <3>3. a = y \/ (l = heap[a].leaf /\ l = heap[y].leaf)
        BY <1>1, <2>1, <2>3, <3>2, SameLeaf
      <3>4. CASE y \in Items(notifier.values) \cup D
        <4>1. y \notin T
          BY <3>4 DEF Apart
        <4>2. l = heap[a].leaf /\ l = heap[y].leaf
          BY <2>1, <3>3, <4>1
        <4> QED BY <2>1, <2>3, <3>4, <4>2 DEF Apart
      <3>5. CASE y \in Z
        <4>1. y \in T
          BY <1>1, <3>5
        <4>2. a = y
          BY <2>1, <2>3, <3>3, <4>1 DEF Clean
        <4> QED BY <2>2, <3>5, <4>2
      <3> QED BY <3>1, <3>4, <3>5
    <2> QED BY <2>4, <2>5 DEF l
  <1> QED BY <1>2, <1>3 DEF Apart
-----------------------------------------------------------------------------
(* Lists of the Notifier                                                    *)

\* A list that gets longer.
LEMMA AppendItems ==
    ASSUME NEW s \in Seq(Nat), NEW e \in Nat
    PROVE  /\ Append(s, e) \in Seq(Nat)
           /\ Items(Append(s, e)) = Items(s) \cup {e}
           /\ Distinct(s) /\ e \notin Items(s) => Distinct(Append(s, e))
  <1> DEFINE f == Append(s, e)
  <1>1. /\ f \in Seq(Nat) /\ Len(f) = Len(s) + 1 /\ Len(s) \in Nat
        /\ \A i \in 1..Len(s) : f[i] = s[i]
        /\ f[Len(s) + 1] = e
        /\ DOMAIN f = 1..Len(f) /\ DOMAIN s = 1..Len(s)
    OBVIOUS
  <1> HIDE DEF f
  <1>2. \A i \in 1..Len(f) : i \in 1..Len(s) \/ i = Len(s) + 1
    BY <1>1
  <1>3. Items(f) \subseteq Items(s) \cup {e}
    BY <1>1, <1>2 DEF Items
  <1>4. 1..Len(s) \subseteq 1..Len(f) /\ Len(s) + 1 \in 1..Len(f)
    BY <1>1
  <1>5. Items(s) \cup {e} \subseteq Items(f)
    BY <1>1, <1>4 DEF Items
  <1>6. ASSUME Distinct(s), e \notin Items(s) PROVE Distinct(f)
    <2>1. ASSUME NEW i \in 1..Len(f), NEW j \in 1..Len(f), f[i] = f[j]
          PROVE  i = j
      <3>1. \A k \in 1..Len(s) : s[k] # e
        BY <1>6 DEF Items
      <3> QED BY <1>1, <1>2, <1>6, <2>1, <3>1 DEF Distinct
    <2> QED BY <1>1, <2>1 DEF Distinct
  <1> QED BY <1>1, <1>3, <1>5, <1>6 DEF f

\* A list that loses its first element.
LEMMA TailItems ==
    ASSUME NEW s \in Seq(Nat), s # <<>>
    PROVE  /\ Head(s) \in Items(s) /\ Items(Tail(s)) \subseteq Items(s)
           /\ Items(s) \subseteq Items(Tail(s)) \cup {Head(s)}
           /\ Distinct(s) => Distinct(Tail(s))
  <1> DEFINE f == Tail(s)
  <1>1. /\ f \in Seq(Nat) /\ Len(s) \in Nat /\ Len(s) >= 1
        /\ Len(f) = Len(s) - 1 /\ Head(s) = s[1]
        /\ \A i \in 1..Len(f) : f[i] = s[i + 1]
        /\ DOMAIN f = 1..Len(f) /\ DOMAIN s = 1..Len(s)
    OBVIOUS
  <1> HIDE DEF f
  <1>2. \A i \in 1..Len(f) : i + 1 \in 1..Len(s)
    BY <1>1
  <1>3. Head(s) \in Items(s) /\ Items(f) \subseteq Items(s)
    BY <1>1, <1>2 DEF Items
  <1>4. ASSUME NEW i \in 1..Len(s) PROVE s[i] \in Items(f) \cup {Head(s)}
    <2>1. CASE i = 1
      BY <1>1, <2>1
    <2>2. CASE i # 1
      <3>1. i - 1 \in 1..Len(f) /\ (i - 1) + 1 = i
        BY <1>1, <2>2
      <3> QED BY <1>1, <3>1 DEF Items
    <2> QED BY <2>1, <2>2
  <1>5. ASSUME Distinct(s) PROVE Distinct(f)
    <2>1. ASSUME NEW i \in 1..Len(f), NEW j \in 1..Len(f), f[i] = f[j]
          PROVE  i = j
      <3>1. s[i + 1] = s[j + 1] /\ i + 1 \in 1..Len(s) /\ j + 1 \in 1..Len(s)
        BY <1>1, <1>2, <2>1
      <3>2. i + 1 = j + 1
        BY <1>1, <1>5, <3>1 DEF Distinct
      <3> QED BY <1>1, <3>2
    <2> QED BY <1>1, <2>1 DEF Distinct
  <1> QED BY <1>3, <1>4, <1>5 DEF Items, f

Lists(nf) == nf \in [nodes : Seq(Nat), leaves : Seq(Nat), values : Seq(Nat),
                     subtrees : Seq(Nat), sealing : SUBSET Nat]
Once(nf) == Distinct(nf.nodes) /\ Distinct(nf.leaves) /\ Distinct(nf.values)
            /\ Distinct(nf.subtrees)

\* ng is nf with nodes of N, values of V, leaves of A and subtrees of B added,
\* and nothing twice.
Adds(nf, ng, N, V, A, B) ==
    /\ Lists(ng) /\ Once(ng) /\ ng.sealing = nf.sealing
    /\ Items(ng.nodes) \subseteq Items(nf.nodes) \cup N
    /\ Items(ng.values) \subseteq Items(nf.values) \cup V
    /\ Items(ng.leaves) \subseteq Items(nf.leaves) \cup A
    /\ Items(ng.subtrees) \subseteq Items(nf.subtrees) \cup B

\* Nothing is added.
LEMMA AddNone ==
    ASSUME NEW nf, Lists(nf), Once(nf)
    PROVE  Adds(nf, nf, {}, {}, {}, {})
  BY DEF Adds

\* One thing after the other.
LEMMA AddsThen ==
    ASSUME NEW nf, NEW ng, NEW nh, NEW N, NEW V, NEW A, NEW B, NEW M, NEW W,
           NEW C, NEW F, Adds(nf, ng, N, V, A, B), Adds(ng, nh, M, W, C, F)
    PROVE  Adds(nf, nh, N \cup M, V \cup W, A \cup C, B \cup F)
  BY DEF Adds

\* dropNode, dropLeaf, dropValue and dropSubtree.
LEMMA AddOne ==
    ASSUME NEW nf, Lists(nf), Once(nf), NEW e \in Nat
    PROVE  /\ e \notin Items(nf.nodes) =>
                 Adds(nf, dropNode(Main, nf, e), {e}, {}, {}, {})
           /\ e \notin Items(nf.values) =>
                 Adds(nf, dropValue(Main, nf, e), {}, {e}, {}, {})
           /\ e \notin Items(nf.leaves) =>
                 Adds(nf, dropLeaf(Main, nf, e), {}, {}, {e}, {})
           /\ e \notin Items(nf.subtrees) =>
                 Adds(nf, dropSubtree(Main, nf, e), {}, {}, {}, {e})
  <1>1. /\ nf.nodes \in Seq(Nat) /\ nf.values \in Seq(Nat)
        /\ nf.leaves \in Seq(Nat) /\ nf.subtrees \in Seq(Nat)
    BY DEF Lists
  <1>2. ASSUME e \notin Items(nf.nodes)
        PROVE  Adds(nf, dropNode(Main, nf, e), {e}, {}, {}, {})
    <2> DEFINE s == Append(nf.nodes, e)
               ng == [nf EXCEPT !.nodes = s]
    <2>1. s \in Seq(Nat) /\ Distinct(s) /\ Items(s) = Items(nf.nodes) \cup {e}
      BY <1>1, <1>2, AppendItems DEF Once
    <2> HIDE DEF s
    <2>2. /\ Lists(ng) /\ ng.nodes = s /\ ng.values = nf.values
          /\ ng.leaves = nf.leaves /\ ng.subtrees = nf.subtrees
          /\ ng.sealing = nf.sealing
      BY <2>1 DEF Lists
    <2>3. dropNode(Main, nf, e) = ng
      BY DEF dropNode, s
    <2> HIDE DEF ng
    <2> QED BY <2>1, <2>2, <2>3 DEF Adds, Once
  <1>3. ASSUME e \notin Items(nf.values)
        PROVE  Adds(nf, dropValue(Main, nf, e), {}, {e}, {}, {})
    <2> DEFINE s == Append(nf.values, e)
               ng == [nf EXCEPT !.values = s]
    <2>1. s \in Seq(Nat) /\ Distinct(s) /\ Items(s) = Items(nf.values) \cup {e}
      BY <1>1, <1>3, AppendItems DEF Once
    <2> HIDE DEF s
    <2>2. /\ Lists(ng) /\ ng.nodes = nf.nodes /\ ng.values = s
          /\ ng.leaves = nf.leaves /\ ng.subtrees = nf.subtrees
          /\ ng.sealing = nf.sealing
      BY <2>1 DEF Lists
    <2>3. dropValue(Main, nf, e) = ng
      BY DEF dropValue, s
    <2> HIDE DEF ng
    <2> QED BY <2>1, <2>2, <2>3 DEF Adds, Once
  <1>4. ASSUME e \notin Items(nf.leaves)
        PROVE  Adds(nf, dropLeaf(Main, nf, e), {}, {}, {e}, {})
    <2> DEFINE s == Append(nf.leaves, e)
               ng == [nf EXCEPT !.leaves = s]
    <2>1. s \in Seq(Nat) /\ Distinct(s) /\ Items(s) = Items(nf.leaves) \cup {e}
      BY <1>1, <1>4, AppendItems DEF Once
    <2> HIDE DEF s
    <2>2. /\ Lists(ng) /\ ng.nodes = nf.nodes /\ ng.values = nf.values
          /\ ng.leaves = s /\ ng.subtrees = nf.subtrees
          /\ ng.sealing = nf.sealing
      BY <2>1 DEF Lists
    <2>3. dropLeaf(Main, nf, e) = ng
      BY DEF dropLeaf, s
    <2> HIDE DEF ng
    <2> QED BY <2>1, <2>2, <2>3 DEF Adds, Once
  <1>5. ASSUME e \notin Items(nf.subtrees)
        PROVE  Adds(nf, dropSubtree(Main, nf, e), {}, {}, {}, {e})
    <2> DEFINE s == Append(nf.subtrees, e)
               ng == [nf EXCEPT !.subtrees = s]
    <2>1. s \in Seq(Nat) /\ Distinct(s) /\ Items(s) = Items(nf.subtrees) \cup {e}
      BY <1>1, <1>5, AppendItems DEF Once
    <2> HIDE DEF s
    <2>2. /\ Lists(ng) /\ ng.nodes = nf.nodes /\ ng.values = nf.values
          /\ ng.leaves = nf.leaves /\ ng.subtrees = s
          /\ ng.sealing = nf.sealing
      BY <2>1 DEF Lists
    <2>3. dropSubtree(Main, nf, e) = ng
      BY DEF dropSubtree, s
    <2> HIDE DEF ng
    <2> QED BY <2>1, <2>2, <2>3 DEF Adds, Once
  <1> QED BY <1>2, <1>3, <1>4, <1>5

\* n, unless the transaction made it.
Lent(n) == IF Owns(Main, n) THEN {} ELSE {n}

\* A node that is replaced is recorded if others may hold it.
LEMMA AddReplaced ==
    ASSUME NEW nf, Lists(nf), Once(nf), NEW n \in Nat, n \notin Items(nf.nodes)
    PROVE  Adds(nf, dropReplaced(Main, nf, n), Lent(n), {}, {}, {})
  BY AddOne, AddNone DEF dropReplaced, Lent

\* A value that goes is recorded by its node, or by the leaf the transaction's
\* copy has taken over, or not at all if nobody has seen it.
LEMMA AddReleased ==
    ASSUME IInv, txn[Main].epoch # 0, NEW nf, Lists(nf), Once(nf),
           NEW n \in Nodes, n \notin Items(nf.values), heap[n].val # NoVal,
           heap[n].leaf # Nil => heap[n].leaf \notin Items(nf.leaves)
    PROVE  Adds(nf, releaseValue(Main, nf, n), {}, Lent(n), {heap[n].leaf}, {})
  <1>1. n \in Nat /\ heap[n].leaf \in Nat
    BY MainAssumption, Facts
  <1>2. CASE ~Owns(Main, n)
    <2>1. Adds(nf, dropValue(Main, nf, n), {}, {n}, {}, {})
      BY <1>1, AddOne
    <2> QED BY <1>2, <2>1 DEF releaseValue, Lent, Adds
  <1>3. CASE Owns(Main, n) /\ heap[n].lob = 0
    <2>1. Mine(Main, n)
      BY <1>3 DEF Owns, Mine
    <2>2. heap[n].leaf # Nil
      BY <1>3, <2>1, MainAssumption DEF IInv, Ownership, LeafOnCopies
    <2>3. Adds(nf, dropLeaf(Main, nf, heap[n].leaf), {}, {}, {heap[n].leaf}, {})
      BY <1>1, <2>2, AddOne
    <2> QED BY <1>3, <2>3 DEF releaseValue, Lent
  <1>4. CASE Owns(Main, n) /\ heap[n].lob # 0
    <2>1. Adds(nf, nf, {}, {}, {}, {})
      BY AddNone
    <2> QED BY <1>4, <2>1 DEF releaseValue, Adds
  <1> QED BY <1>2, <1>3, <1>4

\* Both.
LEMMA AddWithLeaf ==
    ASSUME IInv, txn[Main].epoch # 0, NEW nf, Lists(nf), Once(nf),
           NEW n \in Nodes, n \notin Items(nf.values), n \notin Items(nf.nodes),
           heap[n].val # NoVal,
           heap[n].leaf # Nil => heap[n].leaf \notin Items(nf.leaves)
    PROVE  Adds(nf, dropWithLeaf(Main, nf, n), Lent(n), Lent(n), {heap[n].leaf},
                {})
  <1> DEFINE ng == releaseValue(Main, nf, n)
  <1>1. Adds(nf, ng, {}, Lent(n), {heap[n].leaf}, {})
    BY AddReleased
  <1>2. n \in Nat
    BY MainAssumption, Facts
  <1>3. Lists(ng) /\ Once(ng) /\ n \notin Items(ng.nodes)
    BY <1>1 DEF Adds
  <1> HIDE DEF ng
  <1>4. Adds(ng, dropReplaced(Main, ng, n), Lent(n), {}, {}, {})
    BY <1>2, <1>3, AddReplaced
  <1>5. Adds(nf, dropReplaced(Main, ng, n), {} \cup Lent(n), Lent(n) \cup {},
             {heap[n].leaf} \cup {}, {} \cup {})
    BY <1>1, <1>4, AddsThen
  <1>6. /\ {} \cup Lent(n) = Lent(n) /\ Lent(n) \cup {} = Lent(n)
        /\ {heap[n].leaf} \cup {} = {heap[n].leaf} /\ {} \cup {} = {}
    OBVIOUS
  <1> QED BY <1>5, <1>6 DEF dropWithLeaf, ng
-----------------------------------------------------------------------------
(* A step of Main in a call                                                 *)

\* The tree of a call is one.
LEMMA OneTree ==
    ASSUME NEW h, NEW o, NEW r, NEW T, NEW d, Live(h, o, r, T, d),
           NEW U, NEW e, Live(h, o, r, U, e)
    PROVE  T = U
  <1>1. IsTree(T, Edges(h, o), r, d) /\ IsTree(U, Edges(h, o), r, e)
    BY DEF Live, RadixTree
  <1> QED BY <1>1, TreeUnique

\* What Main's transaction has in its tree, and what it has recorded.
InCall == IInv /\ IInv' /\ SInv /\ NInv /\ txn[Main].root # Nil
          /\ txn[Main].epoch # 0

\* The tree of a call is clean, and apart from what is recorded.
LEMMA MainFacts ==
    ASSUME IInv, NInv, txn[Main].root # Nil, NEW T, NEW d,
           Live(heap, op[Main], txn[Main].root, T, d)
    PROVE  /\ T \subseteq Nodes /\ Clean(T)
           /\ \E D : Doomed(D) /\ Apart(T, D)
  <1>1. PICK U, D : MainTree(U) /\ Doomed(D) /\ Clean(U) /\ Apart(U, D)
    BY DEF NInv
  <1>2. PICK e : Live(heap, op[Main], txn[Main].root, U, e)
    BY <1>1 DEF MainTree, MainOp, MainRoot
  <1>3. T = U
    BY <1>2, OneTree
  <1>4. T \subseteq Nodes
    BY MainAssumption, LiveNodes
  <1> QED BY <1>1, <1>3, <1>4

\* None of it is recorded.
LEMMA NotYet ==
    ASSUME IInv, NInv, txn[Main].root # Nil, NEW T, NEW d,
           Live(heap, op[Main], txn[Main].root, T, d), NEW n \in T
    PROVE  /\ Lists(notifier) /\ Once(notifier) /\ n \in Nodes /\ n \in Nat
           /\ n \notin Items(notifier.nodes) /\ n \notin Items(notifier.values)
           /\ n \notin Items(notifier.subtrees)
           /\ heap[n].leaf # Nil => heap[n].leaf \notin Items(notifier.leaves)
  <1>1. PICK D : Doomed(D) /\ Apart(T, D)
    BY MainFacts
  <1>2. T \subseteq Nodes
    BY MainFacts
  <1>3. Lists(notifier)
    BY DEF IInv, TypeOK, NotifierOK, NotifierType, Lists
  <1>4. Once(notifier)
    BY DEF NInv, RecordedOnce, Once
  <1>5. n \in Nodes /\ n \in Nat
    BY <1>2, MainAssumption, Facts
  <1>6. /\ n \notin Items(notifier.nodes) /\ n \notin Items(notifier.values)
        /\ n \notin D
        /\ heap[n].leaf # Nil => heap[n].leaf \notin Items(notifier.leaves)
    BY <1>1 DEF Apart
  <1>7. Items(notifier.subtrees) \subseteq D
    BY <1>1 DEF Doomed
  <1> QED BY <1>3, <1>4, <1>5, <1>6, <1>7

\* The published tree of Main stays as it is.
LEMMA CurTreeStays ==
    ASSUME IInv, IInv', NEW w \in Writer, Spares(w), current' = current,
           NEW C, CurTree(C)
    PROVE  CurTree(C)' /\ C \subseteq Nodes
  <1>1. PICK d : Live(heap, IdleOp, current, C, d)
    BY DEF CurTree
  <1>2. current \in trees
    BY DEF IInv, TypeOK, PubOK
  <1>3. C \subseteq Nodes /\ \A k \in C : Frozen(k)
    BY <1>1, <1>2, PubNodes
  <1>4. \A k \in C : Same(heap, heap', k)
    BY <1>3 DEF Spares, Frozen
  <1>5. /\ Len(heap) \in Nat /\ Len(heap') \in Nat /\ Len(heap) <= Len(heap')
        /\ C \subseteq 1..Len(heap)
    BY <1>3, MainAssumption, Facts, FactsNext DEF Spares, Nodes
  <1>6. Live(heap', IdleOp, current, C, d)
    BY <1>1, <1>4, <1>5, IdleType, LiveSame
  <1>7. CurTree(C)' <=> \E e : Live(heap', IdleOp, current', C, e)
    BY DEF CurTree
  <1> QED BY <1>3, <1>6, <1>7

\* A tree none of whose nodes is replaced is as clean as it was.
LEMMA StaysClean ==
    ASSUME IInv, IInv', NEW x, Slots(x), NEW C, C \subseteq Nodes, Clean(C)
    PROVE  Clean(C)'
  <1>1. New \notin C
    BY MainAssumption, Facts DEF New, Nodes
  <1>2. C \subseteq 1..Len(heap')
    BY MainAssumption, Facts, FactsNext DEF Slots, SlotsTo, Nodes
  <1>3. Passes(C, C, x)
    BY <1>1, <1>2 DEF Passes
  <1> QED BY <1>3, CleanKept

\* What the step takes out of the tree T, and what the Notifier is told.
Hands(T, S, Z, E, x) ==
    /\ Passes(T, S, x)
    /\ Z \subseteq T /\ E \subseteq Z \ S
    /\ Closed(E, Plain(heap)) /\ \A k \in E : heap'[k].kids = heap[k].kids
    /\ \A k \in S \cap Z : heap'[k].leaf = Nil
    /\ New \in S /\ heap'[New].leaf # Nil => x \notin Z
    /\ Adds(notifier, notifier', T \ S, Z \ S, {heap[a].leaf : a \in Z}, E)

\* A step of a call that takes T to S, and tells the Notifier what has left.
LEMMA MainTurn ==
    ASSUME InCall, Moved(Main), current' = current,
           NEW T, NEW S, Turns(Main, T, S), NEW x, Slots(x), NEW Z, NEW E,
           Hands(T, S, Z, E, x)
    PROVE  NInv'
  <1>1. IInv /\ IInv' /\ SInv /\ NInv /\ txn[Main].root # Nil
    BY DEF InCall
  <1>2. PICK d : Live(heap, op[Main], txn[Main].root, T, d)
    BY DEF Turns
  <1>3. PICK e : Live(heap', op'[Main], txn'[Main].root, S, e)
    BY DEF Turns
  <1>16. txn'[Main].root # Nil
    BY <1>3 DEF Live, RadixTree, IsTree, Nil
  <1>4. T \subseteq Nodes /\ Clean(T)
    BY <1>1, <1>2, MainFacts
  <1>5. PICK D : Doomed(D) /\ Apart(T, D)
    BY <1>1, <1>2, MainFacts
  <1>6. MainTree(S)'
    <2>1. MainTree(S)' <=>
             \E c : Live(heap', IF txn'[Main].root = Nil THEN IdleOp ELSE op'[Main],
                         IF txn'[Main].root = Nil THEN current'
                                                  ELSE txn'[Main].root, S, c)
      BY DEF MainTree, MainOp, MainRoot
    <2> QED BY <1>3, <1>16, <2>1
  <1>7. Clean(S)'
    BY <1>1, <1>4, CleanKept DEF Hands
  <1>8. Loses(T, S, Z, E, x)
    BY DEF Hands, Loses, Records, Adds
  <1>9. Apart(S, D \cup E)'
    BY <1>1, <1>4, <1>5, <1>8, ApartKept DEF Hands, Doomed
  <1>10. Doomed(D \cup E)'
    <2>1. /\ Len(heap) \in Nat /\ Len(heap') \in Nat /\ Len(heap) <= Len(heap')
          /\ Nodes = 1..Len(heap)
      BY <1>1, MainAssumption, Facts, FactsNext DEF Moved, Spares, Nodes
    <2>2. E \subseteq Nodes /\ D \subseteq Nodes
      BY <1>4, <1>5 DEF Hands, Doomed
    <2>3. D \cap T = {}
      BY <1>5 DEF Apart
    <2>4. \A k \in D \cup E : heap'[k].kids = heap[k].kids
      BY <2>2, <2>3 DEF Hands, Turns
    <2>5. ASSUME NEW k \in D \cup E, NEW b \in Byte, heap'[k].kids[b] # Nil
          PROVE  heap'[k].kids[b] \in D \cup E
      <3>1. k \in Nodes /\ Plain(heap)[k] = heap[k].kids
        BY <2>1, <2>2 DEF Plain
      <3>2. heap[k].kids[b] # Nil /\ heap'[k].kids[b] = heap[k].kids[b]
        BY <2>4, <2>5
      <3>3. CASE k \in D
        BY <1>5, <3>1, <3>2, <3>3 DEF Doomed, Closed
      <3>4. CASE k \in E
        BY <3>1, <3>2, <3>4 DEF Hands, Closed
      <3> QED BY <3>3, <3>4
    <2>6. \A k \in D \cup E : k \in 1..Len(heap')
      BY <2>1, <2>2
    <2>7. Closed(D \cup E, Plain(heap'))
      BY <2>5, <2>6 DEF Closed, Plain
    <2>8. /\ Items(notifier'.subtrees) \subseteq D \cup E
          /\ notifier'.sealing \subseteq D \cup E
      BY <1>5 DEF Hands, Adds, Doomed
    <2>9. Doomed(D \cup E)' <=>
             /\ D \cup E \subseteq 1..Len(heap') /\ Closed(D \cup E, Plain(heap'))
             /\ Items(notifier'.subtrees) \subseteq D \cup E
             /\ notifier'.sealing \subseteq D \cup E
      BY DEF Doomed, Nodes
    <2> QED BY <2>6, <2>7, <2>8, <2>9
  <1>11. PICK C : CurTree(C) /\ Clean(C)
    BY <1>1 DEF NInv
  <1>12. CurTree(C)' /\ C \subseteq Nodes
    BY <1>1, <1>11, CurTreeStays, MainAssumption DEF Moved
  <1>13. Clean(C)'
    BY <1>1, <1>11, <1>12, StaysClean
  <1>14. leaves'[sealedLeaf] = "sealed"
    <2>1. leaves[1] = "sealed" /\ 1 \in 1..Len(leaves) /\ 1 \in 1..Len(leaves')
      BY <1>1, MainAssumption, Facts, FactsNext
         DEF NInv, sealedLeaf, Slots, LeavesKept, IInv, TypeOK, HeapOK
    <2> QED BY <2>1 DEF Slots, LeavesKept, sealedLeaf
  <1>15. RecordedOnce'
    BY DEF Hands, Adds, Once, RecordedOnce
  <1> QED BY <1>6, <1>7, <1>9, <1>10, <1>12, <1>13, <1>14, <1>15 DEF NInv

\* own: the node that is copied is recorded.
LEMMA OwnAdds ==
    ASSUME IInv, NEW n \in Nodes, NEW extra \in {0, 1}, own(Main, n, extra),
           Lists(notifier), Once(notifier), n \notin Items(notifier.nodes)
    PROVE  /\ Adds(notifier, notifier', Lent(n), {}, {}, {})
           /\ ~Owns(Main, n) => Len(heap') = New
  <1>1. n \in Nat
    BY MainAssumption, Facts
  <1>2. CASE Owns(Main, n)
    <2>1. notifier' = notifier
      BY <1>2 DEF own, ownKeep, ownGrow, ownCopy
    <2> QED BY <1>2, <2>1, AddNone DEF Lent
  <1>3. CASE ~Owns(Main, n)
    <2>1. ownCopy(Main, n, extra)
      BY <1>3 DEF own, ownKeep, ownGrow, ownFits
    <2>2. notifier' = dropNode(Main, notifier, n)
      BY <2>1 DEF ownCopy
    <2>3. Adds(notifier, notifier', {n}, {}, {}, {})
      BY <1>1, <2>2, AddOne
    <2>4. Len(heap') = New
      <3>1. ownResult(Main, n, extra) = New /\ New # n
        <4>1. ~ownFits(Main, n, extra)
          BY <1>3 DEF ownFits
        <4> QED BY <4>1, MainAssumption, Facts DEF ownResult, New, Nodes
      <3>2. \/ ownResult(Main, n, extra) = n
            \/ PutNew(Main, n, heap[n].val, KidCount(n) + extra)
        BY MainAssumption, OwnEffect
      <3> QED BY <3>1, <3>2 DEF PutNew
    <2> QED BY <1>3, <2>3, <2>4 DEF Lent
  <1> QED BY <1>2, <1>3

\* ownValueless: so are its value, or the leaf that value has.
LEMMA ValuelessAdds ==
    ASSUME IInv, txn[Main].epoch # 0, NEW n \in Nodes, NEW v \in Nat,
           NEW bit \in {0, 1}, ownValueless(Main, n, v, bit),
           Lists(notifier), Once(notifier), n \notin Items(notifier.nodes),
           n \notin Items(notifier.values),
           heap[n].leaf # Nil => heap[n].leaf \notin Items(notifier.leaves)
    PROVE  /\ Adds(notifier, notifier', Lent(n), Lent(n), {heap[n].leaf}, {})
           /\ ~Owns(Main, n) => Len(heap') = New /\ heap'[New].leaf = Nil
           /\ Owns(Main, n) => Len(heap') = Len(heap) /\ heap'[n].leaf = Nil
  <1> DEFINE nf == IF heap[n].val = NoVal THEN notifier
                                          ELSE releaseValue(Main, notifier, n)
  <1>1. n \in Nat /\ heap[n] \in NodeType /\ n \in 1..Len(heap)
        /\ heap \in Seq(NodeType)
    BY MainAssumption, Facts DEF Nodes
  <1>2. Adds(notifier, nf, {}, Lent(n), {heap[n].leaf}, {})
    <2>1. CASE heap[n].val = NoVal
      <3>1. Adds(notifier, notifier, {}, {}, {}, {})
        BY AddNone
      <3> QED BY <2>1, <3>1 DEF Adds
    <2>2. CASE heap[n].val # NoVal
      BY <2>2, AddReleased
    <2> QED BY <2>1, <2>2
  <1>3. Lists(nf) /\ Once(nf) /\ n \notin Items(nf.nodes)
    BY <1>2 DEF Adds
  <1>4. CASE Owns(Main, n)
    <2> DEFINE y == [heap[n] EXCEPT !.leaf = Nil, !.val = v, !.lob = bit]
    <2>1. notifier' = nf /\ heap' = [heap EXCEPT ![n] = y]
      BY <1>4 DEF ownValueless
    <2>2. y.leaf = Nil
      BY <1>1 DEF NodeType
    <2> HIDE DEF y, nf
    <2>3. Len(heap') = Len(heap) /\ heap'[n].leaf = Nil
      BY <1>1, <2>1, <2>2
    <2> QED BY <1>2, <1>4, <2>1, <2>3 DEF Lent, Adds
  <1>5. CASE ~Owns(Main, n)
    <2> DEFINE c == copyShape(Main, n, 0)
               y == [c EXCEPT !.val = v, !.lob = bit]
               g == link(heap, op[Main].parent, op[Main].l, New)
    <2>1. notifier' = dropNode(Main, nf, n) /\ heap' = Append(g, y)
      BY <1>5 DEF ownValueless
    <2>2. 0 \in 0..(Cardinality(Byte) + 1)
      BY ByteAssumption, FS_CardinalityType
    <2>3. c \in NodeType /\ c.leaf = Nil
      BY <2>2, CopyType, MainAssumption
    <2> HIDE DEF c
    <2>4. y.leaf = Nil
      BY <2>3 DEF NodeType
    <2> HIDE DEF y, nf
    <2>5. /\ op[Main].parent \in 0..Len(heap) /\ New \in Nat
          /\ New = Len(heap) + 1
      BY MainAssumption, Facts DEF Ref, New
    <2>6. g \in Seq(NodeType) /\ Len(g) = Len(heap)
      BY <1>1, <2>5, LinkType
    <2> HIDE DEF g
    <2>7. Len(heap') = New /\ heap'[New].leaf = Nil
      BY <2>1, <2>4, <2>5, <2>6
    <2>8. Adds(nf, notifier', {n}, {}, {}, {})
      BY <1>1, <1>3, <2>1, AddOne
    <2>9. Adds(notifier, notifier', {} \cup {n}, Lent(n) \cup {},
               {heap[n].leaf} \cup {}, {} \cup {})
      BY <1>2, <2>8, AddsThen
    <2> QED BY <1>5, <2>7, <2>9 DEF Lent, Adds
  <1> QED BY <1>4, <1>5

\* A step that puts a copy in n's place, or changes n where it is.
LEMMA SwapTurn ==
    ASSUME InCall, Moved(Main), current' = current, NEW n, Swaps(Main, n),
           Slots(n), n \in Nodes, NEW Z \in {{}, {n}}, NEW A,
           A \subseteq {heap[a].leaf : a \in Z},
           Adds(notifier, notifier', Lent(n), Lent(n) \cap Z, A, {}),
           ~Owns(Main, n) => Len(heap') = New,
           n \in Z => IF Len(heap') = Len(heap) THEN heap'[n].leaf = Nil
                                                ELSE heap'[New].leaf = Nil
    PROVE  NInv'
  <1>1. PICK T, S : /\ Turns(Main, T, S) /\ n \in T
                    /\ S = IF Len(heap') = Len(heap) THEN T
                           ELSE (T \ {n}) \cup {New}
    BY DEF Swaps
  <1>2. PICK d : Live(heap, op[Main], txn[Main].root, T, d)
    BY <1>1 DEF Turns
  <1>3. T \subseteq Nodes
    BY <1>2, MainFacts DEF InCall
  <1>4. /\ Len(heap) \in Nat /\ Len(heap') \in Nat /\ Len(heap) <= Len(heap')
        /\ New = Len(heap) + 1 /\ Nodes = 1..Len(heap)
    BY MainAssumption, Facts, FactsNext DEF InCall, Moved, Spares, New, Nodes
  <1>5. New \notin T /\ New # n
    BY <1>3, <1>4
  <1>6. Passes(T, S, n)
    <2>1. CASE Len(heap') = Len(heap)
      BY <1>1, <1>3, <1>4, <1>5, <2>1 DEF Passes
    <2>2. CASE Len(heap') # Len(heap)
      <3>1. S = (T \ {n}) \cup {New} /\ New \in 1..Len(heap')
        BY <1>1, <1>4, <2>2
      <3>2. S \subseteq 1..Len(heap')
        <4>1. Nodes \subseteq 1..Len(heap')
          BY <1>4
        <4> QED BY <1>3, <3>1, <4>1
      <3>3. New \notin Nodes
        BY <1>4
      <3>4. \A k \in S : k \in Nodes => k \in T
        BY <3>1, <3>3
      <3>5. n \in T \ S
        BY <1>1, <1>5, <3>1
      <3> QED BY <1>3, <3>2, <3>4, <3>5 DEF Passes
    <2> QED BY <2>1, <2>2
  <1>7. Lent(n) \subseteq T \ S
    BY <1>1, <1>4, <1>5 DEF Lent
  <1>8. Lent(n) \cap Z \subseteq Z \ S
    BY <1>7
  <1>9. Z \subseteq T /\ {} \subseteq Z \ S
    BY <1>1
  <1>10. \A k \in S \cap Z : heap'[k].leaf = Nil
    BY <1>1, <1>4, <1>5
  <1>11. New \in S /\ heap'[New].leaf # Nil => n \notin Z
    BY <1>1, <1>4, <1>5
  <1>12. Adds(notifier, notifier', T \ S, Z \ S, {heap[a].leaf : a \in Z}, {})
    BY <1>7, <1>8 DEF Adds
  <1>13. Hands(T, S, Z, {}, n)
    BY <1>6, <1>9, <1>10, <1>11, <1>12 DEF Hands, Closed
  <1> QED BY <1>1, <1>13, MainTurn

\* What holds before a step of a call that writes.
LEMMA CallTurn ==
    ASSUME IInv, SInv, NInv, Next, op[Main].pc \in WritePc
    PROVE  /\ InCall /\ Lists(notifier) /\ Once(notifier)
           /\ op[Main] \in OpType
  <1>1. txn[Main].root # Nil /\ txn[Main].epoch # 0 /\ op[Main] \in OpType
    BY MainAssumption, Facts DEF CallAt, WritePc
  <1>2. IInv'
    BY NextStep
  <1>3. Lists(notifier)
    BY DEF IInv, TypeOK, NotifierOK, NotifierType, Lists
  <1>4. Once(notifier)
    BY DEF NInv, RecordedOnce, Once
  <1> QED BY <1>1, <1>2, <1>3, <1>4 DEF InCall

\* A node of the tree that is replaced has not been recorded.
LEMMA SwapNotYet ==
    ASSUME InCall, NEW n, Swaps(Main, n)
    PROVE  /\ Lists(notifier) /\ Once(notifier) /\ n \in Nodes /\ n \in Nat
           /\ n \notin Items(notifier.nodes) /\ n \notin Items(notifier.values)
           /\ heap[n].leaf # Nil => heap[n].leaf \notin Items(notifier.leaves)
  <1>1. PICK T, d : Live(heap, op[Main], txn[Main].root, T, d) /\ n \in T
    BY DEF Swaps, Turns
  <1> QED BY <1>1, NotYet DEF InCall

\* A step that makes a node of the way owned.
LEMMA OwnTurn ==
    ASSUME InCall, Moved(Main), current' = current, NEW n, Swaps(Main, n),
           NEW extra \in {0, 1}, own(Main, n, extra)
    PROVE  NInv'
  <1>1. /\ Lists(notifier) /\ Once(notifier) /\ n \in Nodes
        /\ n \notin Items(notifier.nodes)
    BY SwapNotYet
  <1>2. /\ Adds(notifier, notifier', Lent(n), {}, {}, {})
        /\ ~Owns(Main, n) => Len(heap') = New
    BY <1>1, OwnAdds DEF InCall
  <1>3. Slots(n)
    BY <1>1, MainAssumption, SlotsOwn DEF InCall
  <1>4. Lent(n) \cap {} = {}
    OBVIOUS
  <1> QED BY <1>1, <1>2, <1>3, <1>4, SwapTurn

\* The same, for a node that is left without its value.
LEMMA ValuelessTurn ==
    ASSUME InCall, Moved(Main), current' = current, NEW n, Swaps(Main, n),
           NEW v \in Nat, NEW bit \in {0, 1}, ownValueless(Main, n, v, bit)
    PROVE  NInv'
  <1>1. /\ Lists(notifier) /\ Once(notifier) /\ n \in Nodes
        /\ n \notin Items(notifier.nodes) /\ n \notin Items(notifier.values)
        /\ heap[n].leaf # Nil => heap[n].leaf \notin Items(notifier.leaves)
    BY SwapNotYet
  <1>2. /\ Adds(notifier, notifier', Lent(n), Lent(n), {heap[n].leaf}, {})
        /\ ~Owns(Main, n) => Len(heap') = New /\ heap'[New].leaf = Nil
        /\ Owns(Main, n) => Len(heap') = Len(heap) /\ heap'[n].leaf = Nil
    BY <1>1, ValuelessAdds DEF InCall
  <1>3. Slots(n)
    BY <1>1, MainAssumption, SlotsValueless DEF InCall
  <1>4. /\ Lent(n) \cap {n} = Lent(n)
        /\ {heap[n].leaf} \subseteq {heap[a].leaf : a \in {n}}
    BY DEF Lent
  <1>5. New # Len(heap)
    BY MainAssumption, Facts DEF New, InCall
  <1>6. IF Len(heap') = Len(heap) THEN heap'[n].leaf = Nil
                                  ELSE heap'[New].leaf = Nil
    BY <1>2, <1>5
  <1>7. ~Owns(Main, n) => Len(heap') = New
    BY <1>2
  <1>8. Adds(notifier, notifier', Lent(n), Lent(n) \cap {n}, {heap[n].leaf}, {})
    BY <1>2, <1>4
  <1> DEFINE A == {heap[n].leaf}
             Z == {n}
  <1>9. /\ Z \in {{}, {n}} /\ A \subseteq {heap[a].leaf : a \in Z}
        /\ Adds(notifier, notifier', Lent(n), Lent(n) \cap Z, A, {})
    BY <1>4, <1>8
  <1> HIDE DEF A, Z
  <1> QED BY <1>1, <1>3, <1>6, <1>7, <1>9, SwapTurn

\* The steps that replace one node of the tree at most.
LEMMA InsertOwnTurn ==
    ASSUME IInv, SInv, NInv, Next, InsertOwn(Main)
    PROVE  NInv'
  <1> DEFINE n == op[Main].n
             extra == IF Kid(n, Head(op[Main].search)) = Nil THEN 1 ELSE 0
  <1>1. InCall
    BY CallTurn DEF InsertOwn, At, WritePc, InsertPc, GoalPc
  <1>2. Moved(Main) /\ Swaps(Main, n)
    BY MainAssumption, InsertOwnMoves
  <1>3. own(Main, n, extra) /\ extra \in {0, 1} /\ current' = current
    BY DEF InsertOwn, Rest, pub
  <1> HIDE DEF n, extra
  <1> QED BY <1>1, <1>2, <1>3, OwnTurn

\* One level of ownPath.
LEMMA OwnPathTurn ==
    ASSUME IInv, SInv, NInv, Next, OwnPath(Main)
    PROVE  NInv'
  <1> DEFINE n == op[Main].path[1].n
  <1>1. InCall
    BY CallTurn DEF OwnPath, At, WritePc, InsertPc, GoalPc
  <1>2. Moved(Main) /\ Swaps(Main, n)
    BY MainAssumption, OwnPathMoves
  <1>3. own(Main, n, 0) /\ current' = current
    BY MainAssumption, SlotsOwnPath DEF OwnPath, Rest, pub
  <1> HIDE DEF n
  <1> QED BY <1>1, <1>2, <1>3, OwnTurn

\* Delete leaves the node, without its value.
LEMMA ClearTurn ==
    ASSUME IInv, SInv, NInv, Next, Clear(Main)
    PROVE  NInv'
  <1> DEFINE n == op[Main].m
  <1>1. InCall
    BY CallTurn DEF Clear, At, WritePc, InsertPc, GoalPc
  <1>2. Moved(Main) /\ Swaps(Main, n)
    BY MainAssumption, ClearMoves
  <1>3. ownValueless(Main, n, NoVal, 0) /\ current' = current
    BY MainAssumption, SlotsClear DEF Clear, Rest, pub
  <1>4. NoVal \in Nat
    BY DEF NoVal
  <1> HIDE DEF n
  <1> QED BY <1>1, <1>2, <1>3, <1>4, ValuelessTurn

\* A value stored over one the transaction has stored itself is not recorded.
LEMMA InsertValueTurn ==
    ASSUME IInv, SInv, NInv, Next, InsertValue(Main)
    PROVE  NInv'
  <1> DEFINE n == op[Main].n
             v == op[Main].val
  <1>1. InCall /\ Lists(notifier) /\ Once(notifier) /\ op[Main] \in OpType
    BY CallTurn DEF InsertValue, At, WritePc, InsertPc, GoalPc
  <1>2. Moved(Main) /\ Swaps(Main, n)
    BY MainAssumption, InsertValueMoves
  <1>3. Slots(n) /\ n \in Nodes /\ current' = current /\ v \in Nat
    BY <1>1, MainAssumption, SlotsInsertValue
       DEF InsertValue, Rest, pub, OpType
  <1>4. CASE ownValueless(Main, n, v, 1)
    <2> HIDE DEF n, v
    <2> QED BY <1>1, <1>2, <1>3, <1>4, ValuelessTurn
  <1>5. CASE ~ownValueless(Main, n, v, 1)
    <2>1. /\ Owns(Main, n) /\ notifier' = notifier
      BY <1>5 DEF InsertValue
    <2>2. Adds(notifier, notifier', {}, {}, {}, {})
      BY <1>1, <2>1, AddNone
    <2>3. Lent(n) = {} /\ Lent(n) \cap {} = {}
      BY <2>1 DEF Lent
    <2>4. Adds(notifier, notifier', Lent(n), Lent(n) \cap {}, {}, {})
      BY <2>2, <2>3
    <2> HIDE DEF n, v
    <2> QED BY <1>1, <1>2, <1>3, <2>1, <2>4, SwapTurn
  <1> QED BY <1>4, <1>5

\* The child a split copies is recorded; one the call owns is not.
LEMMA InsertSplitCopyTurn ==
    ASSUME IInv, SInv, NInv, Next, InsertSplitCopy(Main)
    PROVE  NInv'
  <1> DEFINE n == Kid(op[Main].n, Head(op[Main].search))
  <1>1. InCall
    BY CallTurn DEF InsertSplitCopy, At, WritePc, InsertPc, GoalPc
  <1>2. Moved(Main) /\ Swaps(Main, n)
    BY MainAssumption, InsertSplitCopyMoves
  <1>3. Slots(n) /\ n \in Nodes /\ current' = current
    BY MainAssumption, SlotsInsertSplitCopy DEF InsertSplitCopy, Rest, pub
  <1>4. /\ Lists(notifier) /\ Once(notifier) /\ n \in Nat
        /\ n \notin Items(notifier.nodes)
    BY <1>1, <1>2, SwapNotYet
  <1>5. /\ Adds(notifier, notifier', Lent(n), {}, {}, {})
        /\ ~Owns(Main, n) => Len(heap') = New
    <2>1. CASE Owns(Main, n)
      <3>1. notifier' = notifier
        BY <2>1 DEF InsertSplitCopy, mem
      <3>2. Adds(notifier, notifier, {}, {}, {}, {})
        BY <1>4, AddNone
      <3> QED BY <2>1, <3>1, <3>2 DEF Lent
    <2>2. CASE ~Owns(Main, n)
      <3>1. /\ notifier' = dropNode(Main, notifier, n)
            /\ heap' = Append(WithLeaf(Main, n), copyNode(Main, n, 0))
        BY <2>2 DEF InsertSplitCopy
      <3> HIDE DEF n
      <3>2. Adds(notifier, notifier', {n}, {}, {}, {})
        BY <1>4, <3>1, AddOne
      <3>3. SlotsTo(WithLeaf(Main, n), n) /\ Len(WithLeaf(Main, n)) = Len(heap)
        BY <1>1, <1>3, MainAssumption, SlotsWithLeaf DEF InCall
      <3>4. Len(heap') = New
        BY <3>1, <3>3 DEF SlotsTo, New
      <3> QED BY <2>2, <3>2, <3>4 DEF Lent
    <2> QED BY <2>1, <2>2
  <1>6. Lent(n) \cap {} = {}
    OBVIOUS
  <1> HIDE DEF n
  <1>7. Adds(notifier, notifier', Lent(n), Lent(n) \cap {}, {}, {})
    BY <1>5, <1>6
  <1> QED BY <1>1, <1>2, <1>3, <1>5, <1>7, SwapTurn

\* A step that merges n with its child c.
LEMMA MergeTurn ==
    ASSUME InCall, Moved(Main), current' = current, NEW n, NEW c,
           Merges(Main, n, c), NEW ng, mergeChild(Main, ng, n, c),
           op[Main].parent # Nil, NEW Z \in {{}, {n}}, NEW A,
           A \subseteq {heap[a].leaf : a \in Z},
           Adds(notifier, ng, Lent(n), Lent(n) \cap Z, A, {})
    PROVE  NInv'
  <1>1. PICK T, S : /\ Turns(Main, T, S) /\ n \in T /\ c \in T /\ n # c
                    /\ S = IF Len(heap') = Len(heap) THEN T \ {n}
                           ELSE ((T \ {n}) \ {c}) \cup {New}
    BY DEF Merges
  <1>2. PICK d : Live(heap, op[Main], txn[Main].root, T, d)
    BY <1>1 DEF Turns
  <1>3. T \subseteq Nodes
    BY <1>2, MainFacts DEF InCall
  <1>4. /\ Len(heap) \in Nat /\ Len(heap') \in Nat /\ Len(heap) <= Len(heap')
        /\ New = Len(heap) + 1 /\ Nodes = 1..Len(heap)
    BY MainAssumption, Facts, FactsNext DEF InCall, Moved, Spares, New, Nodes
  <1>5. /\ New \notin T /\ New # n /\ New # c /\ New \notin Nodes
        /\ Nodes \subseteq 1..Len(heap') /\ n \in Nodes /\ c \in Nodes
    BY <1>1, <1>3, <1>4
  <1>6. Slots(c)
    BY <1>5, MainAssumption, SlotsMerge DEF InCall
  <1>7. Passes(T, S, c)
    <2>1. CASE Len(heap') = Len(heap)
      <3>1. S = T \ {n}
        BY <1>1, <2>1
      <3> QED BY <1>3, <1>5, <3>1 DEF Passes
    <2>2. CASE Len(heap') # Len(heap)
      <3>1. S = ((T \ {n}) \ {c}) \cup {New} /\ New \in 1..Len(heap')
        BY <1>1, <1>4, <2>2
      <3>2. S \subseteq 1..Len(heap')
        BY <1>3, <1>5, <3>1
      <3>3. \A k \in S : k \in Nodes => k \in T
        BY <1>5, <3>1
      <3>4. c \in T \ S
        BY <1>1, <1>5, <3>1
      <3> QED BY <1>3, <3>2, <3>3, <3>4 DEF Passes
    <2> QED BY <2>1, <2>2
  <1>8. c \notin Items(ng.nodes) /\ Lists(ng) /\ Once(ng) /\ c \in Nat
    <2>1. c \notin Items(notifier.nodes) /\ c \in Nat
      BY <1>1, <1>2, NotYet DEF InCall
    <2> QED BY <1>1, <2>1 DEF Adds, Lent
  <1>9. notifier' = dropReplaced(Main, ng, c)
    BY DEF mergeChild
  <1>10. Adds(ng, notifier', Lent(c), {}, {}, {})
    BY <1>8, <1>9, AddReplaced
  <1>11. ~Owns(Main, c) => Len(heap') = New
    <2>1. ASSUME ~Owns(Main, c) PROVE Len(heap') = New
      <3> DEFINE g == link(WithLeaf(Main, c), op[Main].parent, op[Main].l, New)
      <3>1. PICK y : heap' = Append(g, y)
        BY <2>1 DEF mergeChild
      <3>2. SlotsTo(WithLeaf(Main, c), c) /\ Len(WithLeaf(Main, c)) = Len(heap)
        BY <1>5, MainAssumption, SlotsWithLeaf DEF InCall
      <3>3. op[Main].parent \in 0..Len(heap) /\ New \in Nat
        BY <1>4, MainAssumption, Facts DEF Ref, InCall
      <3>4. SlotsTo(g, c) /\ Len(g) = Len(heap)
        BY <3>2, <3>3, SlotsLink DEF InCall
      <3> HIDE DEF g
      <3> QED BY <3>1, <3>4 DEF SlotsTo, New
    <2> QED BY <2>1
  <1>12. n \notin S /\ (~Owns(Main, c) => c \notin S)
    BY <1>1, <1>4, <1>5, <1>11
  <1>13. Lent(n) \subseteq T \ S /\ Lent(c) \subseteq T \ S
    BY <1>1, <1>12 DEF Lent
  <1>14. Z \subseteq T /\ Z \ S = Z /\ S \cap Z = {} /\ c \notin Z
    BY <1>1, <1>12
  <1>15. Adds(notifier, notifier', Lent(n) \cup Lent(c), (Lent(n) \cap Z) \cup {},
              A \cup {}, {} \cup {})
    BY <1>10, AddsThen
  <1>16. Adds(notifier, notifier', T \ S, Z \ S, {heap[a].leaf : a \in Z}, {})
    <2>1. /\ Lent(n) \cup Lent(c) \subseteq T \ S
          /\ (Lent(n) \cap Z) \cup {} \subseteq Z \ S
          /\ A \cup {} \subseteq {heap[a].leaf : a \in Z} /\ {} \cup {} = {}
      BY <1>13, <1>14
    <2> QED BY <1>15, <2>1 DEF Adds
  <1>17. Hands(T, S, Z, {}, c)
    BY <1>7, <1>14, <1>16 DEF Hands, Closed
  <1> QED BY <1>1, <1>6, <1>17, MainTurn

\* What is merged into its child has not been recorded.
LEMMA MergeNotYet ==
    ASSUME InCall, NEW n, NEW c, Merges(Main, n, c)
    PROVE  /\ Lists(notifier) /\ Once(notifier) /\ n \in Nodes /\ n \in Nat
           /\ n \notin Items(notifier.nodes) /\ n \notin Items(notifier.values)
           /\ heap[n].leaf # Nil => heap[n].leaf \notin Items(notifier.leaves)
  <1>1. PICK T, d : Live(heap, op[Main], txn[Main].root, T, d) /\ n \in T
    BY DEF Merges, Turns
  <1> QED BY <1>1, NotYet DEF InCall

\* unlink merges the parent with the child that is left.
LEMMA PullTurn ==
    ASSUME IInv, SInv, NInv, Next, Pull(Main)
    PROVE  NInv'
  <1> DEFINE n == op[Main].path[1].n
             ng == dropReplaced(Main, notifier, n)
  <1>1. InCall
    BY CallTurn DEF Pull, At, WritePc, InsertPc, GoalPc
  <1>2. Moved(Main)
    BY MainAssumption, PullMoves
  <1>3. PICK c : Merges(Main, n, c) /\ mergeChild(Main, ng, n, c)
    BY MainAssumption, PullMoves
  <1>4. current' = current /\ op[Main].parent # Nil
    BY MainAssumption, Facts DEF Pull, At, CallAt, Rest, pub
  <1> HIDE DEF n
  <1>5. /\ Lists(notifier) /\ Once(notifier) /\ n \in Nat
        /\ n \notin Items(notifier.nodes)
    BY <1>1, <1>3, MergeNotYet
  <1>6. Adds(notifier, ng, Lent(n), {}, {}, {})
    BY <1>5, AddReplaced
  <1>7. Lent(n) \cap {} = {}
    OBVIOUS
  <1>8. Adds(notifier, ng, Lent(n), Lent(n) \cap {}, {}, {})
    BY <1>6, <1>7
  <1> HIDE DEF ng
  <1> QED BY <1>1, <1>2, <1>3, <1>4, <1>8, MergeTurn

\* Delete merges the node with its one child.
LEMMA FoldTurn ==
    ASSUME IInv, SInv, NInv, Next, Fold(Main)
    PROVE  NInv'
  <1> DEFINE n == op[Main].m
             ng == dropWithLeaf(Main, notifier, n)
             Z == {n}
             A == {heap[n].leaf}
  <1>1. InCall
    BY CallTurn DEF Fold, At, WritePc, InsertPc, GoalPc
  <1>2. Moved(Main)
    BY MainAssumption, FoldMoves
  <1>3. PICK c : Merges(Main, n, c) /\ mergeChild(Main, ng, n, c)
    BY MainAssumption, FoldMoves
  <1>4. /\ current' = current /\ op[Main].parent # Nil
        /\ heap[n].val # NoVal
    BY MainAssumption, Facts DEF Fold, At, CallAt, Rest, pub
  <1> HIDE DEF n
  <1>5. /\ Lists(notifier) /\ Once(notifier) /\ n \in Nodes
        /\ n \notin Items(notifier.nodes) /\ n \notin Items(notifier.values)
        /\ heap[n].leaf # Nil => heap[n].leaf \notin Items(notifier.leaves)
    BY <1>1, <1>3, MergeNotYet
  <1>6. Adds(notifier, ng, Lent(n), Lent(n), {heap[n].leaf}, {})
    BY <1>1, <1>4, <1>5, AddWithLeaf DEF InCall
  <1>7. /\ Lent(n) \cap Z = Lent(n) /\ Z \in {{}, {n}}
        /\ A \subseteq {heap[a].leaf : a \in Z}
    BY DEF Lent
  <1>8. Adds(notifier, ng, Lent(n), Lent(n) \cap Z, A, {})
    BY <1>6, <1>7
  <1> HIDE DEF ng, Z, A
  <1> QED BY <1>1, <1>2, <1>3, <1>4, <1>7, <1>8, MergeTurn

\* A step that takes nothing out of the tree, copies nothing and tells the
\* Notifier nothing.
LEMMA GrowTurn ==
    ASSUME InCall, Moved(Main), current' = current, notifier' = notifier,
           Slots(Nil), NEW T, NEW S, Turns(Main, T, S),
           S \subseteq T \cup ((1..Len(heap')) \ Nodes)
    PROVE  NInv'
  <1>1. PICK d : Live(heap, op[Main], txn[Main].root, T, d)
    BY DEF Turns
  <1>2. T \subseteq Nodes
    BY <1>1, MainFacts DEF InCall
  <1>3. Lists(notifier) /\ Once(notifier)
    BY DEF InCall, IInv, TypeOK, NotifierOK, NotifierType, Lists, NInv,
           RecordedOnce, Once
  <1>4. /\ Nodes \subseteq 1..Len(heap') /\ Nil \notin Nodes
    BY MainAssumption, Facts, FactsNext
       DEF InCall, Moved, Spares, Nodes, Nil
  <1>5. New \in (1..Len(heap')) \ Nodes => heap'[New].leaf = Nil
    BY <1>4 DEF Slots, SlotsTo, Copied
  <1>6. New \in S /\ heap'[New].leaf # Nil => FALSE
    <2>1. New \notin Nodes
      BY MainAssumption, Facts DEF InCall, New, Nodes
    <2> QED BY <1>2, <1>5, <2>1
  <1>7. Passes(T, S, Nil)
    BY <1>2, <1>4, <1>6 DEF Passes
  <1>8. Adds(notifier, notifier', T \ S, {} \ S, {heap[a].leaf : a \in {}}, {})
    BY <1>3 DEF Adds
  <1>9. Hands(T, S, {}, {}, Nil)
    BY <1>6, <1>7, <1>8 DEF Hands, Closed
  <1> QED BY <1>9, MainTurn

\* Insert hangs a new leaf below the node.
LEMMA InsertHangTurn ==
    ASSUME IInv, SInv, NInv, Next, InsertHang(Main)
    PROVE  NInv'
  <1>1. InCall
    BY CallTurn DEF InsertHang, At, WritePc, InsertPc, GoalPc
  <1>2. Moved(Main)
    BY MainAssumption, InsertHangMoves
  <1>3. PICK T : Turns(Main, T, T \cup {New})
    BY MainAssumption, InsertHangMoves
  <1>4. Slots(Nil) /\ current' = current /\ notifier' = notifier
    BY MainAssumption, SlotsInsertHang DEF InsertHang, Rest, pub
  <1>5. New \in (1..Len(heap')) \ Nodes
    <2> DEFINE n == op[Main].n
               g == link(heap, n, Head(op[Main].search), New)
    <2>1. n # Nil /\ n \in 0..Len(heap)
      BY MainAssumption, Facts DEF InsertHang, At, CallAt, InsertPc, Ref
    <2>2. PICK y : heap' = Append(g, y)
      BY <2>1 DEF InsertHang, link
    <2>3. Len(heap) \in Nat /\ New \in Nat /\ SlotsTo(heap, Nil)
      BY MainAssumption, Facts, SlotsBase DEF New
    <2>4. SlotsTo(g, Nil) /\ Len(g) = Len(heap)
      BY <2>1, <2>3, SlotsLink
    <2> HIDE DEF g
    <2>5. Len(heap') = Len(heap) + 1
      BY <2>2, <2>4 DEF SlotsTo
    <2> QED BY <2>3, <2>5 DEF New, Nodes
  <1>6. T \cup {New} \subseteq T \cup ((1..Len(heap')) \ Nodes)
    BY <1>5
  <1> QED BY <1>1, <1>2, <1>3, <1>4, <1>6, GrowTurn

\* Insert splits the child.
LEMMA InsertSplitTurn ==
    ASSUME IInv, SInv, NInv, Next, InsertSplit(Main)
    PROVE  NInv'
  <1>1. InCall
    BY CallTurn DEF InsertSplit, At, WritePc, InsertPc, GoalPc
  <1>2. Moved(Main)
    BY MainAssumption, InsertSplitMoves
  <1>3. PICK T : \/ Turns(Main, T, T \cup {New}) /\ Len(heap') = New
                 \/ /\ Turns(Main, T, T \cup {New} \cup {New + 1})
                    /\ Len(heap') = New + 1
    BY MainAssumption, InsertSplitMoves
  <1>4. Slots(Nil) /\ current' = current /\ notifier' = notifier
    BY MainAssumption, SlotsInsertSplit DEF InsertSplit, Rest, pub
  <1>5. New \in Nat \ {0} /\ Nodes = 1..(New - 1)
    BY MainAssumption, Facts DEF New, Nodes
  <1>6. CASE Turns(Main, T, T \cup {New}) /\ Len(heap') = New
    <2>1. T \cup {New} \subseteq T \cup ((1..Len(heap')) \ Nodes)
      BY <1>5, <1>6
    <2> QED BY <1>1, <1>2, <1>4, <1>6, <2>1, GrowTurn
  <1>7. CASE /\ Turns(Main, T, T \cup {New} \cup {New + 1})
             /\ Len(heap') = New + 1
    <2>1. {New, New + 1} \subseteq (1..Len(heap')) \ Nodes
      BY <1>5, <1>7
    <2>2. T \cup {New} \cup {New + 1} \subseteq T \cup ((1..Len(heap')) \ Nodes)
      BY <2>1
    <2> QED BY <1>1, <1>2, <1>4, <1>7, <2>2, GrowTurn
  <1> QED BY <1>3, <1>6, <1>7

\* delKid takes the child out, whose nodes were recorded before.
LEMMA CutTurn ==
    ASSUME IInv, SInv, NInv, Next, Cut(Main)
    PROVE  NInv'
  <1>1. InCall
    BY CallTurn DEF Cut, At, WritePc, InsertPc, GoalPc
  <1>2. Moved(Main)
    BY MainAssumption, CutMoves
  <1>3. PICK T : Turns(Main, T, T)
    BY MainAssumption, CutMoves
  <1>4. Slots(Nil) /\ current' = current /\ notifier' = notifier
    BY MainAssumption, SlotsCut DEF Cut, Rest, pub
  <1>5. T \subseteq T \cup ((1..Len(heap')) \ Nodes)
    OBVIOUS
  <1> QED BY <1>1, <1>2, <1>3, <1>4, <1>5, GrowTurn

\* A leaf that is deleted, or a subtree, goes with all that hangs below it.
LEMMA DropTurn ==
    ASSUME InCall, Moved(Main), current' = current, heap' = heap,
           leaves' = leaves, NEW m, NEW T, m \in T,
           Turns(Main, T, T \ Below(T, Plain(heap), m)),
           Edges(heap, op[Main]) = Plain(heap),
           \/ Adds(notifier, notifier', {m}, {m}, {heap[m].leaf}, {})
           \/ Adds(notifier, notifier', {}, {}, {}, {m})
    PROVE  NInv'
  <1> DEFINE B == Below(T, Plain(heap), m)
  <1>1. PICK d : Live(heap, op[Main], txn[Main].root, T, d)
    BY DEF Turns
  <1>2. T \subseteq Nodes
    BY <1>1, MainFacts DEF InCall
  <1>3. IsTree(T, Plain(heap), txn[Main].root, d)
    BY <1>1 DEF Live, RadixTree
  <1>4. m \in B /\ B \subseteq T /\ Closed(B, Plain(heap))
    BY <1>3, BelowFacts
  <1> HIDE DEF B
  <1>5. New \notin T /\ T \subseteq 1..Len(heap')
    BY <1>2, MainAssumption, Facts DEF InCall, New, Nodes
  <1>6. Passes(T, T \ B, Nil)
    BY <1>2, <1>5 DEF Passes
  <1>7. Slots(Nil)
    BY SlotsStill DEF InCall
  <1>8. T \ (T \ B) = B
    BY <1>4
  <1>9. Turns(Main, T, T \ B)
    BY DEF B
  <1>10. CASE Adds(notifier, notifier', {m}, {m}, {heap[m].leaf}, {})
    <2>1. /\ {m} \subseteq T \ (T \ B) /\ {m} \subseteq {m} \ (T \ B)
          /\ {heap[m].leaf} \subseteq {heap[a].leaf : a \in {m}}
          /\ \A k \in (T \ B) \cap {m} : heap'[k].leaf = Nil
      BY <1>4
    <2>2. Adds(notifier, notifier', T \ (T \ B), {m} \ (T \ B),
               {heap[a].leaf : a \in {m}}, {})
      BY <1>10, <2>1 DEF Adds
    <2>3. Hands(T, T \ B, {m}, {}, Nil)
      BY <1>5, <1>6, <2>1, <2>2 DEF Hands, Closed
    <2> QED BY <1>7, <1>9, <2>3, MainTurn
  <1>11. CASE Adds(notifier, notifier', {}, {}, {}, {m})
    <2>1. /\ (T \ B) \cap B = {} /\ {m} \subseteq B /\ B \ (T \ B) = B
          /\ B \subseteq T /\ \A k \in B : heap'[k].kids = heap[k].kids
      BY <1>4
    <2>2. Adds(notifier, notifier', T \ (T \ B), B \ (T \ B),
               {heap[a].leaf : a \in B}, B)
      BY <1>11, <2>1 DEF Adds
    <2>3. Hands(T, T \ B, B, B, Nil)
      BY <1>4, <1>5, <1>6, <2>1, <2>2 DEF Hands
    <2> QED BY <1>7, <1>9, <2>3, MainTurn
  <1> QED BY <1>10, <1>11

\* Delete of a leaf, DeletePrefix of a subtree: what is cut is recorded first.
LEMMA DeleteLeafTurn ==
    ASSUME IInv, SInv, NInv, Next, DeleteLeaf(Main) \/ DeleteSubtree(Main)
    PROVE  NInv'
  <1> DEFINE m == op[Main].m
  <1>1. op[Main].pc = "remove" /\ heap' = heap /\ leaves' = leaves
        /\ current' = current
    BY DEF DeleteLeaf, DeleteSubtree, At, mem, Rest, pub
  <1>2. InCall /\ Lists(notifier) /\ Once(notifier)
    BY <1>1, CallTurn DEF WritePc
  <1>3. Moved(Main)
    BY MainAssumption, DeleteLeafMoves
  <1>4. PICK T : m \in T /\ Turns(Main, T, T \ Below(T, Plain(heap), m))
    BY MainAssumption, DeleteLeafMoves
  <1>5. Edges(heap, op[Main]) = Plain(heap)
    BY <1>1, MainAssumption, Looking
  <1>6. PICK d : Live(heap, op[Main], txn[Main].root, T, d)
    BY <1>4 DEF Turns
  <1> HIDE DEF m
  <1>7. /\ m \in Nodes /\ m \in Nat
        /\ m \notin Items(notifier.nodes) /\ m \notin Items(notifier.values)
        /\ m \notin Items(notifier.subtrees)
        /\ heap[m].leaf # Nil => heap[m].leaf \notin Items(notifier.leaves)
    BY <1>2, <1>4, <1>6, NotYet DEF InCall
  <1>8. CASE DeleteLeaf(Main)
    <2>1. heap[m].val # NoVal
      BY <1>1, <1>8, MainAssumption, Facts DEF DeleteLeaf, CallAt, m
    <2>2. notifier' = dropWithLeaf(Main, notifier, m)
      BY <1>8 DEF DeleteLeaf, m
    <2>3. Adds(notifier, notifier', Lent(m), Lent(m), {heap[m].leaf}, {})
      BY <1>2, <1>7, <2>1, <2>2, AddWithLeaf DEF InCall
    <2>4. Adds(notifier, notifier', {m}, {m}, {heap[m].leaf}, {})
      BY <2>3 DEF Adds, Lent
    <2> QED BY <1>1, <1>2, <1>3, <1>4, <1>5, <2>4, DropTurn
  <1>9. CASE DeleteSubtree(Main)
    <2>1. notifier' = dropSubtree(Main, notifier, m)
      BY <1>9 DEF DeleteSubtree, m
    <2>2. Adds(notifier, notifier', {}, {}, {}, {m})
      BY <1>2, <1>7, <2>1, AddOne
    <2> QED BY <1>1, <1>2, <1>3, <1>4, <1>5, <2>2, DropTurn
  <1> QED BY <1>8, <1>9

\* The whole tree goes: a new root takes its place.
LEMMA DeleteAllTurn ==
    ASSUME IInv, SInv, NInv, Next, DeleteAll(Main)
    PROVE  NInv'
  <1> DEFINE m == op[Main].m
  <1>1. op[Main].pc = "remove" /\ current' = current
        /\ notifier' = dropSubtree(Main, notifier, m)
        /\ heap' = Append(heap, EmptyNode(txn[Main].epoch))
    BY DEF DeleteAll, At, Rest, pub
  <1>2. InCall /\ Lists(notifier) /\ Once(notifier)
    BY <1>1, CallTurn DEF WritePc
  <1>3. Moved(Main)
    BY MainAssumption, DeleteAllMoves
  <1>4. PICK T : m \in T /\ Turns(Main, T, {New})
    BY MainAssumption, DeleteAllMoves
  <1>5. Edges(heap, op[Main]) = Plain(heap)
    BY <1>1, MainAssumption, Looking
  <1>6. PICK d : Live(heap, op[Main], txn[Main].root, T, d)
    BY <1>4 DEF Turns
  <1> HIDE DEF m
  <1>7. m \in Nat /\ m \notin Items(notifier.subtrees)
    BY <1>2, <1>4, <1>6, NotYet DEF InCall
  <1>8. Adds(notifier, notifier', {}, {}, {}, {m})
    BY <1>1, <1>2, <1>7, AddOne
  <1>9. T \subseteq Nodes
    BY <1>2, <1>6, MainFacts DEF InCall
  <1>10. /\ heap \in Seq(NodeType) /\ Len(heap) \in Nat /\ New = Len(heap) + 1
         /\ Nodes = 1..Len(heap)
    BY MainAssumption, Facts DEF New, Nodes
  <1>11. EmptyNode(txn[Main].epoch).leaf = Nil
    BY DEF EmptyNode
  <1>12. /\ Len(heap') = New /\ heap'[New].leaf = Nil
         /\ \A k \in 1..Len(heap) : heap'[k] = heap[k]
    BY <1>1, <1>10, <1>11
  <1>13. New \notin T /\ T \ {New} = T /\ {New} \cap T = {} /\ {New} \cap Nodes = {}
    BY <1>9, <1>10
  <1>14. Passes(T, {New}, Nil)
    BY <1>9, <1>10, <1>12, <1>13 DEF Passes
  <1>15. Closed(T, Plain(heap))
    <2>1. IsTree(T, Plain(heap), txn[Main].root, d)
      BY <1>5, <1>6 DEF Live, RadixTree
    <2> QED BY <2>1, TreeParts DEF Closed
  <1>16. \A k \in T : heap'[k].kids = heap[k].kids
    BY <1>9, <1>10, <1>12
  <1>17. Adds(notifier, notifier', T \ {New}, T \ {New}, {heap[a].leaf : a \in T}, T)
    BY <1>4, <1>8, <1>13 DEF Adds
  <1>18. Hands(T, {New}, T, T, Nil)
    BY <1>12, <1>13, <1>14, <1>15, <1>16, <1>17 DEF Hands
  <1>19. Slots(Nil)
    BY MainAssumption, SlotsDeleteAll
  <1> QED BY <1>1, <1>2, <1>3, <1>4, <1>18, <1>19, MainTurn

-----------------------------------------------------------------------------
(* Other steps                                                              *)

\* The nodes of Main's tree are no other writer's.
LEMMA MainTreeNodes ==
    ASSUME IInv, NEW T, MainTree(T)
    PROVE  /\ T \subseteq Nodes /\ \A k \in T : Visible(Main, k)
           /\ MainOp \in OpType
  <1>1. PICK d : Live(heap, MainOp, MainRoot, T, d)
    BY DEF MainTree
  <1>2. CASE txn[Main].root = Nil
    <2>1. MainOp = IdleOp /\ MainRoot = current /\ current \in trees
      BY <1>2 DEF MainOp, MainRoot, IInv, TypeOK, PubOK
    <2>2. T \subseteq Nodes /\ \A k \in T : Frozen(k)
      BY <1>1, <2>1, PubNodes
    <2> QED BY <2>1, <2>2, IdleType DEF Frozen, Visible
  <1>3. CASE txn[Main].root # Nil
    <2>1. MainOp = op[Main] /\ MainRoot = txn[Main].root
      BY <1>3 DEF MainOp, MainRoot
    <2> QED BY <1>1, <1>3, <2>1, MainAssumption, LiveNodes, Facts
  <1> QED BY <1>2, <1>3

\* What others do leaves all that Main sees as it is.
LEMMA OthersTurn ==
    ASSUME IInv, IInv', NInv, NEW x, Slots(x), notifier' = notifier,
           current' = current, op'[Main] = op[Main],
           txn'[Main].root = txn[Main].root,
           \A k \in Nodes : Visible(Main, k) => Same(heap, heap', k)
    PROVE  NInv'
  <1>1. PICK T, D : MainTree(T) /\ Doomed(D) /\ Clean(T) /\ Apart(T, D)
    BY DEF NInv
  <1>2. PICK d : Live(heap, MainOp, MainRoot, T, d)
    BY <1>1 DEF MainTree
  <1>3. /\ T \subseteq Nodes /\ \A k \in T : Visible(Main, k)
        /\ MainOp \in OpType
    BY <1>1, MainTreeNodes
  <1>4. /\ Len(heap) \in Nat /\ Len(heap') \in Nat /\ Len(heap) <= Len(heap')
        /\ New = Len(heap) + 1 /\ Nodes = 1..Len(heap)
        /\ Nodes \subseteq 1..Len(heap')
    BY MainAssumption, Facts, FactsNext DEF Slots, SlotsTo, New, Nodes
  <1>5. MainTree(T)'
    <2>1. Live(heap', MainOp, MainRoot, T, d)
      BY <1>2, <1>3, <1>4, LiveSame
    <2>2. MainTree(T)' <=> \E c : Live(heap', MainOp', MainRoot', T, c)
      BY DEF MainTree
    <2>3. MainOp' = MainOp /\ MainRoot' = MainRoot
      BY DEF MainOp, MainRoot
    <2> QED BY <2>1, <2>2, <2>3
  <1>0. PICK E : E = {k \in D : Visible(Main, k)}
    OBVIOUS
  <1>6. Doomed(E)
    <2>1. ASSUME NEW k \in E, NEW b \in Byte, Plain(heap)[k][b] # Nil
          PROVE  Plain(heap)[k][b] \in E
      <3>1. k \in Nodes /\ Visible(Main, k) /\ k \in D
        BY <1>1, <1>0 DEF Doomed
      <3>2. Plain(heap)[k][b] = Kid(k, b)
        BY <3>1 DEF Plain, Kid, Nodes
      <3>3. Visible(Main, Kid(k, b))
        BY <2>1, <3>1, <3>2, MainAssumption, KidVisible
      <3> QED BY <1>1, <1>0, <2>1, <3>1, <3>2, <3>3 DEF Doomed, Closed
    <2>2. Recorded(notifier)
      BY DEF IInv, Ownership, RecordedIsFrozen
    <2>3. Items(notifier.subtrees) \subseteq E /\ notifier.sealing \subseteq E
      BY <1>1, <1>0, <2>2 DEF Doomed, Recorded, Items
    <2>4. Closed(E, Plain(heap))
      BY <2>1 DEF Closed
    <2> QED BY <1>1, <1>0, <2>3, <2>4 DEF Doomed
  <1>7. Apart(T, E)
    BY <1>1, <1>0 DEF Apart
  <1>8. \A k \in E : Visible(Main, k)
    BY <1>0
  <1>9. E \subseteq Nodes
    BY <1>6 DEF Doomed
  <1>10. Doomed(E)'
    <2>1. \A k \in E : heap'[k].kids = heap[k].kids
      BY <1>8, <1>9 DEF Same
    <2>2. \A k \in E : Plain(heap')[k] = Plain(heap)[k]
      BY <1>4, <1>9, <2>1 DEF Plain
    <2>3. Closed(E, Plain(heap'))
      BY <1>6, <2>2 DEF Doomed, Closed
    <2>4. Doomed(E)' <=> /\ E \subseteq 1..Len(heap') /\ Closed(E, Plain(heap'))
                         /\ Items(notifier'.subtrees) \subseteq E
                         /\ notifier'.sealing \subseteq E
      BY DEF Doomed, Nodes
    <2> QED BY <1>4, <1>6, <1>9, <2>3, <2>4 DEF Doomed
  <1>11. New \notin T
    BY <1>3, <1>4
  <1>12. Passes(T, T, x)
    BY <1>3, <1>4, <1>11 DEF Passes
  <1>13. Loses(T, T, {}, {}, x)
    BY <1>11 DEF Loses, Records
  <1>14. Clean(T)'
    BY <1>1, <1>12, CleanKept
  <1>15. Apart(T, E)'
    <2>1. Apart(T, E \cup {})'
      BY <1>1, <1>7, <1>9, <1>12, <1>13, ApartKept
    <2>2. E \cup {} = E
      OBVIOUS
    <2> QED BY <2>1, <2>2
  <1>16. PICK C : CurTree(C) /\ Clean(C)
    BY DEF NInv
  <1>17. CurTree(C)' /\ C \subseteq Nodes
    <2>1. PICK e : Live(heap, IdleOp, current, C, e)
      BY <1>16 DEF CurTree
    <2>2. current \in trees
      BY DEF IInv, TypeOK, PubOK
    <2>3. C \subseteq Nodes /\ \A k \in C : Frozen(k)
      BY <2>1, <2>2, PubNodes
    <2>4. \A k \in C : Same(heap, heap', k)
      BY <2>3 DEF Frozen, Visible
    <2>5. Live(heap', IdleOp, current, C, e)
      BY <1>4, <2>1, <2>3, <2>4, IdleType, LiveSame
    <2>6. CurTree(C)' <=> \E c : Live(heap', IdleOp, current', C, c)
      BY DEF CurTree
    <2> QED BY <2>3, <2>5, <2>6
  <1>18. Clean(C)'
    BY <1>16, <1>17, StaysClean
  <1>19. leaves'[sealedLeaf] = "sealed"
    <2>1. leaves[1] = "sealed" /\ 1 \in 1..Len(leaves) /\ 1 \in 1..Len(leaves')
      BY MainAssumption, Facts, FactsNext
         DEF NInv, sealedLeaf, Slots, LeavesKept, IInv, TypeOK, HeapOK
    <2> QED BY <2>1 DEF Slots, LeavesKept, sealedLeaf
  <1>20. RecordedOnce'
    BY DEF NInv, RecordedOnce
  <1> QED BY <1>5, <1>10, <1>14, <1>15, <1>17, <1>18, <1>19, <1>20 DEF NInv

\* In a step that changes no child, Main's tree stays where its root does.
LEMMA StillTree ==
    ASSUME SInv, SInv', IInv', heap' = heap, MainRoot' = MainRoot,
           MainOp.pc # "fork", ~Cutting(MainOp),
           MainOp'.pc # "fork", ~Cutting(MainOp'), NEW T, MainTree(T)
    PROVE  MainTree(T)' /\ \E d : RadixTree(heap, T, Plain(heap), MainRoot, d)
  <1>1. PICK d : Live(heap, MainOp, MainRoot, T, d)
    BY DEF MainTree
  <1>2. RadixTree(heap, T, Plain(heap), MainRoot, d)
    BY <1>1, PlainEdges DEF Live, Plain
  <1>3. LiveTree(heap', MainOp', MainRoot')
    <2>1. /\ MainOp' = IF txn'[Main].root = Nil THEN IdleOp ELSE op'[Main]
          /\ MainRoot' = IF txn'[Main].root = Nil THEN current'
                                                  ELSE txn'[Main].root
      BY DEF MainOp, MainRoot
    <2>2. CASE txn'[Main].root = Nil
      <3>1. current' \in trees' /\ \A t \in trees' : LiveTree(heap', IdleOp, t)
        BY DEF SInv, IInv, TypeOK, PubOK
      <3> QED BY <2>1, <2>2, <3>1
    <2>3. CASE txn'[Main].root # Nil
      BY <2>1, <2>3, MainAssumption DEF SInv
    <2> QED BY <2>2, <2>3
  <1>4. PICK U, e : Live(heap', MainOp', MainRoot', U, e)
    BY <1>3 DEF LiveTree
  <1>5. RadixTree(heap', U, Plain(heap'), MainRoot', e)
    BY <1>4, PlainEdges DEF Live, Plain
  <1>6. T = U
    <2>1. /\ IsTree(T, Plain(heap), MainRoot, d)
          /\ IsTree(U, Plain(heap), MainRoot, e)
      BY <1>2, <1>5 DEF RadixTree
    <2> QED BY <2>1, TreeUnique
  <1>7. MainTree(T)' <=> \E c : Live(heap', MainOp', MainRoot', T, c)
    BY DEF MainTree
  <1> QED BY <1>2, <1>4, <1>6, <1>7

\* Main's step leaves the heap, its tree and the Notifier as they are, and what
\* it may publish is that tree.
LEMMA StillTurn ==
    ASSUME IInv, SInv, SInv', IInv', NInv, heap' = heap, leaves' = leaves,
           notifier' = notifier, MainRoot' = MainRoot,
           current' = current \/ current' = MainRoot,
           MainOp.pc # "fork", ~Cutting(MainOp),
           MainOp'.pc # "fork", ~Cutting(MainOp')
    PROVE  NInv'
  <1>1. PICK T, D : MainTree(T) /\ Doomed(D) /\ Clean(T) /\ Apart(T, D)
    BY DEF NInv
  <1>2. MainTree(T)'
    BY <1>1, StillTree
  <1>3. PICK d : RadixTree(heap, T, Plain(heap), MainRoot, d)
    BY <1>1, StillTree
  <1>4. Clean(T)' /\ Doomed(D)' /\ Apart(T, D)'
    BY <1>1 DEF Clean, Doomed, Apart, Nodes
  <1>5. \E C : CurTree(C)' /\ Clean(C)'
    <2>1. CASE current' = current
      <3>1. PICK C : CurTree(C) /\ Clean(C)
        BY DEF NInv
      <3>2. CurTree(C)' /\ Clean(C)'
        BY <2>1, <3>1 DEF CurTree, Clean
      <3> QED BY <3>2
    <2>2. CASE current' = MainRoot
      <3>1. Live(heap, IdleOp, MainRoot, T, d)
        BY <1>3, IdleType, IdleLive
      <3>2. CurTree(T)' <=> \E c : Live(heap', IdleOp, current', T, c)
        BY DEF CurTree
      <3> QED BY <1>4, <2>2, <3>1, <3>2
    <2> QED BY <2>1, <2>2
  <1>6. leaves'[sealedLeaf] = "sealed" /\ RecordedOnce'
    BY DEF NInv, RecordedOnce
  <1> QED BY <1>1, <1>2, <1>4, <1>5, <1>6 DEF NInv

\* A call that neither forks nor cuts sees the children there are.
Looks(o) == o.pc # "fork" /\ ~Cutting(o)

\* What a step of a call turns the call's locals into.
LEMMA NextOp ==
    ASSUME IInv, NEW o, op' = [op EXCEPT ![Main] = o]
    PROVE  op'[Main] = o
  BY MainAssumption, Facts

\* A step within a call, or at the start or the end of one.
LEMMA CallStill ==
    ASSUME IInv, SInv, NInv, Next, heap' = heap, leaves' = leaves,
           notifier' = notifier, current' = current, txn[Main].root # Nil,
           txn'[Main].root = txn[Main].root, Looks(op[Main]), Looks(op'[Main])
    PROVE  NInv'
  <1>1. SInv' /\ IInv'
    BY NextStep, NextSInv
  <1>2. /\ MainOp = op[Main] /\ MainOp' = op'[Main] /\ MainRoot' = MainRoot
    BY DEF MainOp, MainRoot
  <1> QED BY <1>1, <1>2, StillTurn DEF Looks

\* To give a call a value leaves it where it is.
LEMMA ValOnly ==
    ASSUME NEW o \in OpType, NEW v
    PROVE  [o EXCEPT !.val = v].pc = o.pc
  BY DEF OpType

\* The start of a call changes no node, and cuts nothing.
LEMMA StartStill ==
    ASSUME IInv, NEW k \in Key,
           Insert(Main, k) \/ Delete(Main, k) \/ DeletePrefix(Main, k)
    PROVE  /\ txn[Main].root # Nil /\ txn'[Main].root = txn[Main].root
           /\ heap' = heap /\ leaves' = leaves /\ notifier' = notifier
           /\ current' = current /\ lineage' = lineage /\ pend' = pend
           /\ Looks(op[Main]) /\ Looks(op'[Main])
  <1>1. /\ op[Main].pc = "idle" /\ txn[Main].root # Nil /\ heap' = heap
        /\ leaves' = leaves /\ notifier' = notifier /\ current' = current
        /\ lineage' = lineage /\ pend' = pend
    BY DEF Insert, Delete, DeletePrefix, Ready, mem, pub
  <1>2. k \in Seq(Byte) /\ txn \in [Writer -> [root : Ref, epoch : Nat]]
    BY KeyAssumption, MainAssumption, Facts
  <1>3. txn'[Main].root = txn[Main].root
    BY <1>2, MainAssumption, BeginEpoch DEF Insert, Delete, DeletePrefix
  <1>4. op'[Main].pc \in {"insert", "find"}
    <2>1. CASE Insert(Main, k)
      <3> DEFINE c == Call(Main, "Insert", k, "insert")
                 o == [c EXCEPT !.val = ops + 1]
      <3>1. c \in OpType /\ c.pc = "insert"
        BY <1>2, MainAssumption, CallType
      <3>2. op' = [op EXCEPT ![Main] = o]
        BY <2>1 DEF Insert, Goto
      <3> HIDE DEF c
      <3>3. o.pc = "insert"
        BY <3>1, ValOnly
      <3> QED BY <3>2, <3>3, NextOp
    <2>2. CASE Delete(Main, k)
      <3>1. op' = [op EXCEPT ![Main] = Call(Main, "Delete", k, "find")]
        BY <2>2 DEF Delete, Goto
      <3>2. Call(Main, "Delete", k, "find").pc = "find"
        BY <1>2, MainAssumption, CallType
      <3> QED BY <3>1, <3>2, NextOp
    <2>3. CASE DeletePrefix(Main, k)
      <3>1. op' = [op EXCEPT ![Main] = Call(Main, "DeletePrefix", k, "find")]
        BY <2>3 DEF DeletePrefix, Goto
      <3>2. Call(Main, "DeletePrefix", k, "find").pc = "find"
        BY <1>2, MainAssumption, CallType
      <3> QED BY <3>1, <3>2, NextOp
    <2> QED BY <2>1, <2>2, <2>3
  <1> QED BY <1>1, <1>3, <1>4 DEF Looks, Cutting

\* A call starts.
LEMMA StartTurn ==
    ASSUME IInv, SInv, NInv, Next, NEW k \in Key,
           Insert(Main, k) \/ Delete(Main, k) \/ DeletePrefix(Main, k)
    PROVE  NInv'
  BY StartStill, CallStill

\* A call looks for its key, decides what to do, or comes back with nothing.
LEMMA LookTurn ==
    ASSUME IInv, SInv, NInv, Next,
           \/ InsertDown(Main) \/ FindDown(Main) \/ FindMiss(Main)
           \/ FindHit(Main) \/ DeleteRoot(Main) \/ DeleteInner(Main)
    PROVE  NInv'
  <1>1. /\ op[Main].pc \in {"down", "find", "remove"} /\ heap' = heap
        /\ leaves' = leaves /\ notifier' = notifier /\ current' = current
    BY DEF InsertDown, FindDown, FindMiss, FindHit, DeleteRoot, DeleteInner,
           At, mem, Rest, pub
  <1>2. /\ op[Main] \in OpType /\ op \in [Writer -> OpType]
        /\ txn \in [Writer -> [root : Ref, epoch : Nat]]
        /\ txn[Main].root # Nil
    BY <1>1, MainAssumption, Facts DEF CallAt
  <1>3. txn'[Main].root = txn[Main].root
    <2>1. CASE FindHit(Main)
      <3>1. begin(Main)
        BY <2>1 DEF FindHit
      <3> QED BY <1>2, <3>1, MainAssumption, BeginEpoch
    <2>2. CASE ~FindHit(Main)
      BY <2>2 DEF InsertDown, FindDown, FindMiss, DeleteRoot, DeleteInner
    <2> QED BY <2>1, <2>2
  <1>4. Looks(op'[Main])
    <2>1. CASE InsertDown(Main)
      <3>1. PICK p, l, n, s : op' = [op EXCEPT ![Main] =
                [op[Main] EXCEPT !.pc = "insert", !.parent = p, !.l = l, !.n = n,
                                 !.search = s]]
        BY <2>1 DEF InsertDown, Goto
      <3> DEFINE o == [op[Main] EXCEPT !.pc = "insert", !.parent = p, !.l = l,
                                       !.n = n, !.search = s]
      <3>2. o.pc = "insert"
        BY <1>2 DEF OpType
      <3>3. op' = [op EXCEPT ![Main] = o]
        BY <3>1
      <3> HIDE DEF o
      <3>4. op'[Main] = o
        BY <3>3, NextOp
      <3> QED BY <3>2, <3>4 DEF Looks, Cutting
    <2>2. CASE FindDown(Main)
      <3>1. PICK n, p, s : op' = [op EXCEPT ![Main] =
                [op[Main] EXCEPT !.n = n, !.path = p, !.search = s]]
        BY <2>2 DEF FindDown, Goto
      <3>2. op'[Main].pc = op[Main].pc /\ op[Main].pc = "find"
        BY <1>2, <2>2, <3>1, NextOp DEF OpType, FindDown, At
      <3> QED BY <3>2 DEF Looks, Cutting
    <2>3. CASE FindMiss(Main)
      <3>1. Return(Main, NoVal)
        BY <2>3 DEF FindMiss
      <3>2. PICK o : op' = [op EXCEPT ![Main] = o] /\ o.pc = "idle"
        BY <3>1, ReturnIdle
      <3>3. op'[Main].pc = "idle"
        BY <3>2, NextOp
      <3> QED BY <3>3 DEF Looks, Cutting
    <2>4. CASE FindHit(Main)
      <3>1. PICK m, v : op' = [op EXCEPT ![Main] =
                [op[Main] EXCEPT !.pc = "remove", !.m = m, !.val = v]]
        BY <2>4 DEF FindHit, Goto
      <3> DEFINE o == [op[Main] EXCEPT !.pc = "remove", !.m = m, !.val = v]
      <3>2. o.pc = "remove"
        BY <1>2 DEF OpType
      <3>3. op' = [op EXCEPT ![Main] = o]
        BY <3>1
      <3> HIDE DEF o
      <3>4. op'[Main] = o
        BY <3>3, NextOp
      <3> QED BY <3>2, <3>4 DEF Looks, Cutting
    <2>5. CASE DeleteRoot(Main)
      <3> DEFINE o == [op[Main] EXCEPT !.pc = "clear"]
      <3>1. op' = [op EXCEPT ![Main] = o]
        BY <2>5 DEF DeleteRoot, Goto
      <3>2. o.pc = "clear"
        BY <1>2 DEF OpType
      <3> HIDE DEF o
      <3>3. op'[Main] = o
        BY <3>1, NextOp
      <3> QED BY <3>2, <3>3 DEF Looks, Cutting
    <2>6. CASE DeleteInner(Main)
      <3>1. PICK g \in {"fold", "clear"} : op' = [op EXCEPT ![Main] =
                [op[Main] EXCEPT !.pc = "ownpath", !.goal = g]]
        BY <2>6 DEF DeleteInner, OwnPathFor, Goto
      <3> DEFINE o == [op[Main] EXCEPT !.pc = "ownpath", !.goal = g]
      <3>2. o.pc = "ownpath" /\ o.goal = g
        BY <1>2 DEF OpType
      <3>3. op' = [op EXCEPT ![Main] = o]
        BY <3>1
      <3> HIDE DEF o
      <3>4. op'[Main] = o
        BY <3>3, NextOp
      <3> QED BY <3>2, <3>4 DEF Looks, Cutting
    <2> QED BY <2>1, <2>2, <2>3, <2>4, <2>5, <2>6
  <1>5. Looks(op[Main])
    BY <1>1 DEF Looks, Cutting
  <1> QED BY <1>1, <1>2, <1>3, <1>4, <1>5, CallStill

\* To start a transaction, to share its tree or to publish it changes no node,
\* nor where the root of Main's tree is.
LEMMA PublishStill ==
    ASSUME IInv, \/ \E root \in trees : Txn(Main, root)
                 \/ Freeze(Main) \/ Commit(Main)
    PROVE  /\ op[Main].pc = "idle" /\ heap' = heap /\ leaves' = leaves
           /\ notifier' = notifier /\ MainRoot' = MainRoot
           /\ current' = current \/ current' = MainRoot
           /\ MainOp.pc # "fork" /\ ~Cutting(MainOp)
           /\ MainOp'.pc # "fork" /\ ~Cutting(MainOp')
  <1>1. /\ op[Main].pc = "idle" /\ heap' = heap /\ leaves' = leaves
        /\ notifier' = notifier
    BY DEF Txn, Freeze, Commit, Ready, mem
  <1>2. /\ txn \in [Writer -> [root : Ref, epoch : Nat]]
        /\ op \in [Writer -> OpType] /\ current \in Nodes /\ Nil \notin Nodes
    BY MainAssumption, Facts DEF IInv, TypeOK, PubOK, Nodes, Nil
  <1>3. MainOp.pc \in {"idle", "notify"}
    BY <1>1, IdleType DEF MainOp
  <1>4. /\ MainOp'.pc \in {"idle", "notify"} /\ MainRoot' = MainRoot
        /\ current' = current \/ current' = MainRoot
    <2>1. CASE \E root \in trees : Txn(Main, root)
      <3>1. /\ txn' = [txn EXCEPT ![Main] = [root |-> current, epoch |-> 0]]
            /\ txn[Main].root = Nil /\ op' = op /\ current' = current
        BY <2>1 DEF Txn, pub
      <3>2. txn'[Main].root = current /\ current # Nil
        BY <1>2, <3>1, MainAssumption
      <3> QED BY <1>1, <3>1, <3>2 DEF MainOp, MainRoot
    <2>2. CASE Freeze(Main)
      <3>1. /\ txn' = [txn EXCEPT ![Main].epoch = 0] /\ op' = op
            /\ txn[Main].root # Nil /\ current' = current
        BY <2>2 DEF Freeze, Ready
      <3>2. txn'[Main].root = txn[Main].root
        BY <1>2, <3>1, MainAssumption
      <3> QED BY <1>1, <3>1, <3>2 DEF MainOp, MainRoot
    <2>3. CASE Commit(Main)
      <3>1. /\ txn' = [txn EXCEPT ![Main] = NoTxn] /\ current' = txn[Main].root
            /\ txn[Main].root # Nil
        BY <2>3 DEF Commit, Ready
      <3>2. txn'[Main].root = Nil
        BY <1>2, <3>1, MainAssumption DEF NoTxn
      <3> QED BY <3>1, <3>2, IdleType DEF MainOp, MainRoot
    <2> QED BY <2>1, <2>2, <2>3
  <1>5. /\ MainOp.pc # "fork" /\ ~Cutting(MainOp)
        /\ MainOp'.pc # "fork" /\ ~Cutting(MainOp')
    BY <1>3, <1>4 DEF Cutting
  <1> QED BY <1>1, <1>4, <1>5

\* A transaction starts, its tree is shared or published.
LEMMA PublishTurn ==
    ASSUME IInv, SInv, NInv, Next,
           \/ \E root \in trees : Txn(Main, root)
           \/ Freeze(Main) \/ Commit(Main)
    PROVE  NInv'
  <1>1. SInv' /\ IInv'
    BY NextStep, NextSInv
  <1> QED BY <1>1, PublishStill, StillTurn

\* The transaction is given up, and its records with it: what is published was
\* not touched.
LEMMA AbortTurn ==
    ASSUME IInv, SInv, NInv, Next, Abort(Main)
    PROVE  NInv'
  <1>1. /\ heap' = heap /\ leaves' = leaves /\ notifier' = NoNotifier
        /\ txn' = [txn EXCEPT ![Main] = NoTxn] /\ current' = current
    BY DEF Abort, mem
  <1>2. txn'[Main].root = Nil
    BY <1>1, MainAssumption, Facts DEF NoTxn
  <1>3. PICK C : CurTree(C) /\ Clean(C)
    BY DEF NInv
  <1>4. CurTree(C)' /\ Clean(C)'
    BY <1>1, <1>3 DEF CurTree, Clean
  <1>5. MainTree(C)'
    BY <1>2, <1>4 DEF MainTree, CurTree, MainOp, MainRoot
  <1>6. /\ Items(notifier'.nodes) = {} /\ Items(notifier'.values) = {}
        /\ Items(notifier'.leaves) = {} /\ Items(notifier'.subtrees) = {}
        /\ notifier'.sealing = {} /\ RecordedOnce'
    BY <1>1 DEF NoNotifier, Items, RecordedOnce, Distinct
  <1>7. Doomed({})' /\ Apart(C, {})'
    BY <1>6 DEF Doomed, Closed, Apart
  <1>8. leaves'[sealedLeaf] = "sealed"
    BY <1>1 DEF NInv, sealedLeaf
  <1> QED BY <1>4, <1>5, <1>6, <1>7, <1>8 DEF NInv

\* A step of a reader.
LEMMA ReadTurn ==
    ASSUME IInv, SInv, NInv, Next, NEW r \in Reader,
           \/ Read(r)
           \/ \E kind \in {"key", "prefix"}, t \in trees, k \in Key :
                 ReadStart(r, kind, t, k)
    PROVE  NInv'
  <1>1. IInv'
    BY NextStep
  <1>2. /\ notifier' = notifier /\ current' = current /\ op'[Main] = op[Main]
        /\ txn'[Main].root = txn[Main].root
    BY DEF Read, ReadStart, ReadDown, ReadEnd, SlotChan, ValueChan, ReaderRest,
           pub
  <1>3. AllSame(heap, heap')
    BY ReadSame
  <1>4. \A k \in Nodes : Same(heap, heap', k)
    BY <1>3 DEF AllSame, Nodes
  <1>5. \E x : Slots(x)
    <2>1. CASE SlotChan(r) \/ ValueChan(r)
      BY <2>1, SlotsSlotChan, SlotsValueChan
    <2>2. CASE ~(SlotChan(r) \/ ValueChan(r))
      <3>1. heap' = heap /\ leaves' = leaves
        BY <2>2 DEF Read, ReadStart, ReadDown, ReadEnd, mem
      <3> QED BY <3>1, SlotsStill
    <2> QED BY <2>1, <2>2
  <1> QED BY <1>1, <1>2, <1>4, <1>5, OthersTurn

\* Who tracks nothing records nothing.
LEMMA Untracked ==
    ASSUME NEW w \in Writer, w # Main, NEW nf, NEW n
    PROVE  /\ dropNode(w, nf, n) = nf /\ dropLeaf(w, nf, n) = nf
           /\ dropValue(w, nf, n) = nf /\ dropSubtree(w, nf, n) = nf
           /\ releaseValue(w, nf, n) = nf /\ dropReplaced(w, nf, n) = nf
           /\ dropWithLeaf(w, nf, n) = nf
  BY DEF dropNode, dropLeaf, dropValue, dropSubtree, releaseValue, dropReplaced,
         dropWithLeaf

\* A step that another writer makes on its own nodes.
LEMMA OwnNodes ==
    ASSUME IInv, SInv, NInv, Next, NEW w \in Writer, w # Main, Spares(w),
           NEW x, Slots(x), notifier' = notifier, current' = current
    PROVE  NInv'
  <1>1. IInv'
    BY NextStep
  <1>2. op'[Main] = op[Main] /\ txn'[Main].root = txn[Main].root
    BY MainAssumption DEF Spares
  <1>3. \A k \in Nodes : Visible(Main, k) => Same(heap, heap', k)
    BY DEF Spares, Visible
  <1> QED BY <1>1, <1>2, <1>3, OthersTurn

\* Another writer starts, shares, publishes or gives up its transaction, or
\* starts a call.
LEMMA OtherBegin ==
    ASSUME IInv, SInv, NInv, Next, NEW w \in Writer, w # Main, Begin(w)
    PROVE  NInv'
  <1>1. /\ heap' = heap /\ leaves' = leaves /\ notifier' = notifier
        /\ current' = current
    BY DEF Begin, Txn, Freeze, Commit, Abort, Insert, Delete, DeletePrefix, mem,
           pub
  <1>2. Slots(Nil)
    BY <1>1, SlotsStill
  <1>3. CASE Freeze(w) \/ Commit(w)
    <2>1. op'[Main] = op[Main] /\ txn'[Main].root = txn[Main].root
      BY <1>3, MainAssumption, Facts DEF Freeze, Commit
    <2>2. \A k \in Nodes : Same(heap, heap', k)
      BY <1>1 DEF Same, Like
    <2> QED BY <1>1, <1>2, <2>1, <2>2, NextStep, OthersTurn
  <1>4. CASE ~(Freeze(w) \/ Commit(w))
    <2>1. Moved(w)
      BY <1>4, TxnMoves, AbortMoves, StartMoves DEF Begin
    <2> QED BY <1>1, <1>2, <2>1, OwnNodes DEF Moved
  <1> QED BY <1>3, <1>4

\* Another writer goes on with a call.
LEMMA OtherStep ==
    ASSUME IInv, SInv, NInv, Next, NEW w \in Writer, w # Main, Step(w)
    PROVE  NInv'
  <1>1. current' = current
    BY DEF Step, InsertStep, DeleteStep, InsertValue, InsertOwn, InsertHang,
           InsertDown, InsertSplitCopy, InsertSplit, FindDown, FindMiss, FindHit,
           DeleteRoot, DeleteLeaf, DeleteInner, DeleteAll, DeleteSubtree,
           OwnPath, Cut, Pull, Fold, Clear, Rest, pub
  <1>2. ASSUME Moved(w), NEW x, Slots(x), notifier' = notifier
        PROVE  NInv'
    BY <1>1, <1>2, OwnNodes DEF Moved
  <1>3. ASSUME heap' = heap, leaves' = leaves
        PROVE  Slots(Nil)
    BY <1>3, SlotsStill
  <1>4. ASSUME NEW n, NEW extra, own(w, n, extra)
        PROVE  notifier' = notifier
    BY <1>4, Untracked DEF own, ownKeep, ownGrow, ownCopy
  <1>5. ASSUME NEW n, NEW v, NEW bit, ownValueless(w, n, v, bit)
        PROVE  notifier' = notifier
    BY <1>5, Untracked DEF ownValueless
  <1>6. ASSUME NEW n, NEW c, NEW nf, nf = notifier, mergeChild(w, nf, n, c)
        PROVE  notifier' = notifier
    BY <1>6, Untracked DEF mergeChild
  <1>7. CASE InsertValue(w)
    <2>1. notifier' = notifier
      BY <1>5, <1>7 DEF InsertValue
    <2> QED BY <1>2, <1>7, <2>1, InsertValueMoves, SlotsInsertValue
  <1>8. CASE InsertOwn(w)
    <2>1. notifier' = notifier
      BY <1>4, <1>8 DEF InsertOwn
    <2> QED BY <1>2, <1>8, <2>1, InsertOwnMoves, SlotsInsertOwn
  <1>9. CASE InsertHang(w)
    BY <1>2, <1>9, InsertHangMoves, SlotsInsertHang DEF InsertHang
  <1>10. CASE InsertDown(w)
    BY <1>2, <1>3, <1>10, InsertDownMoves DEF InsertDown, mem
  <1>11. CASE InsertSplitCopy(w)
    <2>1. notifier' = notifier
      BY <1>11, Untracked DEF InsertSplitCopy
    <2> QED BY <1>2, <1>11, <2>1, InsertSplitCopyMoves, SlotsInsertSplitCopy
  <1>12. CASE InsertSplit(w)
    BY <1>2, <1>12, InsertSplitMoves, SlotsInsertSplit DEF InsertSplit
  <1>13. CASE FindDown(w) \/ FindMiss(w) \/ FindHit(w)
    <2>1. heap' = heap /\ leaves' = leaves /\ notifier' = notifier
      BY <1>13 DEF FindDown, FindMiss, FindHit, mem
    <2> QED BY <1>2, <1>3, <1>13, <2>1, FindDownMoves, FindMissMoves,
               FindHitMoves
  <1>14. CASE DeleteRoot(w) \/ DeleteLeaf(w) \/ DeleteInner(w)
              \/ DeleteSubtree(w)
    <2>1. heap' = heap /\ leaves' = leaves /\ notifier' = notifier
      BY <1>14, Untracked
         DEF DeleteRoot, DeleteLeaf, DeleteInner, DeleteSubtree, mem
    <2> QED BY <1>2, <1>3, <1>14, <2>1, DeleteRootMoves, DeleteLeafMoves,
               DeleteInnerMoves
  <1>15. CASE DeleteAll(w)
    <2>1. notifier' = notifier
      BY <1>15, Untracked DEF DeleteAll
    <2> QED BY <1>2, <1>15, <2>1, DeleteAllMoves, SlotsDeleteAll
  <1>16. CASE OwnPath(w)
    <2>1. notifier' = notifier
      BY <1>4, <1>16, SlotsOwnPath
    <2> QED BY <1>2, <1>16, <2>1, OwnPathMoves, SlotsOwnPath
  <1>17. CASE Cut(w)
    BY <1>2, <1>17, CutMoves, SlotsCut DEF Cut
  <1>18. CASE Clear(w)
    <2>1. notifier' = notifier
      BY <1>5, <1>18, SlotsClear
    <2> QED BY <1>2, <1>18, <2>1, ClearMoves, SlotsClear
  <1>19. ASSUME NEW n, NEW c, NEW nf, nf = notifier, Merges(w, n, c),
                mergeChild(w, nf, n, c), op[w].parent # Nil, Moved(w)
         PROVE  NInv'
    <2>1. PICK T, d : /\ Live(heap, op[w], txn[w].root, T, d) /\ n \in T
                      /\ c \in T
      BY <1>19 DEF Merges, Turns
    <2>2. txn[w].root # Nil
      BY <2>1 DEF Live, RadixTree, IsTree, Nil
    <2>3. n \in Nodes /\ c \in Nodes
      BY <2>1, <2>2, LiveNodes
    <2>4. Slots(c)
      BY <1>19, <2>3, SlotsMerge
    <2> QED BY <1>2, <1>6, <1>19, <2>4
  <1>20. CASE Pull(w)
    <2>1. op[w].parent # Nil
      BY <1>20, Facts DEF Pull, At, CallAt
    <2>2. dropReplaced(w, notifier, op[w].path[1].n) = notifier
      BY Untracked
    <2> QED BY <1>19, <1>20, <2>1, <2>2, PullMoves
  <1>21. CASE Fold(w)
    <2>1. op[w].parent # Nil
      BY <1>21, Facts DEF Fold, At, CallAt
    <2>2. dropWithLeaf(w, notifier, op[w].m) = notifier
      BY Untracked
    <2> QED BY <1>19, <1>21, <2>1, <2>2, FoldMoves
  <1> QED BY <1>7, <1>8, <1>9, <1>10, <1>11, <1>12, <1>13, <1>14, <1>15, <1>16,
             <1>17, <1>18, <1>20, <1>21 DEF Step, InsertStep, DeleteStep

-----------------------------------------------------------------------------
(* Notify: what is sealed has left                                          *)

\* While Main notifies, its tree is the published one.
LEMMA NotifyTree ==
    ASSUME IInv, NInv, op[Main].pc = "notify"
    PROVE  /\ txn[Main].root = Nil
           /\ \E T, D : /\ CurTree(T) /\ Doomed(D) /\ Clean(T) /\ Apart(T, D)
                        /\ T \subseteq Nodes
  <1>1. txn[Main].root = Nil
    BY MainAssumption, Facts DEF CallAt
  <1>2. PICK T, D : MainTree(T) /\ Doomed(D) /\ Clean(T) /\ Apart(T, D)
    BY DEF NInv
  <1>3. CurTree(T)
    BY <1>1, <1>2 DEF MainTree, CurTree, MainOp, MainRoot
  <1>4. T \subseteq Nodes
    BY <1>2, MainTreeNodes
  <1> QED BY <1>1, <1>2, <1>3, <1>4

\* The same children in D.
LEMMA ClosedSame ==
    ASSUME NEW D, NEW K, NEW L, \A k \in D : L[k] = K[k], Closed(D, K)
    PROVE  Closed(D, L)
  BY DEF Closed

\* Of the nodes, only n changes, and it is not in T; of the leaves only l, and
\* no node of T has it.
SealsNode(T, n) ==
    /\ n \notin T /\ \A k \in Nodes : k # n => heap'[k] = heap[k]
    /\ heap'[n].leaf = heap[n].leaf \/ heap'[n].leaf = sealedLeaf
SealsLeaf(T, l) ==
    /\ leaves'[sealedLeaf] = "sealed"
    /\ \A j \in 1..Len(leaves) : j # l => leaves'[j] = leaves[j]
    /\ \A k \in T : heap[k].leaf # Nil => heap[k].leaf # l

\* Sealing a node and a leaf, neither of them in the tree.
LEMMA SealTurn ==
    ASSUME IInv, IInv', NInv, AllSame(heap, heap'), UNCHANGED NotifyRest,
           txn[Main].root = Nil, NEW T, NEW D, CurTree(T), Doomed(D), Clean(T),
           Apart(T, D), T \subseteq Nodes,
           NEW n, SealsNode(T, n), NEW l, SealsLeaf(T, l),
           Records({}, {}, {}), Items(notifier'.subtrees) \subseteq D,
           notifier'.sealing \subseteq D, RecordedOnce'
    PROVE  NInv'
  <1>1. /\ Len(heap') = Len(heap) /\ Len(heap) \in Nat /\ Nodes = 1..Len(heap)
        /\ \A k \in Nodes : Same(heap, heap', k)
    BY MainAssumption, Facts DEF AllSame, Nodes
  <1>2. D \subseteq Nodes
    BY DEF Doomed
  <1>3. \A k \in T : heap'[k] = heap[k]
    BY DEF SealsNode
  <1>4. /\ txn' = txn /\ current' = current /\ op' = op
    BY DEF NotifyRest, pub
  <1>5. MainTree(T)' /\ CurTree(T)'
    <2>1. PICK d : Live(heap, IdleOp, current, T, d)
      BY DEF CurTree
    <2>2. Live(heap', IdleOp, current, T, d)
      <3>1. /\ Len(heap) <= Len(heap') /\ T \subseteq 1..Len(heap)
            /\ \A k \in T : Same(heap, heap', k)
        BY <1>1
      <3> HIDE <1>1
      <3> QED BY <2>1, <3>1, IdleType, LiveSame
    <2>3. CurTree(T)' <=> \E c : Live(heap', IdleOp, current', T, c)
      BY DEF CurTree
    <2>4. CurTree(T)'
      BY <1>4, <2>2, <2>3
    <2>5. MainTree(T)' <=> CurTree(T)'
      BY <1>4 DEF MainTree, CurTree, MainOp, MainRoot
    <2> QED BY <2>4, <2>5
  <1>6. Clean(T)'
    <2>1. ASSUME NEW k \in T, heap[k].leaf # Nil
          PROVE  leaves'[heap[k].leaf] # "sealed"
      <3>1. heap[k].leaf \in 0..Len(leaves)
        BY MainAssumption, Facts
      <3>2. heap[k].leaf \in 1..Len(leaves)
        BY <2>1, <3>1 DEF Nil
      <3> QED BY <2>1, <3>2 DEF Clean, SealsLeaf
    <2> QED BY <1>3, <2>1 DEF Clean
  <1>7. Apart(T, D)'
    <2>1. ASSUME NEW k \in T
          PROVE  /\ k \notin Items(notifier'.nodes)
                 /\ k \notin Items(notifier'.values) \cup D
      BY DEF Apart, Records
    <2>2. ASSUME NEW k \in T, heap[k].leaf # Nil
          PROVE  heap[k].leaf \notin Items(notifier'.leaves)
      BY <2>2 DEF Apart, Records
    <2>3. ASSUME NEW k \in T, heap[k].leaf # Nil,
                 NEW y \in Items(notifier'.values) \cup D
          PROVE  heap'[y].leaf # heap[k].leaf
      <3>1. y \in Items(notifier.values) \cup D
        BY DEF Records
      <3>2. heap[y].leaf # heap[k].leaf
        BY <2>3, <3>1 DEF Apart
      <3>3. y \in Nodes
        BY <1>2, <3>1, RecordedRange
      <3>4. heap[k].leaf # sealedLeaf
        BY <2>3 DEF Clean, NInv
      <3> QED BY <3>2, <3>3, <3>4 DEF SealsNode
    <2> QED BY <1>3, <2>1, <2>2, <2>3 DEF Apart
  <1>8. Doomed(D)'
    <2>1. \A k \in D : heap'[k].kids = heap[k].kids
      BY <1>1, <1>2 DEF Same
    <2>2. Closed(D, Plain(heap'))
      <3>1. \A k \in D : Plain(heap')[k] = Plain(heap)[k]
        BY <1>1, <1>2, <2>1 DEF Plain
      <3>2. Closed(D, Plain(heap))
        BY DEF Doomed
      <3> QED BY <3>1, <3>2, ClosedSame
    <2>3. Doomed(D)' <=> /\ D \subseteq 1..Len(heap') /\ Closed(D, Plain(heap'))
                         /\ Items(notifier'.subtrees) \subseteq D
                         /\ notifier'.sealing \subseteq D
      BY DEF Doomed, Nodes
    <2> QED BY <1>1, <1>2, <2>2, <2>3
  <1> QED BY <1>5, <1>6, <1>7, <1>8 DEF NInv, SealsLeaf

\* The sealing of leaves leaves the one that is sealed from the start sealed.
LEMMA StillSealed ==
    ASSUME IInv, NInv, NEW l,
           leaves' = leaves \/ leaves' = [leaves EXCEPT ![l] = "sealed"]
    PROVE  /\ leaves'[sealedLeaf] = "sealed"
           /\ \A j \in 1..Len(leaves) : j # l => leaves'[j] = leaves[j]
  <1>1. /\ leaves \in Seq(SlotState) /\ leaves[1] = "sealed"
        /\ 1 \in 1..Len(leaves)
    BY MainAssumption, Facts DEF IInv, TypeOK, HeapOK, NInv, sealedLeaf
  <1> QED BY <1>1 DEF sealedLeaf

\* sealValue.
LEMMA SealEffect ==
    ASSUME NEW h, h \in Seq(NodeType), NEW n \in 1..Len(h)
    PROVE  /\ \A k \in 1..Len(h) : k # n => sealValueHeap(h, n)[k] = h[k]
           /\ \/ sealValueHeap(h, n)[n].leaf = h[n].leaf
              \/ sealValueHeap(h, n)[n].leaf = sealedLeaf
  <1> DEFINE x == [h[n] EXCEPT !.leaf = sealedLeaf]
  <1>1. h[n] \in NodeType
    OBVIOUS
  <1>2. x.leaf = sealedLeaf
    BY <1>1 DEF NodeType
  <1>3. [h EXCEPT ![n].leaf = sealedLeaf] = [h EXCEPT ![n] = x]
    OBVIOUS
  <1> HIDE DEF x
  <1> QED BY <1>2, <1>3 DEF sealValueHeap

\* One more thing the Notifier has recorded is sealed.
LEMMA NotifyTurn ==
    ASSUME IInv, NInv, Next, Notify
    PROVE  NInv'
  <1>1. IInv' /\ op[Main].pc = "notify"
    BY NextStep DEF Notify, NotifyNode, NotifyLeaf, NotifyValue, NotifySubtree,
                    SealSubtree, NotifyDone, Notifying
  <1>2. AllSame(heap, heap')
    BY NotifySame
  <1>3. PICK T, D : /\ CurTree(T) /\ Doomed(D) /\ Clean(T) /\ Apart(T, D)
                    /\ T \subseteq Nodes
    BY <1>1, NotifyTree
  <1>4. txn[Main].root = Nil
    BY <1>1, NotifyTree
  <1>5. /\ heap \in Seq(NodeType) /\ leaves \in Seq(SlotState)
        /\ Nodes = 1..Len(heap) /\ Nil \notin T
        /\ \A k \in T : k \in 1..Len(heap)
    BY <1>3, MainAssumption, Facts DEF Nodes, Nil
  <1>6. /\ Lists(notifier) /\ RecordedOnce /\ notifier.nodes \in Seq(Nat)
        /\ notifier.leaves \in Seq(Nat) /\ notifier.values \in Seq(Nat)
        /\ notifier.subtrees \in Seq(Nat)
    BY DEF IInv, TypeOK, NotifierOK, NotifierType, Lists, NInv
  <1>7. /\ D \subseteq Nodes /\ Closed(D, Plain(heap))
        /\ Items(notifier.subtrees) \subseteq D /\ notifier.sealing \subseteq D
    BY <1>3 DEF Doomed
  <1>8. /\ \A k \in T : /\ k \notin Items(notifier.nodes) /\ k \notin D
                        /\ k \notin Items(notifier.values)
        /\ \A k \in T : heap[k].leaf # Nil =>
              /\ heap[k].leaf \notin Items(notifier.leaves)
              /\ \A y \in Items(notifier.values) \cup D :
                    heap[y].leaf # heap[k].leaf
    BY <1>3 DEF Apart
  <1>9. ASSUME UNCHANGED NotifyRest, NEW n, n \notin T, NEW l,
               \A k \in Nodes : k # n => heap'[k] = heap[k],
               heap'[n].leaf = heap[n].leaf \/ heap'[n].leaf = sealedLeaf,
               leaves' = leaves \/ leaves' = [leaves EXCEPT ![l] = "sealed"],
               \A k \in T : heap[k].leaf # Nil => heap[k].leaf # l,
               Records({}, {}, {}), Items(notifier'.subtrees) \subseteq D,
               notifier'.sealing \subseteq D, RecordedOnce'
        PROVE  NInv'
    <2>1. /\ leaves'[sealedLeaf] = "sealed"
          /\ \A j \in 1..Len(leaves) : j # l => leaves'[j] = leaves[j]
      BY <1>9, StillSealed
    <2>2. /\ CurTree(T) /\ Doomed(D) /\ Clean(T) /\ Apart(T, D)
          /\ T \subseteq Nodes
      BY <1>3
    <2>3. IInv' /\ txn[Main].root = Nil /\ AllSame(heap, heap')
      BY <1>1, <1>2, <1>4
    <2>4. /\ UNCHANGED NotifyRest
          /\ SealsNode(T, n) /\ SealsLeaf(T, l)
          /\ Records({}, {}, {}) /\ Items(notifier'.subtrees) \subseteq D
          /\ notifier'.sealing \subseteq D /\ RecordedOnce'
      BY <1>9, <2>1 DEF SealsNode, SealsLeaf
    <2> QED BY <2>1, <2>2, <2>3, <2>4, SealTurn
  <1>10. CASE NotifyNode
    <2> DEFINE n == Head(notifier.nodes)
               x == [heap[n] EXCEPT !.watch = "sealed"]
    <2>1. /\ notifier' = [notifier EXCEPT !.nodes = Tail(@)]
          /\ heap' = [heap EXCEPT ![n] = x] /\ leaves' = leaves
          /\ UNCHANGED NotifyRest /\ notifier.nodes # <<>>
      BY <1>10 DEF NotifyNode
    <2>2. /\ n \in Items(notifier.nodes)
          /\ Items(Tail(notifier.nodes)) \subseteq Items(notifier.nodes)
          /\ Distinct(notifier.nodes) => Distinct(Tail(notifier.nodes))
      BY <1>6, <2>1, TailItems
    <2>3. n \in Nodes /\ heap[n] \in NodeType
      BY <1>5, <2>2, RecordedRange
    <2>4. x.leaf = heap[n].leaf
      BY <2>3 DEF NodeType
    <2> HIDE DEF n, x
    <2>5. /\ \A k \in Nodes : k # n => heap'[k] = heap[k]
          /\ heap'[n].leaf = heap[n].leaf
      BY <1>5, <2>1, <2>3, <2>4
    <2>6. /\ notifier'.nodes = Tail(notifier.nodes)
          /\ notifier'.leaves = notifier.leaves
          /\ notifier'.values = notifier.values
          /\ notifier'.subtrees = notifier.subtrees
          /\ notifier'.sealing = notifier.sealing
      BY <1>6, <2>1 DEF Lists
    <2>7. Records({}, {}, {})
      BY <2>2, <2>6 DEF Records
    <2>8. RecordedOnce'
      BY <1>6, <2>2, <2>6 DEF RecordedOnce
    <2>9. n \notin T
      BY <1>8, <2>2
    <2> QED BY <1>7, <1>9, <2>1, <2>5, <2>6, <2>7, <2>8, <2>9
  <1>11. CASE NotifyLeaf
    <2> DEFINE l == Head(notifier.leaves)
    <2>1. /\ notifier' = [notifier EXCEPT !.leaves = Tail(@)]
          /\ heap' = heap /\ leaves' = [leaves EXCEPT ![l] = "sealed"]
          /\ UNCHANGED NotifyRest /\ notifier.leaves # <<>>
      BY <1>11 DEF NotifyLeaf
    <2>2. /\ l \in Items(notifier.leaves)
          /\ Items(Tail(notifier.leaves)) \subseteq Items(notifier.leaves)
          /\ Distinct(notifier.leaves) => Distinct(Tail(notifier.leaves))
      BY <1>6, <2>1, TailItems
    <2> HIDE DEF l
    <2>3. /\ notifier'.nodes = notifier.nodes
          /\ notifier'.leaves = Tail(notifier.leaves)
          /\ notifier'.values = notifier.values
          /\ notifier'.subtrees = notifier.subtrees
          /\ notifier'.sealing = notifier.sealing
      BY <1>6, <2>1 DEF Lists
    <2>4. Records({}, {}, {})
      BY <2>2, <2>3 DEF Records
    <2>5. RecordedOnce'
      BY <1>6, <2>2, <2>3 DEF RecordedOnce
    <2>6. \A k \in T : heap[k].leaf # Nil => heap[k].leaf # l
      BY <1>8, <2>2
    <2>7. /\ \A k \in Nodes : k # Nil => heap'[k] = heap[k]
          /\ heap'[Nil].leaf = heap[Nil].leaf
      BY <2>1
    <2> QED BY <1>5, <1>7, <1>9, <2>1, <2>3, <2>4, <2>5, <2>6, <2>7
  <1>12. CASE NotifyValue
    <2> DEFINE n == Head(notifier.values)
               l == heap[n].leaf
    <2>1. /\ notifier' = [notifier EXCEPT !.values = Tail(@)]
          /\ heap' = sealValueHeap(heap, n)
          /\ leaves' = leaves \/ leaves' = [leaves EXCEPT ![l] = "sealed"]
          /\ UNCHANGED NotifyRest /\ notifier.values # <<>>
      BY <1>12 DEF NotifyValue, sealValueLeaves
    <2>2. /\ n \in Items(notifier.values)
          /\ Items(Tail(notifier.values)) \subseteq Items(notifier.values)
          /\ Distinct(notifier.values) => Distinct(Tail(notifier.values))
      BY <1>6, <2>1, TailItems
    <2>3. n \in Nodes
      BY <2>2, RecordedRange
    <2> HIDE DEF n
    <2>4. /\ \A k \in Nodes : k # n => heap'[k] = heap[k]
          /\ heap'[n].leaf = heap[n].leaf \/ heap'[n].leaf = sealedLeaf
      BY <1>5, <2>1, <2>3, SealEffect
    <2>5. /\ notifier'.nodes = notifier.nodes
          /\ notifier'.leaves = notifier.leaves
          /\ notifier'.values = Tail(notifier.values)
          /\ notifier'.subtrees = notifier.subtrees
          /\ notifier'.sealing = notifier.sealing
      BY <1>6, <2>1 DEF Lists
    <2>6. Records({}, {}, {})
      BY <2>2, <2>5 DEF Records
    <2>7. RecordedOnce'
      BY <1>6, <2>2, <2>5 DEF RecordedOnce
    <2>8. n \notin T /\ \A k \in T : heap[k].leaf # Nil => heap[k].leaf # l
      BY <1>8, <2>2
    <2> HIDE DEF l
    <2> QED BY <1>7, <1>9, <2>1, <2>4, <2>5, <2>6, <2>7, <2>8
  <1>13. CASE NotifySubtree
    <2> DEFINE n == Head(notifier.subtrees)
    <2>1. /\ notifier' = [notifier EXCEPT !.subtrees = Tail(@), !.sealing = {n}]
          /\ heap' = heap /\ leaves' = leaves
          /\ UNCHANGED NotifyRest /\ notifier.subtrees # <<>>
      BY <1>13 DEF NotifySubtree, mem
    <2>2. /\ n \in Items(notifier.subtrees)
          /\ Items(Tail(notifier.subtrees)) \subseteq Items(notifier.subtrees)
          /\ Distinct(notifier.subtrees) => Distinct(Tail(notifier.subtrees))
      BY <1>6, <2>1, TailItems
    <2> HIDE DEF n
    <2>3. /\ notifier'.nodes = notifier.nodes
          /\ notifier'.leaves = notifier.leaves
          /\ notifier'.values = notifier.values
          /\ notifier'.subtrees = Tail(notifier.subtrees)
          /\ notifier'.sealing = {n}
      BY <1>6, <2>1 DEF Lists
    <2>4. Records({}, {}, {})
      BY <2>3 DEF Records
    <2>5. RecordedOnce'
      BY <1>6, <2>2, <2>3 DEF RecordedOnce
    <2>6. Items(notifier'.subtrees) \subseteq D /\ notifier'.sealing \subseteq D
      BY <1>7, <2>2, <2>3
    <2>7. /\ \A k \in Nodes : k # Nil => heap'[k] = heap[k]
          /\ heap'[Nil].leaf = heap[Nil].leaf
          /\ \A k \in T : heap[k].leaf # Nil => heap[k].leaf # Nil
      BY <2>1
    <2> QED BY <1>5, <1>9, <2>1, <2>4, <2>5, <2>6, <2>7
  <1>14. CASE SealSubtree
    <2>1. PICK n \in notifier.sealing :
            LET h == [heap EXCEPT ![n].watch = "sealed"]
            IN  /\ IF heap[n].val # NoVal
                   THEN heap' = sealValueHeap(h, n) /\ leaves' = sealValueLeaves(n)
                   ELSE heap' = h /\ leaves' = leaves
                /\ notifier' = [notifier EXCEPT
                     !.sealing = (@ \ {n}) \cup {Kid(n, b) : b \in Labels(n)}]
      BY <1>14 DEF SealSubtree
    <2>4. n \in D /\ n \in 1..Len(heap) /\ heap[n] \in NodeType
      <3>1. n \in D
        BY <1>7
      <3>2. n \in 1..Len(heap)
        BY <1>5, <1>7, <3>1
      <3> QED BY <1>5, <3>1, <3>2
    <2> DEFINE x == [heap[n] EXCEPT !.watch = "sealed"]
               h == [heap EXCEPT ![n] = x]
               l == heap[n].leaf
               S == (notifier.sealing \ {n}) \cup {Kid(n, b) : b \in Labels(n)}
    <2>2. /\ heap' = h \/ heap' = sealValueHeap(h, n)
          /\ leaves' = leaves \/ leaves' = [leaves EXCEPT ![l] = "sealed"]
          /\ notifier' = [notifier EXCEPT !.sealing = S]
      BY <2>1 DEF sealValueLeaves
    <2>3. UNCHANGED NotifyRest
      BY <1>14 DEF SealSubtree
    <2>5. x \in NodeType /\ x.leaf = heap[n].leaf
      BY <2>4, "sealed" \in SlotState DEF NodeType, SlotState
    <2> HIDE DEF x
    <2>6. /\ h \in Seq(NodeType) /\ n \in 1..Len(h) /\ Len(h) = Len(heap)
          /\ \A k \in 1..Len(heap) : h[k] = IF k = n THEN x ELSE heap[k]
      BY <1>5, <2>4, <2>5
    <2>7. S \subseteq D
      <3>1. \A b \in Byte : heap[n].kids[b] # Nil => heap[n].kids[b] \in D
        BY <1>7, <2>4 DEF Closed, Plain
      <3> QED BY <1>7, <3>1 DEF Labels, Kid
    <2> HIDE DEF h, l, S
    <2>8. /\ \A k \in Nodes : k # n => heap'[k] = heap[k]
          /\ heap'[n].leaf = heap[n].leaf \/ heap'[n].leaf = sealedLeaf
      BY <1>5, <2>2, <2>4, <2>5, <2>6, SealEffect
    <2>9. /\ notifier'.nodes = notifier.nodes
          /\ notifier'.leaves = notifier.leaves
          /\ notifier'.values = notifier.values
          /\ notifier'.subtrees = notifier.subtrees
          /\ notifier'.sealing = S
      BY <1>6, <2>2 DEF Lists
    <2>10. Records({}, {}, {})
      BY <2>9 DEF Records
    <2>11. RecordedOnce'
      BY <1>6, <2>9 DEF RecordedOnce
    <2>12. n \notin T /\ \A k \in T : heap[k].leaf # Nil => heap[k].leaf # l
      BY <1>8, <2>4 DEF l
    <2> QED BY <1>7, <1>9, <2>2, <2>3, <2>7, <2>8, <2>9, <2>10, <2>11, <2>12
  <1>15. CASE NotifyDone
    <2>1. /\ heap' = heap /\ leaves' = leaves /\ notifier' = notifier
          /\ UNCHANGED <<txn, pub>>
      BY <1>15 DEF NotifyDone, mem
    <2>2. CurTree(T)' /\ MainTree(T)'
      BY <1>3, <1>4, <2>1 DEF CurTree, MainTree, MainOp, MainRoot, pub
    <2>3. Clean(T)' /\ Doomed(D)' /\ Apart(T, D)'
      BY <1>3, <2>1 DEF Clean, Doomed, Apart, Nodes
    <2>4. leaves'[sealedLeaf] = "sealed" /\ RecordedOnce'
      BY <2>1 DEF NInv, RecordedOnce, sealedLeaf
    <2> QED BY <2>2, <2>3, <2>4 DEF NInv
  <1> QED BY <1>10, <1>11, <1>12, <1>13, <1>14, <1>15 DEF Notify

-----------------------------------------------------------------------------
(* The invariant                                                            *)

\* A step of Main.
LEMMA MainStep ==
    ASSUME IInv, SInv, NInv, Next, Begin(Main) \/ Step(Main)
    PROVE  NInv'
  <1>1. CASE Begin(Main)
    <2>1. CASE \E root \in trees : Txn(Main, root)
      BY <2>1, PublishTurn
    <2>2. CASE Freeze(Main) \/ Commit(Main)
      BY <2>2, PublishTurn
    <2>3. CASE Abort(Main)
      BY <2>3, AbortTurn
    <2>4. ASSUME NEW k \in Key,
                 Insert(Main, k) \/ Delete(Main, k) \/ DeletePrefix(Main, k)
          PROVE  NInv'
      BY <2>4, StartTurn
    <2> QED BY <1>1, <2>1, <2>2, <2>3, <2>4 DEF Begin
  <1>2. CASE InsertStep(Main)
    <2>1. CASE InsertDown(Main)
      BY <2>1, LookTurn
    <2> QED BY <1>2, <2>1, InsertValueTurn, InsertOwnTurn, InsertHangTurn,
               InsertSplitCopyTurn, InsertSplitTurn DEF InsertStep
  <1>3. CASE DeleteStep(Main)
    <2>1. CASE \/ FindDown(Main) \/ FindMiss(Main) \/ FindHit(Main)
               \/ DeleteRoot(Main) \/ DeleteInner(Main)
      BY <2>1, LookTurn
    <2>2. CASE DeleteLeaf(Main) \/ DeleteSubtree(Main)
      BY <2>2, DeleteLeafTurn
    <2>3. CASE DeleteAll(Main)
      BY <2>3, DeleteAllTurn
    <2> QED BY <1>3, <2>1, <2>2, <2>3, OwnPathTurn, CutTurn, PullTurn, FoldTurn,
               ClearTurn DEF DeleteStep
  <1> QED BY <1>1, <1>2, <1>3 DEF Step

\* Nothing happens.
LEMMA QuietTurn ==
    ASSUME NInv, UNCHANGED vars
    PROVE  NInv'
  <1>1. /\ heap' = heap /\ leaves' = leaves /\ txn' = txn /\ op' = op
        /\ notifier' = notifier /\ current' = current
    BY DEF vars
  <1>2. PICK T, D : MainTree(T) /\ Doomed(D) /\ Clean(T) /\ Apart(T, D)
    BY DEF NInv
  <1>3. PICK C : CurTree(C) /\ Clean(C)
    BY DEF NInv
  <1>4. MainTree(T)' /\ CurTree(C)'
    BY <1>1, <1>2, <1>3 DEF MainTree, CurTree, MainOp, MainRoot
  <1>5. Doomed(D)' /\ Clean(T)' /\ Apart(T, D)' /\ Clean(C)'
    BY <1>1, <1>2, <1>3 DEF Doomed, Clean, Apart, Nodes
  <1>6. leaves'[sealedLeaf] = "sealed" /\ RecordedOnce'
    BY <1>1 DEF NInv, RecordedOnce
  <1> QED BY <1>4, <1>5, <1>6 DEF NInv

\* A step of anybody.
LEMMA NextNInv ==
    ASSUME IInv, SInv, NInv, [Next]_vars
    PROVE  NInv'
  <1>1. CASE Next
    <2>1. ASSUME NEW w \in Writer, Begin(w) \/ Step(w)
          PROVE  NInv'
      BY <1>1, <2>1, MainStep, OtherBegin, OtherStep
    <2>2. CASE Notify
      BY <1>1, <2>2, NotifyTurn
    <2>3. ASSUME NEW r \in Reader,
                 \/ \E kind \in {"key", "prefix"}, t \in trees, k \in Key :
                       ReadStart(r, kind, t, k)
                 \/ Read(r)
          PROVE  NInv'
      BY <1>1, <2>3, ReadTurn
    <2>4. CASE Quiet
      BY <2>4, QuietTurn DEF Quiet
    <2> QED BY <1>1, <2>1, <2>2, <2>3, <2>4 DEF Next
  <1>2. CASE UNCHANGED vars
    BY <1>2, QuietTurn
  <1> QED BY <1>1, <1>2

\* Nothing is sealed, and nothing recorded, to begin with.
LEMMA InitNInv ==
    ASSUME Init
    PROVE  NInv
  <1>1. IInv /\ SInv
    BY InitIInv, InitSInv
  <1>2. /\ heap = InitHeap /\ leaves = <<"sealed">> /\ notifier = NoNotifier
        /\ trees = {1} /\ current = 1 /\ txn[Main].root = Nil
    BY MainAssumption DEF Init, NoTxn
  <1>3. PICK T, d : Live(heap, IdleOp, 1, T, d)
    BY <1>1, <1>2 DEF SInv, LiveTree
  <1>4. T \subseteq 1..Len(InitHeap)
    BY <1>1, <1>2, <1>3, PubNodes DEF Nodes
  <1>5. CurTree(T) /\ MainTree(T)
    BY <1>2, <1>3 DEF CurTree, MainTree, MainOp, MainRoot
  <1>6. Clean(T)
    <2>1. \A n \in T : heap[n].leaf = Nil /\ heap[n].watch = "nil"
      BY <1>2, <1>4, InitHeapAssumption
    <2> QED BY <2>1 DEF Clean
  <1>7. /\ Items(notifier.nodes) = {} /\ Items(notifier.values) = {}
        /\ Items(notifier.leaves) = {} /\ Items(notifier.subtrees) = {}
        /\ notifier.sealing = {} /\ RecordedOnce
    BY <1>2 DEF NoNotifier, Items, RecordedOnce, Distinct
  <1>8. Doomed({}) /\ Apart(T, {})
    BY <1>7 DEF Doomed, Closed, Apart
  <1>9. leaves[sealedLeaf] = "sealed"
    BY <1>2 DEF sealedLeaf
  <1> QED BY <1>5, <1>6, <1>7, <1>8, <1>9 DEF NInv

\* What the Notifier has recorded is apart from the tree that Main writes on,
\* in the middle of calls and of transactions that are aborted too, and no slot
\* of that tree or of the published one is sealed.
THEOREM NotifyInvariance == Spec => [](IInv /\ SInv /\ NInv)
  <1>1. Init => IInv /\ SInv /\ NInv
    BY InitIInv, InitSInv, InitNInv
  <1>2. IInv /\ SInv /\ NInv /\ [Next]_vars => (IInv /\ SInv /\ NInv)'
    BY NextStep, NextSInv, NextNInv
  <1> QED BY <1>1, <1>2, PTL DEF Spec

\* The nodes that Reach walks to are those of the tree.
LEMMA ReachIsTree ==
    ASSUME IInv, NEW t \in trees, NEW T, NEW d, Live(heap, IdleOp, t, T, d)
    PROVE  Reach(t) = T
  <1>1. T \subseteq Nodes
    BY PubNodes
  <1>2. IsTree(T, Plain(heap), t, d)
    BY IdleType, PlainEdges DEF Live, RadixTree, Cutting, Plain
  <1>3. heap \in Seq(NodeType) /\ KidsInHeap
    <2>1. \A m \in Nodes, b \in Byte : heap[m].kids[b] \in Ref
      BY MainAssumption, Facts
    <2> QED BY <2>1, MainAssumption, Facts DEF KidsInHeap, Labels, Kid
  <1>4. \A k \in T : Plain(heap)[k] = heap[k].kids
    BY <1>1 DEF Plain, Nodes
  <1> QED BY <1>1, <1>2, <1>3, <1>4, ReachOfTree

\* No watcher is woken for a node or a value that is still in the published
\* tree: Notify, sealSubtree and sealedLeaf seal what has left it.
THEOREM OnlyLeftIsSealed == Spec => []SealedHasLeft
  <1>1. ASSUME IInv, NInv
        PROVE  SealedHasLeft
    <2>1. PICK C : CurTree(C) /\ Clean(C)
      BY <1>1 DEF NInv
    <2>2. PICK d : Live(heap, IdleOp, current, C, d)
      BY <2>1 DEF CurTree
    <2>3. current \in trees
      BY <1>1 DEF IInv, TypeOK, PubOK
    <2>4. Reach(current) = C
      BY <1>1, <2>2, <2>3, ReachIsTree
    <2> QED BY <2>1, <2>4 DEF SealedHasLeft, Clean
  <1> QED BY <1>1, NotifyInvariance, PTL

\* The Notifier's lists hold an object at most once: a node that is replaced,
\* released or dropped with its subtree is recorded by the call that does it.
THEOREM RecordsOnce == Spec => []RecordedOnce
  <1>1. NInv => RecordedOnce
    BY DEF NInv
  <1> QED BY <1>1, NotifyInvariance, PTL
=============================================================================
