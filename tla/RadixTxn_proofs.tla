--------------------------- MODULE RadixTxn_proofs ---------------------------
(***************************************************************************)
(* The ownership discipline of the write path holds for any keys, writers, *)
(* readers, size classes and initial tree.                                 *)
(***************************************************************************)
EXTENDS RadixInv, TLAPS, SequenceTheorems, FiniteSetTheorems

-----------------------------------------------------------------------------
(* Nodes and the updates of them that actions are made of *)

\* A new node is a node.
LEMMA NewNodeType ==
    ASSUME NEW e \in Nat
    PROVE  /\ EmptyNode(e) \in NodeType
           /\ EmptyNode(e).kids = NoKids
  BY DEF EmptyNode, NodeType, NoKids, NoVal, Nil, SlotState

\* newNode's size classes are numbers.
LEMMA ClassType ==
    ASSUME NEW k \in 0..(2 * Cardinality(Byte) + 1)
    PROVE  Class(k) \in Nat
  <1>0. Cardinality(Byte) \in Nat
    BY ByteAssumption, FS_CardinalityType
  <1>1. CASE k = 0
    BY <1>1 DEF Class
  <1>2. CASE k # 0
    <2>1. PICK c \in Classes : IsClass(c, k)
      BY <1>0, <1>2, ClassesAssumption
    <2>2. (CHOOSE d \in Classes : IsClass(d, k)) \in Classes
      BY <2>1
    <2> QED BY <1>2, <2>2, ClassesAssumption DEF Class
  <1> QED BY <1>1, <1>2

\* A node has finitely many children, so kidCount is a number.
LEMMA KidCountType ==
    ASSUME NEW n
    PROVE  KidCount(n) \in 0..Cardinality(Byte)
  <1>1. Labels(n) \in SUBSET Byte
    BY DEF Labels
  <1>2. IsFiniteSet(Labels(n)) /\ Cardinality(Labels(n)) <= Cardinality(Byte)
    BY <1>1, ByteAssumption, FS_Subset
  <1>3. Cardinality(Labels(n)) \in Nat /\ Cardinality(Byte) \in Nat
    BY <1>2, ByteAssumption, FS_CardinalityType
  <1> QED BY <1>2, <1>3 DEF KidCount

\* What link does to a heap: one child pointer of one node.
LEMMA LinkType ==
    ASSUME NEW h \in Seq(NodeType), NEW p \in 0..Len(h), NEW l, NEW c \in Nat
    PROVE  /\ link(h, p, l, c) \in Seq(NodeType)
           /\ Len(link(h, p, l, c)) = Len(h)
           /\ \A i \in 1..Len(h) :
                link(h, p, l, c)[i].val = h[i].val
  <1>1. CASE p = Nil
    BY <1>1 DEF link, Nil
  <1>2. CASE p # Nil
    <2> DEFINE x == [h[p] EXCEPT !.kids = [h[p].kids EXCEPT ![l] = c]]
    <2>1. p \in 1..Len(h) /\ h[p] \in NodeType
      BY <1>2 DEF Nil
    <2>2. x \in NodeType
      BY <2>1 DEF NodeType
    <2>3. link(h, p, l, c) = [h EXCEPT ![p] = x]
      BY <1>2 DEF link
    <2>4. x.val = h[p].val
      BY <2>1 DEF NodeType
    <2> HIDE DEF x
    <2> QED BY <2>1, <2>2, <2>3, <2>4, ExceptSeq
  <1> QED BY <1>1, <1>2

-----------------------------------------------------------------------------
(* A step of writer w, as far as memory is concerned: how the heap g it      *)
(* builds relates to the heap it started from.                               *)

\* A node of w's epoch leads only to nodes w may see, and its value has a leaf
\* exactly when the value is older than the epoch.
Private(w, x) ==
    /\ \A b \in Byte : x.kids[b] \in Nodes => Visible(w, x.kids[b])
    /\ x.val # NoVal /\ x.lob = 0 => x.leaf # Nil
    /\ x.lob = 1 => x.leaf = Nil

\* Pointers of x stay below the given numbers of nodes and leaves.
Within(x, top, ll) == x.leaf <= ll /\ \A b \in Byte : x.kids[b] <= top

\* What may become of node n of the old heap.
Kept(w, n, x) ==
    /\ x.epoch = heap[n].epoch /\ x.watch = heap[n].watch
    /\ ~Mine(w, n) =>
          /\ SameBody(heap[n], x)
          /\ heap[n].leaf # Nil \/ ~Frozen(n) => x.leaf = heap[n].leaf

Built(w, g, top, ll) ==
    /\ g \in Seq(NodeType) /\ Len(heap) <= Len(g)
    /\ \A n \in 1..Len(g) :
          /\ Within(g[n], top, ll)
          /\ g[n].epoch = txn[w].epoch => Private(w, g[n])
          /\ n \in Nodes => Kept(w, n, g[n])
          /\ n \notin Nodes => g[n].epoch = txn[w].epoch /\ g[n].watch = "nil"

\* Doing nothing builds the heap from itself.
LEMMA BuiltBase ==
    ASSUME IInv, NEW w \in Writer, txn[w].epoch # 0,
           NEW top \in Nat, NEW ll \in Nat,
           Len(heap) <= top, Len(leaves) <= ll
    PROVE  Built(w, heap, top, ll)
  <1>1. HeapOK /\ TxnOK /\ OwnedBelowOwned /\ LeafOnCopies /\ Epochs
    BY DEF IInv, TypeOK, Ownership
  <1>2. ASSUME NEW n \in Nodes
        PROVE  /\ Within(heap[n], top, ll)
               /\ Kept(w, n, heap[n])
    <2>1. Kept(w, n, heap[n])
      BY DEF Kept, SameBody
    <2>2. heap[n].leaf <= Len(leaves) /\ heap[n] \in NodeType
      BY <1>1, <1>2 DEF HeapOK, Nodes
    <2>3. \A b \in Byte : heap[n].kids[b] \in 0..Len(heap)
      BY <1>1, <1>2 DEF HeapOK, Ref
    <2>4. Len(leaves) \in Nat /\ Len(heap) \in Nat
      BY <1>1 DEF HeapOK
    <2>5. heap[n].leaf \in Nat
      BY <2>2 DEF NodeType
    <2> QED BY <2>1, <2>2, <2>3, <2>4, <2>5 DEF Within
  <1>3. ASSUME NEW n \in Nodes, heap[n].epoch = txn[w].epoch
        PROVE  Private(w, heap[n])
    <2>1. Mine(w, n)
      BY <1>3 DEF Mine
    <2>2. ASSUME NEW b \in Byte, heap[n].kids[b] \in Nodes
          PROVE  Visible(w, heap[n].kids[b])
      <3>1. SUFFICES ASSUME NEW v \in Writer \ {w}, Mine(v, heap[n].kids[b])
                     PROVE  FALSE
        BY DEF Visible
      <3>2. heap[n].kids[b] # Nil
        BY <1>1, <2>2 DEF Nodes, Nil, HeapOK
      <3>3. Mine(v, n)
        BY <1>1, <3>1, <3>2 DEF OwnedBelowOwned
      <3> QED BY <1>1, <2>1, <3>3 DEF Epochs, Mine
    <2> QED BY <1>1, <2>1, <2>2 DEF Private, LeafOnCopies
  <1> QED BY <1>1, <1>2, <1>3 DEF Built, HeapOK, Nodes

\* Writing to a node of w's epoch.
LEMMA BuiltReplace ==
    ASSUME NEW w \in Writer, NEW top \in Nat, NEW ll \in Nat, NEW g, NEW n,
           NEW x \in NodeType,
           heap \in Seq(NodeType), txn[w].epoch # 0,
           Built(w, g, top, ll), n \in 1..Len(g), g[n].epoch = txn[w].epoch,
           x.epoch = g[n].epoch, x.watch = g[n].watch,
           Within(x, top, ll), Private(w, x)
    PROVE  Built(w, [g EXCEPT ![n] = x], top, ll)
  <1> DEFINE f == [g EXCEPT ![n] = x]
  <1>1. g \in Seq(NodeType) /\ Len(heap) <= Len(g)
    BY DEF Built
  <1>2. /\ f \in Seq(NodeType) /\ Len(f) = Len(g)
        /\ \A j \in 1..Len(g) : f[j] = IF j = n THEN x ELSE g[j]
    BY <1>1, ExceptSeq
  <1>3. n \in Nodes => Kept(w, n, x)
    <2>1. SUFFICES ASSUME n \in Nodes PROVE Kept(w, n, x)
      OBVIOUS
    <2>2. Kept(w, n, g[n])
      BY <2>1 DEF Built
    <2>3. Mine(w, n)
      BY <2>2 DEF Kept, Mine
    <2> QED BY <2>2, <2>3 DEF Kept
  <1> HIDE DEF f
  <1>4. Built(w, f, top, ll)
    BY <1>1, <1>2, <1>3 DEF Built
  <1> QED BY <1>4 DEF f

\* Allocating a node.
LEMMA BuiltAppend ==
    ASSUME NEW w \in Writer, NEW top \in Nat, NEW ll \in Nat, NEW g,
           NEW x \in NodeType, heap \in Seq(NodeType),
           Built(w, g, top, ll), x.epoch = txn[w].epoch, x.watch = "nil",
           Within(x, top, ll), Private(w, x)
    PROVE  Built(w, Append(g, x), top, ll)
  <1> DEFINE f == Append(g, x)
  <1>1. g \in Seq(NodeType) /\ Len(heap) <= Len(g) /\ Len(g) \in Nat
        /\ Len(heap) \in Nat
    BY DEF Built
  <1>2. /\ f \in Seq(NodeType) /\ Len(f) = Len(g) + 1
        /\ \A j \in 1..Len(g) : f[j] = g[j]
        /\ f[Len(g) + 1] = x
    BY <1>1, AppendProperties
  <1> HIDE DEF f
  <1>3. ASSUME NEW n \in 1..Len(f)
        PROVE  /\ Within(f[n], top, ll)
               /\ f[n].epoch = txn[w].epoch => Private(w, f[n])
               /\ n \in Nodes => Kept(w, n, f[n])
               /\ n \notin Nodes =>
                     f[n].epoch = txn[w].epoch /\ f[n].watch = "nil"
    <2>1. CASE n \in 1..Len(g)
      BY <1>2, <2>1 DEF Built
    <2>2. CASE n = Len(g) + 1
      <3>1. n \notin Nodes
        BY <1>1, <2>2 DEF Nodes
      <3> QED BY <1>2, <2>2, <3>1
    <2> QED BY <1>1, <1>2, <2>1, <2>2
  <1>4. Built(w, f, top, ll)
    BY <1>1, <1>2, <1>3 DEF Built
  <1> QED BY <1>4 DEF f

\* link, and every other store to one child pointer.
LEMMA BuiltLink ==
    ASSUME NEW w \in Writer, NEW top \in Nat, NEW ll \in Nat, NEW g,
           NEW p \in 0..Len(g), NEW l, NEW c \in 0..top,
           heap \in Seq(NodeType), txn[w].epoch # 0,
           Built(w, g, top, ll), p # Nil => g[p].epoch = txn[w].epoch,
           c \in Nodes => Visible(w, c)
    PROVE  Built(w, link(g, p, l, c), top, ll)
  <1>1. CASE p = Nil
    BY <1>1 DEF link
  <1>2. CASE p # Nil
    <2> DEFINE x == [g[p] EXCEPT !.kids = [g[p].kids EXCEPT ![l] = c]]
    <2>1. g \in Seq(NodeType) /\ p \in 1..Len(g)
      BY <1>2 DEF Built, Nil
    <2>2. g[p] \in NodeType
      BY <2>1
    <2>3. Within(g[p], top, ll) /\ Private(w, g[p])
      BY <1>2, <2>1 DEF Built
    <2>4. x \in NodeType /\ x.epoch = g[p].epoch /\ x.watch = g[p].watch
          /\ x.leaf = g[p].leaf /\ x.val = g[p].val /\ x.lob = g[p].lob
          /\ \A b \in Byte : x.kids[b] = g[p].kids[b] \/ x.kids[b] = c
      <3>1. c \in Nat
        OBVIOUS
      <3>2. x \in NodeType
        BY <2>2, <3>1 DEF NodeType
      <3> QED BY <2>2, <3>1, <3>2 DEF NodeType
    <2>5. link(g, p, l, c) = [g EXCEPT ![p] = x]
      BY <1>2 DEF link
    <2> HIDE DEF x
    <2>6. Within(x, top, ll)
      BY <2>3, <2>4 DEF Within
    <2>7. Private(w, x)
      BY <2>3, <2>4 DEF Private
    <2>8. x \in NodeType /\ g[p].epoch = txn[w].epoch
          /\ x.epoch = g[p].epoch /\ x.watch = g[p].watch
      BY <1>2, <2>4
    <2>9. Built(w, [g EXCEPT ![p] = x], top, ll)
      BY <2>1, <2>6, <2>7, <2>8, BuiltReplace
    <2> QED BY <2>5, <2>9
  <1> QED BY <1>1, <1>2

\* A node that w sees and does not own is frozen.
LEMMA NotOwnedIsFrozen ==
    ASSUME NEW w \in Writer, NEW n, Visible(w, n), ~Owns(w, n)
    PROVE  Frozen(n)
  BY DEF Visible, Frozen, Owns, Mine

\* leafOf on a published node.
LEMMA BuiltWithLeaf ==
    ASSUME IInv, NEW w \in Writer, txn[w].epoch # 0, NEW top \in Nat,
           NEW n \in Nodes, Visible(w, n), Len(heap) <= top, MakeLeaf(w, n)
    PROVE  /\ Built(w, WithLeaf(w, n), top, Len(leaves'))
           /\ Len(WithLeaf(w, n)) = Len(heap)
           /\ \A i \in Nodes : /\ WithLeaf(w, n)[i].val = heap[i].val
                               /\ WithLeaf(w, n)[i].kids = heap[i].kids
                               /\ WithLeaf(w, n)[i].epoch = heap[i].epoch
           /\ leaves' \in Seq(SlotState) /\ Len(leaves') \in Nat
           /\ Len(leaves') >= Len(leaves)
           /\ shareLeaf(w, n) \in 0..Len(leaves')
  <1>1. HeapOK
    BY DEF IInv, TypeOK
  <1>2. heap \in Seq(NodeType) /\ heap[n] \in NodeType /\ n \in 1..Len(heap)
        /\ leaves \in Seq(SlotState) /\ Len(leaves) \in Nat
        /\ heap[n].leaf \in 0..Len(leaves)
    <2>1. heap \in Seq(NodeType) /\ n \in 1..Len(heap)
          /\ leaves \in Seq(SlotState) /\ heap[n].leaf <= Len(leaves)
      BY <1>1 DEF HeapOK, Nodes
    <2>2. heap[n] \in NodeType
      BY <2>1
    <2>3. heap[n].leaf \in Nat
      BY <2>2 DEF NodeType
    <2> QED BY <2>1, <2>2, <2>3
  <1>3. CASE ~NeedsLeaf(w, n)
    <2>1. leaves' = leaves /\ WithLeaf(w, n) = heap
      BY <1>3 DEF MakeLeaf, WithLeaf
    <2>2. shareLeaf(w, n) \in 0..Len(leaves)
      BY <1>2, <1>3 DEF shareLeaf, Nil
    <2> QED BY <1>2, <2>1, <2>2, BuiltBase
  <1>4. CASE NeedsLeaf(w, n)
    <2> DEFINE x == [heap[n] EXCEPT !.leaf = Len(leaves) + 1]
    <2>1. "nil" \in SlotState
      BY DEF SlotState
    <2>2. leaves' = Append(leaves, "nil") /\ leaves' \in Seq(SlotState)
          /\ Len(leaves') = Len(leaves) + 1
      BY <1>2, <1>4, <2>1, AppendProperties DEF MakeLeaf
    <2>3. WithLeaf(w, n) = [heap EXCEPT ![n] = x]
      BY <1>4 DEF WithLeaf
    <2>4. x \in NodeType /\ SameBody(heap[n], x) /\ x.watch = heap[n].watch
          /\ x.leaf = Len(leaves) + 1
      <3>1. Len(leaves) + 1 \in Nat
        BY <1>2
      <3>2. x \in NodeType
        BY <1>2, <3>1 DEF NodeType
      <3> QED BY <1>2, <3>2 DEF NodeType, SameBody
    <2>5. shareLeaf(w, n) = Len(leaves) + 1
      BY <1>4 DEF shareLeaf, NeedsLeaf
    <2>6. Frozen(n) /\ heap[n].leaf = Nil /\ heap[n].epoch # txn[w].epoch
      BY <1>4, NotOwnedIsFrozen DEF NeedsLeaf, Owns
    <2> HIDE DEF x
    <2>7. /\ WithLeaf(w, n) \in Seq(NodeType)
          /\ Len(WithLeaf(w, n)) = Len(heap)
          /\ \A j \in 1..Len(heap) :
                WithLeaf(w, n)[j] = IF j = n THEN x ELSE heap[j]
      BY <1>2, <2>3, <2>4, ExceptSeq
    <2>8. Built(w, heap, top, Len(leaves) + 1)
      BY <1>2, BuiltBase
    <2>9. Within(x, top, Len(leaves) + 1) /\ Kept(w, n, x)
          /\ x.epoch # txn[w].epoch
      <3>1. Within(heap[n], top, Len(leaves) + 1)
        BY <1>2, <2>8 DEF Built
      <3>2. Within(x, top, Len(leaves) + 1)
        BY <1>2, <2>4, <3>1 DEF Within, SameBody
      <3> QED BY <2>4, <2>6, <3>2 DEF Kept, SameBody
    <2>10. Built(w, WithLeaf(w, n), top, Len(leaves) + 1)
      <3> DEFINE g == WithLeaf(w, n)
      <3>1. ASSUME NEW j \in 1..Len(g)
            PROVE  /\ Within(g[j], top, Len(leaves) + 1)
                   /\ g[j].epoch = txn[w].epoch => Private(w, g[j])
                   /\ j \in Nodes => Kept(w, j, g[j])
                   /\ j \notin Nodes =>
                         g[j].epoch = txn[w].epoch /\ g[j].watch = "nil"
        BY <2>7, <2>8, <2>9 DEF Built, Nodes
      <3> QED BY <1>2, <2>7, <3>1 DEF Built
    <2>11. ASSUME NEW i \in Nodes
           PROVE  /\ WithLeaf(w, n)[i].val = heap[i].val
                  /\ WithLeaf(w, n)[i].kids = heap[i].kids
                  /\ WithLeaf(w, n)[i].epoch = heap[i].epoch
      <3>1. WithLeaf(w, n)[i] = IF i = n THEN x ELSE heap[i]
        BY <2>7 DEF Nodes
      <3> QED BY <2>4, <3>1 DEF SameBody
    <2>12. Len(leaves') \in Nat /\ Len(leaves') >= Len(leaves)
           /\ shareLeaf(w, n) \in 0..Len(leaves')
      BY <1>2, <2>2, <2>5
    <2>13. Built(w, WithLeaf(w, n), top, Len(leaves'))
      BY <2>2, <2>10
    <2> QED BY <2>2, <2>7, <2>11, <2>12, <2>13
  <1> QED BY <1>3, <1>4

-----------------------------------------------------------------------------
(* What such a step preserves *)

\* The step built heap' in this way, and took no epoch from anybody.
Frame(w) ==
    /\ Built(w, heap', Len(heap'), Len(leaves'))
    /\ leaves' \in Seq(SlotState) /\ Len(leaves) <= Len(leaves')
    /\ txn' \in [Writer -> [root : 0..Len(heap'), epoch : Nat]]
    /\ \A v \in Writer : /\ txn'[v].epoch = txn[v].epoch
                         /\ v # w => txn'[v].root = txn[v].root
    /\ \/ txn'[w].root = txn[w].root
       \/ txn'[w].root \in 1..Len(heap') /\ txn'[w].root \notin Nodes
    /\ epochCounter' = epochCounter

\* Ownership of a node that exists is not affected by it.
LEMMA FrameStable ==
    ASSUME IInv, NEW w \in Writer, Frame(w), NEW n \in Nodes
    PROVE  /\ n \in Nodes' /\ heap'[n].epoch = heap[n].epoch
           /\ \A v \in Writer : Mine(v, n)' <=> Mine(v, n)
           /\ Frozen(n)' <=> Frozen(n)
           /\ \A v \in Writer : Visible(v, n)' <=> Visible(v, n)
  <1>1. heap \in Seq(NodeType) /\ heap' \in Seq(NodeType)
        /\ Len(heap) <= Len(heap')
    BY DEF IInv, TypeOK, HeapOK, Frame, Built
  <1>2. n \in 1..Len(heap')
    BY <1>1 DEF Nodes
  <1>3. heap'[n].epoch = heap[n].epoch
    BY <1>2 DEF Frame, Built, Kept
  <1>4. \A v \in Writer : Mine(v, n)' <=> Mine(v, n)
    BY <1>3 DEF Frame, Mine
  <1>5. Frozen(n)' <=> Frozen(n)
    BY <1>4 DEF Frozen
  <1>6. \A v \in Writer : Visible(v, n)' <=> Visible(v, n)
    BY <1>4 DEF Visible
  <1> QED BY <1>2, <1>3, <1>4, <1>5, <1>6 DEF Nodes

\* The part of the invariant that speaks of nodes only.
LEMMA FrameInv ==
    ASSUME IInv, NEW w \in Writer, txn[w].epoch # 0, Frame(w),
           UNCHANGED <<trees, rd>>
    PROVE  HeapOK' /\ Epochs' /\ OwnedBelowOwned' /\ SharedIsFrozen'
           /\ WatchedIsFrozen' /\ LeafOnCopies' /\ FrozenStays
  <1>1. HeapOK /\ TxnOK /\ PubOK /\ RdOK /\ Epochs /\ OwnedBelowOwned
        /\ SharedIsFrozen /\ WatchedIsFrozen /\ LeafOnCopies
    BY DEF IInv, TypeOK, Ownership
  <1>2. heap \in Seq(NodeType) /\ heap' \in Seq(NodeType)
        /\ Len(heap) <= Len(heap') /\ Len(heap) \in Nat /\ Len(heap') \in Nat
    BY <1>1 DEF HeapOK, Frame, Built
  <1>3. HeapOK'
    <2>1. ASSUME NEW n \in 1..Len(heap')
          PROVE  /\ heap'[n].leaf <= Len(leaves')
                 /\ \A b \in Byte : heap'[n].kids[b] \in 0..Len(heap')
      <3>1. Within(heap'[n], Len(heap'), Len(leaves')) /\ heap'[n] \in NodeType
        BY <1>2 DEF Frame, Built
      <3>2. \A b \in Byte : heap'[n].kids[b] \in Nat
        BY <3>1 DEF NodeType
      <3> QED BY <1>2, <3>1, <3>2 DEF Within
    <2>2. leaves' \in Seq(SlotState) /\ Len(leaves') > 0
      BY <1>1 DEF Frame, HeapOK
    <2> QED BY <1>2, <2>1, <2>2 DEF HeapOK, Nodes, Ref
  <1>4. ASSUME NEW n \in Nodes', n \notin Nodes
        PROVE  heap'[n].epoch = txn[w].epoch /\ heap'[n].watch = "nil"
               /\ Mine(w, n)' /\ \A v \in Writer \ {w} : ~Mine(v, n)'
    <2>1. heap'[n].epoch = txn[w].epoch /\ heap'[n].watch = "nil"
      BY <1>4 DEF Frame, Built, Nodes
    <2> QED BY <1>1, <2>1 DEF Frame, Mine, Epochs
  <1>5. Epochs'
    <2>1. ASSUME NEW n \in Nodes' PROVE heap'[n].epoch <= epochCounter'
      <3>1. CASE n \in Nodes
        BY <1>1, <3>1, FrameStable DEF Epochs, Frame
      <3>2. CASE n \notin Nodes
        BY <1>1, <1>4, <3>2 DEF Epochs, Frame
      <3> QED BY <3>1, <3>2
    <2> QED BY <1>1, <2>1 DEF Epochs, Frame
  <1>6. OwnedBelowOwned'
    <2>1. SUFFICES ASSUME NEW n \in Nodes', NEW b \in Byte, NEW v \in Writer,
                          NEW k, k = heap'[n].kids[b], k # Nil, Mine(v, k)'
                   PROVE  Mine(v, n)'
      BY DEF OwnedBelowOwned, Mine
    <2>2. k \in Nodes'
      BY <1>2, <1>3, <2>1 DEF HeapOK, Nodes, Ref, Nil
    <2>3. CASE heap'[n].epoch = txn[w].epoch
      <3>1. Private(w, heap'[n])
        BY <2>3 DEF Frame, Built, Nodes
      <3>2. Mine(w, n)'
        BY <2>3 DEF Mine, Frame
      <3>3. CASE k \in Nodes
        <4>1. Visible(w, k)'
          BY <2>1, <3>1, <3>3, FrameStable DEF Private
        <4> QED BY <2>1, <3>2, <4>1 DEF Visible
      <3>4. CASE k \notin Nodes
        BY <1>4, <2>1, <2>2, <3>2, <3>4
      <3> QED BY <3>3, <3>4
    <2>4. CASE heap'[n].epoch # txn[w].epoch
      <3>1. n \in Nodes /\ ~Mine(w, n)
        BY <1>4, <2>4, FrameStable DEF Mine
      <3>2. k = heap[n].kids[b]
        BY <2>1, <3>1 DEF Frame, Built, Kept, SameBody, Nodes
      <3>3. k \in Nodes
        BY <1>1, <2>1, <3>1, <3>2 DEF HeapOK, Nodes, Ref, Nil
      <3>4. Mine(v, n)
        BY <1>1, <2>1, <3>1, <3>2, <3>3, FrameStable DEF OwnedBelowOwned
      <3> QED BY <3>1, <3>4, FrameStable
    <2> QED BY <2>3, <2>4
  <1>7. SharedIsFrozen'
    BY <1>1, FrameStable DEF SharedIsFrozen, PubOK, RdOK, RdType, Nodes, Ref,
                             Nil
  <1>8. WatchedIsFrozen'
    <2>1. SUFFICES ASSUME NEW n \in Nodes', heap'[n].watch # "nil"
                   PROVE  Frozen(n)'
      BY DEF WatchedIsFrozen
    <2>2. n \in Nodes /\ heap[n].watch # "nil"
      BY <1>4, <2>1 DEF Frame, Built, Kept, Nodes
    <2> QED BY <1>1, <2>2, FrameStable DEF WatchedIsFrozen
  <1>9. LeafOnCopies'
    <2>1. SUFFICES ASSUME NEW n \in Nodes', NEW v \in Writer, Mine(v, n)'
                   PROVE  /\ heap'[n].val # NoVal /\ heap'[n].lob = 0
                                => heap'[n].leaf # Nil
                          /\ heap'[n].lob = 1 => heap'[n].leaf = Nil
      BY DEF LeafOnCopies
    <2>2. CASE v = w
      <3>1. heap'[n].epoch = txn[w].epoch
        BY <2>1, <2>2 DEF Mine, Frame
      <3> QED BY <3>1 DEF Frame, Built, Private, Nodes
    <2>3. CASE v # w
      <3>1. n \in Nodes /\ Mine(v, n)
        BY <1>4, <2>1, <2>3, FrameStable
      <3>2. ~Mine(w, n) /\ ~Frozen(n)
        BY <1>1, <2>3, <3>1 DEF Mine, Frozen, Epochs
      <3>3. SameBody(heap[n], heap'[n]) /\ heap'[n].leaf = heap[n].leaf
        BY <2>1, <3>1, <3>2 DEF Frame, Built, Kept, Nodes
      <3> QED BY <1>1, <3>1, <3>3 DEF LeafOnCopies, SameBody
    <2> QED BY <2>2, <2>3
  <1>10. FrozenStays
    <2>1. SUFFICES ASSUME NEW n \in Nodes, Frozen(n)
                   PROVE  /\ n \in Nodes' /\ SameBody(heap[n], heap'[n])
                          /\ heap[n].leaf # Nil => heap'[n].leaf = heap[n].leaf
                          /\ heap'[n].watch = heap[n].watch
                          /\ Frozen(n)'
      BY DEF FrozenStays, Nodes, Frozen, Mine
    <2>2. ~Mine(w, n)
      BY <2>1 DEF Frozen
    <2> QED BY <2>1, <2>2, FrameStable DEF Frame, Built, Kept, Nodes
  <1> QED BY <1>3, <1>5, <1>6, <1>7, <1>8, <1>9, <1>10

\* The calls that other writers are in.
LEMMA FrameOthers ==
    ASSUME IInv, NEW w \in Writer, Frame(w), NEW v \in Writer, v # w,
           op'[v] = op[v]
    PROVE  CallAt(v)' /\ CallVisible(v)' /\ CallOwns(v)'
  <1>1. HeapOK /\ TxnOK /\ OpOK /\ CallAt(v) /\ CallVisible(v) /\ CallOwns(v)
    BY DEF IInv, TypeOK, Ownership, Calls, CallsVisible, CallsOwn
  <1>2. txn'[v].root = txn[v].root /\ txn'[v].epoch = txn[v].epoch
    BY DEF Frame
  <1>3. /\ txn[v].root \in Ref /\ op[v].n \in Ref /\ op[v].m \in Ref
        /\ op[v].parent \in Ref /\ op[v] \in OpType
        /\ \A i \in 1..Len(op[v].path) : op[v].path[i].n \in Nodes
    BY <1>1 DEF TxnOK, OpOK
  <1>4. \A n \in Ref : n # Nil => n \in Nodes
    BY <1>1 DEF Ref, Nodes, Nil, HeapOK
  <1>5. CallVisible(v)'
    BY <1>1, <1>2, <1>3, <1>4, FrameStable DEF CallVisible
  <1>6. CallOwns(v)'
    <2>1. op[v].parent # Nil => Mine(v, op[v].parent)'
      BY <1>1, <1>3, <1>4, FrameStable DEF CallOwns
    <2>2. ASSUME op[v].pc \in {"hang", "down", "split", "fork"}
          PROVE  Mine(v, op[v].n)'
      <3>1. op[v].n # Nil
        BY <1>1, <2>2 DEF CallAt, InsertPc
      <3> QED BY <1>1, <1>3, <1>4, <2>2, <3>1, FrameStable DEF CallOwns
    <2>3. ASSUME op[v].pc = "fork" PROVE Mine(v, op[v].m)'
      <3>1. op[v].m # Nil
        BY <1>1, <2>3 DEF CallAt
      <3> QED BY <1>1, <1>3, <1>4, <2>3, <3>1, FrameStable DEF CallOwns
    <2> QED BY <2>1, <2>2, <2>3 DEF CallOwns
  <1>7. ASSUME NEW n \in Nodes, Visible(v, n)
        PROVE  SameBody(heap[n], heap'[n])
    <2>1. ~Mine(w, n)
      BY <1>7 DEF Visible
    <2>2. n \in 1..Len(heap')
      BY FrameStable DEF Nodes
    <2> QED BY <2>1, <2>2 DEF Frame, Built, Kept
  <1>8. CallAt(v)'
    <2>1. ASSUME op[v].pc \in {"down", "split"}
          PROVE  Kid(op[v].n, Head(op[v].search))' # Nil
      <3>1. op[v].n \in Nodes /\ Visible(v, op[v].n)
        BY <1>1, <1>3, <1>4, <2>1 DEF CallAt, CallVisible, InsertPc
      <3> QED BY <1>1, <1>7, <2>1, <3>1 DEF CallAt, SameBody, Kid
    <2>2. ASSUME op[v].m # Nil, heap[op[v].m].val # NoVal
          PROVE  heap'[op[v].m].val # NoVal
      BY <1>1, <1>3, <1>4, <1>7, <2>2 DEF CallVisible, SameBody
    <2> QED BY <1>1, <1>2, <2>1, <2>2 DEF CallAt, GoalPc
  <1> QED BY <1>5, <1>6, <1>8

-----------------------------------------------------------------------------
(* The Notifier *)

NfOK(nf) == NotifierType(nf) /\ Recorded(nf)

\* dropNode keeps the Notifier's lists well-formed.
LEMMA DropNode ==
    ASSUME NEW w \in Writer, NEW nf, NfOK(nf), NEW n \in Nodes, Frozen(n),
           heap \in Seq(NodeType)
    PROVE  NfOK(dropNode(w, nf, n)) /\ NfOK(dropValue(w, nf, n))
  <1>1. n \in Nat
    BY DEF Nodes
  <1>2. nf.nodes \in Seq(Nat) /\ nf.values \in Seq(Nat)
    BY DEF NfOK, NotifierType
  <1>3. /\ Append(nf.nodes, n) \in Seq(Nat)
        /\ \A i \in 1..Len(Append(nf.nodes, n)) :
              Append(nf.nodes, n)[i] \in Nodes /\ Frozen(Append(nf.nodes, n)[i])
    BY <1>1, <1>2, AppendProperties DEF NfOK, NotifierType, Recorded
  <1>4. /\ Append(nf.values, n) \in Seq(Nat)
        /\ \A i \in 1..Len(Append(nf.values, n)) :
              Append(nf.values, n)[i] \in Nodes /\ Frozen(Append(nf.values, n)[i])
    BY <1>1, <1>2, AppendProperties DEF NfOK, NotifierType, Recorded
  <1>5. NfOK(dropNode(w, nf, n))
    BY <1>3 DEF NfOK, NotifierType, Recorded, dropNode
  <1>6. NfOK(dropValue(w, nf, n))
    BY <1>4 DEF NfOK, NotifierType, Recorded, dropValue
  <1> QED BY <1>5, <1>6

\* So does dropLeaf, given a leaf that exists.
LEMMA DropLeaf ==
    ASSUME NEW w \in Writer, NEW nf, NfOK(nf), NEW l \in 1..Len(leaves),
           leaves \in Seq(SlotState)
    PROVE  NfOK(dropLeaf(w, nf, l))
  <1>1. nf.leaves \in Seq(Nat) /\ l \in Nat
    BY DEF NfOK, NotifierType
  <1>2. /\ Append(nf.leaves, l) \in Seq(Nat)
        /\ \A i \in 1..Len(Append(nf.leaves, l)) :
              /\ Append(nf.leaves, l)[i] \in 0..Len(leaves)
              /\ Append(nf.leaves, l)[i] # Nil
    BY <1>1, AppendProperties DEF NfOK, NotifierType, Recorded, Nil
  <1> QED BY <1>2 DEF NfOK, NotifierType, Recorded, dropLeaf

\* So does dropSubtree, given the frozen root of the subtree.
LEMMA DropSubtree ==
    ASSUME NEW w \in Writer, NEW nf, NfOK(nf), NEW n \in Nodes, Visible(w, n)
    PROVE  NfOK(dropSubtree(w, nf, n))
  <1>1. CASE w # Main
    BY <1>1 DEF dropSubtree
  <1>2. CASE w = Main
    <2>1. nf.subtrees \in Seq(Nat) /\ n \in Nat
      BY DEF NfOK, NotifierType, Nodes
    <2>2. /\ Append(nf.subtrees, n) \in Seq(Nat)
          /\ \A i \in 1..Len(Append(nf.subtrees, n)) :
                /\ Append(nf.subtrees, n)[i] \in Nodes
                /\ Visible(Main, Append(nf.subtrees, n)[i])
      <3>1. Visible(Main, n)
        BY <1>2
      <3>2. \A i \in 1..Len(nf.subtrees) :
               nf.subtrees[i] \in Nodes /\ Visible(Main, nf.subtrees[i])
        BY DEF NfOK, NotifierType, Recorded
      <3> QED BY <2>1, <3>1, <3>2, AppendProperties
    <2> QED BY <2>2 DEF NfOK, NotifierType, Recorded, dropSubtree
  <1> QED BY <1>1, <1>2

\* So does dropValue on an owned node: the leaf it records exists.
LEMMA ReleaseValue ==
    ASSUME IInv, NEW w \in Writer, txn[w].epoch # 0, NEW nf, NfOK(nf),
           NEW n \in Nodes, Visible(w, n), heap[n].val # NoVal
    PROVE  NfOK(releaseValue(w, nf, n))
  <1>1. HeapOK /\ LeafOnCopies
    BY DEF IInv, TypeOK, Ownership
  <1>2. CASE ~Owns(w, n)
    BY <1>1, <1>2, NotOwnedIsFrozen, DropNode DEF releaseValue, HeapOK
  <1>3. CASE Owns(w, n) /\ heap[n].lob = 0
    <2>1. Mine(w, n)
      BY <1>3 DEF Owns, Mine
    <2>2. heap[n] \in NodeType /\ heap[n].leaf <= Len(leaves)
          /\ leaves \in Seq(SlotState)
      BY <1>1 DEF HeapOK, Nodes
    <2>3. heap[n].leaf # Nil /\ heap[n].leaf \in Nat
      BY <1>1, <1>3, <2>1, <2>2 DEF LeafOnCopies, NodeType
    <2>4. heap[n].leaf \in 1..Len(leaves)
      BY <2>2, <2>3 DEF Nil
    <2> QED BY <1>3, <2>2, <2>4, DropLeaf DEF releaseValue
  <1>4. CASE Owns(w, n) /\ heap[n].lob # 0
    BY <1>4 DEF releaseValue
  <1> QED BY <1>2, <1>3, <1>4

\* So does what own records of the node it replaces.
LEMMA DropReplaced ==
    ASSUME IInv, NEW w \in Writer, NEW nf, NfOK(nf), NEW n \in Nodes,
           Visible(w, n)
    PROVE  NfOK(dropReplaced(w, nf, n))
  BY NotOwnedIsFrozen, DropNode DEF dropReplaced, IInv, TypeOK, HeapOK

\* So does recording a node that is replaced together with its value.
LEMMA DropWithLeaf ==
    ASSUME IInv, NEW w \in Writer, txn[w].epoch # 0, NEW nf, NfOK(nf),
           NEW n \in Nodes, Visible(w, n), heap[n].val # NoVal
    PROVE  NfOK(dropWithLeaf(w, nf, n))
  BY ReleaseValue, DropReplaced DEF dropWithLeaf

\* What was recorded stays recorded in good order.
LEMMA FrameNotifier ==
    ASSUME IInv, NEW w \in Writer, Frame(w), NfOK(notifier')
    PROVE  NotifierOK' /\ RecordedIsFrozen'
  <1>1. Len(leaves) \in Nat /\ Len(leaves') \in Nat
        /\ Len(leaves) <= Len(leaves')
    BY DEF Frame, IInv, TypeOK, HeapOK
  <1>2. ASSUME NEW n \in Nodes
        PROVE  /\ n \in Nodes' /\ Frozen(n) => Frozen(n)'
               /\ Visible(Main, n) => Visible(Main, n)'
    BY FrameStable, MainAssumption
  <1>3. NotifierOK'
    <2>1. \A n \in Nodes : n \in Nodes'
      BY <1>2, FrameStable
    <2>2. 0..Len(leaves) \subseteq 0..Len(leaves')
      BY <1>1
    <2> QED BY <2>1, <2>2 DEF NfOK, NotifierType, NotifierOK
  <1>4. RecordedIsFrozen'
    <2>1. NotifierType(notifier') /\ Recorded(notifier')
      BY DEF NfOK
    <2>2. ASSUME NEW n \in Nodes, NEW v \in Writer, ~Mine(v, n)
          PROVE  ~(txn'[v].epoch # 0 /\ heap'[n].epoch = txn'[v].epoch)
      BY <2>2, FrameStable DEF Mine
    <2> QED BY <2>1, <2>2
            DEF NotifierType, Recorded, RecordedIsFrozen, Frozen, Visible, Mine
  <1> QED BY <1>3, <1>4

\* The whole invariant, given what the step does to w's own locals.
LEMMA WriterKeeps ==
    ASSUME IInv, NEW w \in Writer, txn[w].epoch # 0, Frame(w), NfOK(notifier'),
           NEW o, op' = [op EXCEPT ![w] = o], o \in OpType,
           o.n \in 0..Len(heap'), o.m \in 0..Len(heap'),
           o.parent \in 0..Len(heap'),
           \A i \in 1..Len(o.path) : o.path[i].n \in 1..Len(heap'),
           CallAt(w)', CallVisible(w)', CallOwns(w)',
           UNCHANGED <<pub, rd, count>>
    PROVE  IInv' /\ FrozenStays
  <1>1. HeapOK /\ TxnOK /\ OpOK /\ PubOK /\ RdOK
        /\ ops \in Nat /\ txns \in Nat /\ watches \in Nat
    BY DEF IInv, TypeOK
  <1>2. HeapOK' /\ Epochs' /\ OwnedBelowOwned' /\ SharedIsFrozen'
        /\ WatchedIsFrozen' /\ LeafOnCopies' /\ FrozenStays
    BY FrameInv DEF pub
  <1>3. NotifierOK' /\ RecordedIsFrozen'
    BY FrameNotifier
  <1>4. Len(heap) \in Nat /\ Len(heap') \in Nat /\ Len(heap) <= Len(heap')
        /\ Len(leaves) \in Nat /\ Len(leaves') \in Nat
        /\ Len(leaves) <= Len(leaves')
    BY <1>1, <1>2 DEF HeapOK, Frame, Built
  <1>5. op'[w] = o /\ \A v \in Writer : v # w => op'[v] = op[v]
    BY <1>1 DEF OpOK
  <1>6. OpOK'
    <2>1. op' \in [Writer -> OpType]
      BY <1>1 DEF OpOK
    <2>2. ASSUME NEW v \in Writer
          PROVE  /\ op'[v].n \in Ref' /\ op'[v].parent \in Ref'
                 /\ op'[v].m \in Ref'
                 /\ \A i \in 1..Len(op'[v].path) : op'[v].path[i].n \in Nodes'
      <3>1. CASE v = w
        BY <1>5, <3>1 DEF Ref, Nodes
      <3>2. CASE v # w
        <4>1. Ref \subseteq Ref' /\ Nodes \subseteq Nodes'
          BY <1>4 DEF Ref, Nodes
        <4>2. op'[v] = op[v]
          BY <1>5, <3>2
        <4> QED BY <1>1, <4>1, <4>2 DEF OpOK
      <3> QED BY <3>1, <3>2
    <2> QED BY <2>1, <2>2 DEF OpOK
  <1>7. TxnOK'
    BY <1>1 DEF TxnOK, Frame, Ref
  <1>8. PubOK' /\ RdOK'
    BY <1>1, <1>4 DEF PubOK, RdOK, RdType, Nodes, Ref, pub
  <1>9. ASSUME NEW v \in Writer
        PROVE  CallAt(v)' /\ CallVisible(v)' /\ CallOwns(v)'
    BY <1>5, FrameOthers
  <1>10. ops' \in Nat /\ txns' \in Nat /\ watches' \in Nat
    BY <1>1 DEF count
  <1> QED BY <1>2, <1>3, <1>6, <1>7, <1>8, <1>9, <1>10
          DEF IInv, TypeOK, Ownership, Calls, CallsVisible, CallsOwn

-----------------------------------------------------------------------------
(* own and its relatives *)

\* The parts of the invariant that the steps use most, in one place.
LEMMA Facts ==
    ASSUME IInv, NEW w \in Writer
    PROVE  /\ heap \in Seq(NodeType) /\ Len(heap) \in Nat /\ Len(heap) > 0
           /\ leaves \in Seq(SlotState) /\ Len(leaves) \in Nat
           /\ txn \in [Writer -> [root : Ref, epoch : Nat]]
           /\ op[w] \in OpType /\ op \in [Writer -> OpType]
           /\ op[w].n \in Ref /\ op[w].parent \in Ref /\ op[w].m \in Ref
           /\ \A i \in 1..Len(op[w].path) : op[w].path[i].n \in Nodes
           /\ CallAt(w) /\ CallVisible(w) /\ CallOwns(w) /\ NfOK(notifier)
           /\ \A n \in Nodes : /\ heap[n] \in NodeType /\ n \in Nat
                               /\ heap[n].leaf \in 0..Len(leaves)
                               /\ \A b \in Byte : heap[n].kids[b] \in Ref
           /\ \A n \in Ref : n # Nil => n \in Nodes
  <1>1. TypeOK /\ Calls /\ CallsVisible /\ CallsOwn /\ RecordedIsFrozen
    BY DEF IInv, Ownership
  <1>2. /\ heap \in Seq(NodeType) /\ Len(heap) \in Nat
        /\ leaves \in Seq(SlotState) /\ Len(leaves) \in Nat
    BY <1>1 DEF TypeOK, HeapOK
  <1>3. Len(heap) > 0
    <2>1. current \in Nodes
      BY <1>1 DEF TypeOK, PubOK
    <2> QED BY <1>2, <2>1 DEF Nodes
  <1>4. ASSUME NEW n \in Nodes
        PROVE  /\ heap[n] \in NodeType /\ n \in Nat
               /\ heap[n].leaf \in 0..Len(leaves)
               /\ \A b \in Byte : heap[n].kids[b] \in Ref
    <2>1. heap[n] \in NodeType /\ n \in Nat
      BY <1>2 DEF Nodes
    <2>2. heap[n].leaf \in Nat
      BY <2>1 DEF NodeType
    <2> QED BY <1>1, <1>2, <2>1, <2>2 DEF TypeOK, HeapOK
  <1>5. \A n \in Ref : n # Nil => n \in Nodes
    BY <1>2 DEF Ref, Nodes, Nil
  <1>6. /\ txn \in [Writer -> [root : Ref, epoch : Nat]]
        /\ op[w] \in OpType /\ op \in [Writer -> OpType]
        /\ op[w].n \in Ref /\ op[w].parent \in Ref /\ op[w].m \in Ref
        /\ \A i \in 1..Len(op[w].path) : op[w].path[i].n \in Nodes
    BY <1>1 DEF TypeOK, TxnOK, OpOK
  <1>7. CallAt(w) /\ CallVisible(w) /\ CallOwns(w) /\ NfOK(notifier)
    BY <1>1 DEF Calls, CallsVisible, CallsOwn, NfOK, RecordedIsFrozen, TypeOK,
                NotifierOK
  <1> QED BY <1>2, <1>3, <1>4, <1>5, <1>6, <1>7

\* copyNode makes a node.
LEMMA CopyType ==
    ASSUME IInv, NEW w \in Writer, NEW n \in Nodes,
           NEW extra \in 0..(Cardinality(Byte) + 1)
    PROVE  /\ copyShape(w, n, extra) \in NodeType
           /\ copyShape(w, n, extra).epoch = txn[w].epoch
           /\ copyShape(w, n, extra).watch = "nil"
           /\ copyShape(w, n, extra).kids = heap[n].kids
           /\ copyShape(w, n, extra).val = NoVal
           /\ copyShape(w, n, extra).lob = 0
           /\ copyShape(w, n, extra).leaf = Nil
           /\ shareLeaf(w, n) \in Nat
           /\ copyNode(w, n, extra) \in NodeType
           /\ copyNode(w, n, extra).epoch = txn[w].epoch
           /\ copyNode(w, n, extra).watch = "nil"
           /\ copyNode(w, n, extra).kids = heap[n].kids
           /\ copyNode(w, n, extra).val = heap[n].val
           /\ copyNode(w, n, extra).lob = 0
           /\ copyNode(w, n, extra).leaf = shareLeaf(w, n)
  <1> DEFINE cap == Class(KidCount(n) + extra)
  <1>1. cap \in Nat
    <2>1. Cardinality(Byte) \in Nat
      BY ByteAssumption, FS_CardinalityType
    <2>2. KidCount(n) + extra \in 0..(2 * Cardinality(Byte) + 1)
      BY <2>1, KidCountType
    <2> QED BY <2>2, ClassType
  <1>2. heap[n] \in NodeType /\ txn[w].epoch \in Nat
        /\ heap[n].leaf \in Nat /\ Len(leaves) \in Nat /\ heap[n].val \in Nat
    BY Facts DEF NodeType
  <1>3. shareLeaf(w, n) \in Nat
    BY <1>2 DEF shareLeaf, Nil
  <1> DEFINE s == [heap[n] EXCEPT !.val = NoVal, !.cap = cap, !.leaf = Nil,
                     !.epoch = txn[w].epoch, !.lob = 0, !.watch = "nil"]
  <1>4. copyShape(w, n, extra) = s
    BY DEF copyShape
  <1> HIDE DEF cap
  <1>5. s \in NodeType
    BY <1>1, <1>2 DEF NodeType, Nil, NoVal, SlotState
  <1>6. /\ s.epoch = txn[w].epoch /\ s.watch = "nil" /\ s.kids = heap[n].kids
        /\ s.val = NoVal /\ s.lob = 0 /\ s.leaf = Nil
    BY <1>2 DEF NodeType
  <1> HIDE DEF s
  <1> DEFINE c == [s EXCEPT !.val = heap[n].val, !.leaf = shareLeaf(w, n)]
  <1>7. copyNode(w, n, extra) = c
    BY <1>4 DEF copyNode
  <1>8. c \in NodeType
    BY <1>2, <1>3, <1>5 DEF NodeType
  <1>9. /\ c.epoch = s.epoch /\ c.watch = s.watch /\ c.kids = s.kids
        /\ c.val = heap[n].val /\ c.lob = s.lob /\ c.leaf = shareLeaf(w, n)
    BY <1>5 DEF NodeType
  <1> QED BY <1>3, <1>4, <1>5, <1>6, <1>7, <1>8, <1>9

\* A copy x of a visible node n is appended below an owned parent p, or as the
\* root, to the heap g that leafOf made of heap.
CopyCtx(w, n, p, l, g, x) ==
    /\ txn[w].epoch # 0 /\ n \in Nodes /\ Visible(w, n)
    /\ p \in Ref /\ (p # Nil => Mine(w, p))
    /\ Built(w, g, New, Len(leaves')) /\ Len(g) = Len(heap)
    /\ leaves' \in Seq(SlotState) /\ Len(leaves) <= Len(leaves')
    /\ x \in NodeType /\ x.epoch = txn[w].epoch /\ x.watch = "nil"
    /\ x.kids = heap[n].kids /\ x.leaf <= Len(leaves')
    /\ x.val # NoVal /\ x.lob = 0 => x.leaf # Nil
    /\ x.lob = 1 => x.leaf = Nil
    /\ heap' = Append(link(g, p, l, New), x)
    /\ txn' = txn \/ txn' = [txn EXCEPT ![w].root = New]
    /\ epochCounter' = epochCounter

\* A copy of a node w sees is w's own, and has the value's leaf.
LEMMA CopyFrame ==
    ASSUME IInv, NEW w \in Writer, NEW n, NEW p, NEW l, NEW g, NEW x,
           CopyCtx(w, n, p, l, g, x)
    PROVE  /\ Frame(w) /\ Len(heap') = Len(heap) + 1 /\ heap'[New] = x
           /\ \A i \in Nodes : heap'[i].val = g[i].val
  <1> USE DEF CopyCtx
  <1>1. /\ heap \in Seq(NodeType) /\ g \in Seq(NodeType) /\ Len(heap) \in Nat
        /\ New \in Nat /\ New = Len(heap) + 1 /\ Len(leaves') \in Nat
    BY Facts DEF Built, New
  <1>2. p \in 0..Len(g)
    BY <1>1 DEF Ref
  <1>3. p # Nil => g[p].epoch = txn[w].epoch
    <2>1. SUFFICES ASSUME p # Nil PROVE g[p].epoch = txn[w].epoch
      OBVIOUS
    <2>2. p \in Nodes
      BY <2>1, Facts
    <2>3. g[p].epoch = heap[p].epoch
      BY <2>2 DEF Built, Kept, Nodes
    <2> QED BY <2>1, <2>3 DEF Mine
  <1>4. New \in 0..New /\ New \notin Nodes
    BY <1>1 DEF Nodes
  <1>5. Built(w, link(g, p, l, New), New, Len(leaves'))
    BY <1>1, <1>2, <1>3, <1>4, BuiltLink
  <1>6. Within(x, New, Len(leaves'))
    BY <1>1, Facts DEF Within, Ref
  <1>7. Private(w, x)
    <2>1. ASSUME NEW b \in Byte, heap[n].kids[b] \in Nodes
          PROVE  Visible(w, heap[n].kids[b])
      <3>1. OwnedBelowOwned /\ heap[n].kids[b] # Nil
        BY <1>1, <2>1 DEF IInv, Ownership, Nodes, Nil
      <3> QED BY <3>1 DEF OwnedBelowOwned, Visible
    <2> QED BY <2>1 DEF Private
  <1>8. Built(w, heap', New, Len(leaves'))
    BY <1>1, <1>5, <1>6, <1>7, BuiltAppend
  <1>9. /\ link(g, p, l, New) \in Seq(NodeType)
        /\ Len(link(g, p, l, New)) = Len(heap)
        /\ \A i \in 1..Len(heap) : link(g, p, l, New)[i].val = g[i].val
    BY <1>1, <1>2, LinkType
  <1>10. /\ Len(heap') = Len(heap) + 1 /\ heap'[Len(heap) + 1] = x
         /\ \A i \in 1..Len(heap) : heap'[i] = link(g, p, l, New)[i]
    BY <1>9, AppendProperties
  <1>11. /\ txn' \in [Writer -> [root : 0..Len(heap'), epoch : Nat]]
         /\ \A v \in Writer : /\ txn'[v].epoch = txn[v].epoch
                              /\ v # w => txn'[v].root = txn[v].root
         /\ txn'[w].root = txn[w].root \/ txn'[w].root = New
    <2>1. txn \in [Writer -> [root : Ref, epoch : Nat]]
      BY Facts
    <2>2. Ref \subseteq 0..Len(heap') /\ New \in 0..Len(heap')
      BY <1>1, <1>10 DEF Ref
    <2>3. txn \in [Writer -> [root : 0..Len(heap'), epoch : Nat]]
      BY <2>1, <2>2
    <2> QED BY <2>2, <2>3
  <1>12. New \in 1..Len(heap')
    BY <1>1, <1>10
  <1> QED BY <1>1, <1>4, <1>8, <1>9, <1>10, <1>11, <1>12 DEF Frame, Nodes

\* The part of w's locals that own relies on.
OwnCtx(w, n) == /\ txn[w].epoch # 0 /\ n \in Nodes /\ Visible(w, n)
                /\ epochCounter' = epochCounter

\* A step that leaves memory alone.
LEMMA StillFrame ==
    ASSUME IInv, NEW w \in Writer, txn[w].epoch # 0,
           UNCHANGED <<heap, leaves, txn, epochCounter>>
    PROVE  Frame(w)
  <1>1. Built(w, heap, Len(heap), Len(leaves))
    <2>1. Len(heap) \in Nat /\ Len(leaves) \in Nat
          /\ Len(heap) <= Len(heap) /\ Len(leaves) <= Len(leaves)
      BY Facts
    <2> QED BY <2>1, BuiltBase
  <1> QED BY <1>1, Facts DEF Frame, Ref

\* own: what comes back is w's, and nothing shared has changed.
LEMMA OwnFrame ==
    ASSUME IInv, NEW w \in Writer, NEW n, OwnCtx(w, n), NEW extra \in {0, 1},
           own(w, n, extra)
    PROVE  /\ Frame(w) /\ NfOK(notifier')
           /\ ownResult(w, n, extra) \in 1..Len(heap')
           /\ heap'[ownResult(w, n, extra)].epoch = txn[w].epoch
           /\ heap'[ownResult(w, n, extra)].kids = heap[n].kids
           /\ \A i \in Nodes : heap'[i].val = heap[i].val
  <1> DEFINE c == ownResult(w, n, extra)
  <1>0. /\ n \in Nodes /\ Visible(w, n) /\ txn[w].epoch # 0
        /\ epochCounter' = epochCounter
        /\ op[w].parent \in Ref
        /\ op[w].parent # Nil => Mine(w, op[w].parent)
        /\ heap \in Seq(NodeType) /\ NfOK(notifier)
        /\ New \in Nat /\ Len(heap) <= New
        /\ Len(heap) \in Nat
        /\ leaves \in Seq(SlotState) /\ Len(leaves) \in Nat
    BY Facts DEF OwnCtx, CallOwns, New
  <1>1. CASE ownKeep(w, n, extra)
    <2>1. c = n /\ Owns(w, n) /\ heap' = heap
      BY <1>1 DEF ownKeep, ownResult, ownFits
    <2>2. UNCHANGED <<heap, leaves, txn, epochCounter, notifier>>
      BY <1>0, <1>1 DEF ownKeep
    <2>3. Frame(w)
      BY <1>0, <2>2, StillFrame
    <2> QED BY <1>0, <2>1, <2>2, <2>3 DEF Owns, Nodes, NfOK
  <1>2. CASE ownGrow(w, n, extra)
    <2> DEFINE y == copyNode(w, n, KidCount(n) + extra)
               x == [y EXCEPT !.lob = heap[n].lob]
    <2>1. Owns(w, n) /\ c = New /\ leaves' = leaves /\ notifier' = notifier
      BY <1>2 DEF ownGrow, ownResult
    <2>2. KidCount(n) + extra \in 0..(Cardinality(Byte) + 1)
      <3>1. Cardinality(Byte) \in Nat
        BY ByteAssumption, FS_CardinalityType
      <3> QED BY <3>1, KidCountType
    <2>3. shareLeaf(w, n) = IF heap[n].val = NoVal THEN Nil ELSE heap[n].leaf
      BY <2>1 DEF shareLeaf, NeedsLeaf
    <2>4. heap[n] \in NodeType /\ heap[n].lob \in {0, 1}
          /\ heap[n].leaf \in 0..Len(leaves)
      BY <1>0, Facts DEF NodeType
    <2>5. x \in NodeType /\ x.epoch = txn[w].epoch /\ x.watch = "nil"
          /\ x.kids = heap[n].kids /\ x.val = heap[n].val
          /\ x.lob = heap[n].lob /\ x.leaf = shareLeaf(w, n)
      <3>1. y \in NodeType /\ y.epoch = txn[w].epoch /\ y.watch = "nil"
            /\ y.kids = heap[n].kids /\ y.val = heap[n].val
            /\ y.leaf = shareLeaf(w, n)
        BY <1>0, <2>2, CopyType
      <3> HIDE DEF y
      <3>2. x \in NodeType
        BY <2>4, <3>1 DEF NodeType
      <3> QED BY <2>4, <3>1, <3>2 DEF NodeType
    <2>6. LeafOnCopies /\ Mine(w, n)
      BY <1>0, <2>1 DEF IInv, Ownership, Owns, Mine
    <2>7. /\ x.leaf <= Len(leaves')
          /\ x.val # NoVal /\ x.lob = 0 => x.leaf # Nil
          /\ x.lob = 1 => x.leaf = Nil
      BY <1>0, <2>1, <2>3, <2>4, <2>5, <2>6 DEF LeafOnCopies, Nil
    <2>8. heap' = Append(link(heap, op[w].parent, op[w].l, New), x)
      BY <1>2 DEF ownGrow
    <2>9. txn' = txn \/ txn' = [txn EXCEPT ![w].root = New]
      BY <1>2 DEF ownGrow, linkRoot
    <2>10. Built(w, heap, New, Len(leaves'))
      BY <1>0, <2>1, BuiltBase
    <2> HIDE DEF x
    <2>11. /\ Frame(w) /\ Len(heap') = Len(heap) + 1 /\ heap'[New] = x
           /\ \A i \in Nodes : heap'[i].val = heap[i].val
      <3>1. CopyCtx(w, n, op[w].parent, op[w].l, heap, x)
        BY <1>0, <2>1, <2>5, <2>7, <2>8, <2>9, <2>10 DEF CopyCtx
      <3> QED BY <3>1, CopyFrame
    <2> QED BY <1>0, <2>1, <2>5, <2>11 DEF New
  <1>3. CASE ownCopy(w, n, extra)
    <2> DEFINE x == copyNode(w, n, extra)
               g == WithLeaf(w, n)
    <2>1. ~Owns(w, n) /\ c = New /\ MakeLeaf(w, n)
      BY <1>3 DEF ownCopy, ownResult, ownFits
    <2>2. extra \in 0..(Cardinality(Byte) + 1)
      BY ByteAssumption, FS_CardinalityType
    <2>3. x \in NodeType /\ x.epoch = txn[w].epoch /\ x.watch = "nil"
          /\ x.kids = heap[n].kids /\ x.val = heap[n].val
          /\ x.lob = 0 /\ x.leaf = shareLeaf(w, n)
      BY <1>0, <2>2, CopyType
    <2>4. /\ Built(w, g, New, Len(leaves')) /\ Len(g) = Len(heap)
          /\ \A i \in Nodes : g[i].val = heap[i].val
          /\ leaves' \in Seq(SlotState) /\ Len(leaves') \in Nat
          /\ Len(leaves) <= Len(leaves')
          /\ shareLeaf(w, n) \in 0..Len(leaves')
      BY <1>0, <2>1, BuiltWithLeaf
    <2>5. heap[n].val # NoVal => shareLeaf(w, n) # Nil
      BY <1>0, <2>1 DEF shareLeaf, NeedsLeaf, Nil
    <2>6. heap' = Append(link(g, op[w].parent, op[w].l, New), x)
      BY <1>3 DEF ownCopy
    <2>7. txn' = txn \/ txn' = [txn EXCEPT ![w].root = New]
      BY <1>3 DEF ownCopy, linkRoot
    <2> HIDE DEF x, g
    <2>8. /\ Frame(w) /\ Len(heap') = Len(heap) + 1 /\ heap'[New] = x
          /\ \A i \in Nodes : heap'[i].val = g[i].val
      <3>1. /\ x.leaf <= Len(leaves') /\ x.lob # 1
            /\ x.val # NoVal => x.leaf # Nil
        BY <2>3, <2>4, <2>5
      <3>2. CopyCtx(w, n, op[w].parent, op[w].l, g, x)
        BY <1>0, <2>3, <2>4, <2>6, <2>7, <3>1 DEF CopyCtx
      <3> QED BY <3>2, CopyFrame
    <2>9. NfOK(notifier')
      BY <1>0, <1>3, <2>1, NotOwnedIsFrozen, DropNode DEF ownCopy
    <2> QED BY <1>0, <2>1, <2>3, <2>4, <2>8, <2>9 DEF New
  <1> QED BY <1>1, <1>2, <1>3 DEF own

\* ownValueless likewise: the old value is released, the copy starts with v.
LEMMA OwnValuelessFrame ==
    ASSUME IInv, NEW w \in Writer, NEW n, OwnCtx(w, n), NEW v \in Nat,
           NEW bit \in {0, 1}, v = NoVal \/ bit = 1, ownValueless(w, n, v, bit)
    PROVE  Frame(w) /\ NfOK(notifier')
  <1> DEFINE nf == IF heap[n].val = NoVal THEN notifier
                                          ELSE releaseValue(w, notifier, n)
  <1>0. /\ n \in Nodes /\ Visible(w, n) /\ txn[w].epoch # 0
        /\ epochCounter' = epochCounter
        /\ op[w].parent \in Ref
        /\ op[w].parent # Nil => Mine(w, op[w].parent)
        /\ heap \in Seq(NodeType) /\ NfOK(notifier)
        /\ New \in Nat /\ Len(heap) <= New /\ Len(heap) \in Nat
        /\ leaves \in Seq(SlotState) /\ Len(leaves) \in Nat
        /\ heap[n] \in NodeType /\ heap[n].leaf \in 0..Len(leaves)
    BY Facts DEF OwnCtx, CallOwns, New
  <1>1. NfOK(nf)
    BY <1>0, ReleaseValue
  <1>2. CASE Owns(w, n)
    <2> DEFINE x == [heap[n] EXCEPT !.leaf = Nil, !.val = v, !.lob = bit]
    <2>1. heap' = [heap EXCEPT ![n] = x] /\ notifier' = nf
          /\ UNCHANGED <<leaves, txn>>
      BY <1>2 DEF ownValueless
    <2>2. x \in NodeType
      BY <1>0 DEF NodeType, Nil
    <2>3. x.epoch = heap[n].epoch /\ x.watch = heap[n].watch
          /\ x.kids = heap[n].kids /\ x.leaf = Nil /\ x.val = v /\ x.lob = bit
      BY <1>0 DEF NodeType
    <2>4. Built(w, heap, Len(heap), Len(leaves))
      BY <1>0, BuiltBase
    <2> HIDE DEF x
    <2>5. heap[n].epoch = txn[w].epoch /\ n \in 1..Len(heap)
      BY <1>0, <1>2 DEF Owns, Nodes
    <2>6. Within(x, Len(heap), Len(leaves)) /\ Private(w, x)
      <3>1. Within(heap[n], Len(heap), Len(leaves)) /\ Private(w, heap[n])
        BY <2>4, <2>5 DEF Built
      <3> QED BY <1>0, <2>3, <3>1 DEF Within, Private, Nil
    <2>7. Built(w, heap', Len(heap), Len(leaves))
      BY <1>0, <2>1, <2>2, <2>3, <2>4, <2>5, <2>6, BuiltReplace
    <2>8. Len(heap') = Len(heap)
      BY <1>0, <2>1, <2>2, <2>5, ExceptSeq
    <2> QED BY <1>0, <1>1, <2>1, <2>7, <2>8, Facts DEF Frame, Ref
  <1>3. CASE ~Owns(w, n)
    <2> DEFINE s == copyShape(w, n, 0)
               x == [s EXCEPT !.val = v, !.lob = bit]
    <2>1. /\ heap' = Append(link(heap, op[w].parent, op[w].l, New), x)
          /\ txn' = txn \/ txn' = [txn EXCEPT ![w].root = New]
          /\ notifier' = dropNode(w, nf, n) /\ leaves' = leaves
      BY <1>3 DEF ownValueless, linkRoot
    <2>2. 0 \in 0..(Cardinality(Byte) + 1)
      BY ByteAssumption, FS_CardinalityType
    <2>3. s \in NodeType /\ s.epoch = txn[w].epoch /\ s.watch = "nil"
          /\ s.kids = heap[n].kids /\ s.leaf = Nil
      BY <1>0, <2>2, CopyType
    <2> HIDE DEF s
    <2>4. x \in NodeType
      BY <2>3 DEF NodeType
    <2>5. x.epoch = s.epoch /\ x.watch = s.watch /\ x.kids = s.kids
          /\ x.leaf = s.leaf /\ x.val = v /\ x.lob = bit
      BY <2>3 DEF NodeType
    <2>6. Built(w, heap, New, Len(leaves'))
      BY <1>0, <2>1, BuiltBase
    <2> HIDE DEF x
    <2>7. /\ x.leaf <= Len(leaves')
          /\ x.val # NoVal /\ x.lob = 0 => x.leaf # Nil
          /\ x.lob = 1 => x.leaf = Nil
      BY <1>0, <2>1, <2>3, <2>5 DEF Nil
    <2>8. Frame(w)
      <3>1. CopyCtx(w, n, op[w].parent, op[w].l, heap, x)
        BY <1>0, <2>1, <2>3, <2>4, <2>5, <2>6, <2>7 DEF CopyCtx
      <3> QED BY <3>1, CopyFrame
    <2>9. NfOK(notifier')
      BY <1>0, <1>1, <1>3, <2>1, NotOwnedIsFrozen, DropNode
    <2> QED BY <2>8, <2>9
  <1> QED BY <1>2, <1>3


\* mergeChild, whatever the Notifier holds by then.
LEMMA MergeFrame ==
    ASSUME IInv, NEW w \in Writer, NEW n \in Nodes, NEW c, OwnCtx(w, c),
           NEW nf, NfOK(nf), op[w].parent # Nil, mergeChild(w, nf, n, c)
    PROVE  Frame(w) /\ NfOK(notifier')
  <1> DEFINE joined == heap[n].prefix \o heap[c].prefix
             p == op[w].parent
             l == op[w].l
  <1>0. /\ c \in Nodes /\ Visible(w, c) /\ txn[w].epoch # 0
        /\ epochCounter' = epochCounter /\ txn' = txn
        /\ p \in Ref /\ p \in Nodes /\ Mine(w, p)
        /\ heap \in Seq(NodeType) /\ Len(heap) \in Nat
        /\ New \in Nat /\ Len(heap) <= New
        /\ leaves \in Seq(SlotState) /\ Len(leaves) \in Nat
        /\ heap[c] \in NodeType /\ heap[c].leaf \in 0..Len(leaves)
        /\ MakeLeaf(w, c)
    <2>1. c \in Nodes /\ Visible(w, c) /\ txn[w].epoch # 0
          /\ epochCounter' = epochCounter /\ txn' = txn /\ MakeLeaf(w, c)
      BY DEF OwnCtx, mergeChild
    <2>2. p \in Ref /\ p \in Nodes /\ Mine(w, p)
      BY Facts DEF CallOwns
    <2>3. heap \in Seq(NodeType) /\ Len(heap) \in Nat
          /\ leaves \in Seq(SlotState) /\ Len(leaves) \in Nat
      BY Facts
    <2>4. heap[c] \in NodeType /\ heap[c].leaf \in 0..Len(leaves)
      BY <2>1, Facts
    <2>5. New \in Nat /\ Len(heap) <= New
      BY <2>3 DEF New
    <2> QED BY <2>1, <2>2, <2>3, <2>4, <2>5
  <1>1. NfOK(notifier')
    BY <1>0, DropReplaced DEF mergeChild
  <1>2. joined \in Seq(Byte)
    <2>1. heap[n].prefix \in Seq(Byte) /\ heap[c].prefix \in Seq(Byte)
      BY <1>0, Facts DEF NodeType
    <2> QED BY <2>1, ConcatProperties
  <1> HIDE DEF joined
  <1>3. CASE Owns(w, c) /\ ~Childless(c)
    <2> DEFINE x == [heap[c] EXCEPT !.prefix = joined]
               g == [heap EXCEPT ![c] = x]
    <2>1. heap' = [g EXCEPT ![p].kids[l] = c]
      BY <1>3 DEF mergeChild, joined
    <2>2. leaves' = leaves
      BY <1>0, <1>3 DEF MakeLeaf, NeedsLeaf
    <2>3. x \in NodeType
      BY <1>0, <1>2 DEF NodeType
    <2>4. /\ x.epoch = heap[c].epoch /\ x.watch = heap[c].watch
          /\ x.kids = heap[c].kids /\ x.leaf = heap[c].leaf
          /\ x.val = heap[c].val /\ x.lob = heap[c].lob
      BY <1>0 DEF NodeType
    <2> HIDE DEF x
    <2>5. Built(w, heap, Len(heap), Len(leaves))
      BY <1>0, BuiltBase
    <2>6. heap[c].epoch = txn[w].epoch /\ c \in 1..Len(heap)
      BY <1>0, <1>3 DEF Owns, Nodes
    <2>7. Within(x, Len(heap), Len(leaves)) /\ Private(w, x)
      <3>1. Within(heap[c], Len(heap), Len(leaves)) /\ Private(w, heap[c])
        BY <2>5, <2>6 DEF Built
      <3> QED BY <2>4, <3>1 DEF Within, Private
    <2>8. Built(w, g, Len(heap), Len(leaves))
      BY <1>0, <2>3, <2>4, <2>5, <2>6, <2>7, BuiltReplace
    <2>9. g \in Seq(NodeType) /\ Len(g) = Len(heap)
          /\ \A j \in 1..Len(heap) : g[j] = IF j = c THEN x ELSE heap[j]
      BY <1>0, <2>3, <2>6, ExceptSeq
    <2>10. g[p].epoch = txn[w].epoch /\ p \in 0..Len(g) /\ c \in 0..Len(heap)
      BY <1>0, <2>4, <2>6, <2>9 DEF Mine, Nodes
    <2>11. heap' = link(g, p, l, c)
      BY <1>0, <2>1 DEF link
    <2> HIDE DEF g
    <2>12. Built(w, heap', Len(heap), Len(leaves))
      BY <1>0, <2>8, <2>10, <2>11, BuiltLink
    <2>13. Len(heap') = Len(heap)
      BY <1>0, <2>9, <2>10, <2>11, LinkType
    <2> QED BY <1>0, <1>1, <2>2, <2>12, <2>13, Facts DEF Frame, Ref
  <1>4. CASE ~(Owns(w, c) /\ ~Childless(c))
    <2> DEFINE y == copyNode(w, c, 0)
               bit == IF Owns(w, c) THEN heap[c].lob ELSE 0
               x == [y EXCEPT !.prefix = joined, !.lob = bit]
               g == WithLeaf(w, c)
    <2>1. heap' = Append(link(g, p, l, New), x)
      BY <1>4 DEF mergeChild, joined
    <2>2. 0 \in 0..(Cardinality(Byte) + 1)
      BY ByteAssumption, FS_CardinalityType
    <2>3. y \in NodeType /\ y.epoch = txn[w].epoch /\ y.watch = "nil"
          /\ y.kids = heap[c].kids /\ y.val = heap[c].val
          /\ y.leaf = shareLeaf(w, c)
      BY <1>0, <2>2, CopyType
    <2>4. bit \in {0, 1}
      BY <1>0 DEF NodeType
    <2> HIDE DEF y, bit
    <2>5. x \in NodeType
      BY <1>2, <2>3, <2>4 DEF NodeType
    <2>6. /\ x.epoch = y.epoch /\ x.watch = y.watch /\ x.kids = y.kids
          /\ x.val = y.val /\ x.leaf = y.leaf /\ x.lob = bit
      BY <2>3 DEF NodeType
    <2> HIDE DEF x
    <2>7. /\ Built(w, g, New, Len(leaves')) /\ Len(g) = Len(heap)
          /\ leaves' \in Seq(SlotState) /\ Len(leaves') \in Nat
          /\ Len(leaves) <= Len(leaves')
          /\ shareLeaf(w, c) \in 0..Len(leaves')
      BY <1>0, BuiltWithLeaf
    <2>8. /\ heap[c].val # NoVal /\ bit = 0 => shareLeaf(w, c) # Nil
          /\ bit = 1 => shareLeaf(w, c) = Nil
      <3>1. CASE Owns(w, c)
        <4>1. LeafOnCopies /\ Mine(w, c)
          BY <1>0, <3>1 DEF IInv, Ownership, Owns, Mine
        <4> QED BY <1>0, <3>1, <4>1
                DEF LeafOnCopies, shareLeaf, NeedsLeaf, bit
      <3>2. CASE ~Owns(w, c)
        BY <1>0, <3>2 DEF shareLeaf, NeedsLeaf, Nil, bit
      <3> QED BY <3>1, <3>2
    <2> HIDE DEF g
    <2>9. /\ x.leaf <= Len(leaves')
          /\ x.val # NoVal /\ x.lob = 0 => x.leaf # Nil
          /\ x.lob = 1 => x.leaf = Nil
      BY <2>3, <2>6, <2>7, <2>8
    <2>10. CopyCtx(w, c, p, l, g, x)
      BY <1>0, <2>1, <2>3, <2>5, <2>6, <2>7, <2>9 DEF CopyCtx
    <2> QED BY <1>1, <2>10, CopyFrame
  <1> QED BY <1>3, <1>4


-----------------------------------------------------------------------------
(* The steps of a call *)

\* Mine and Visible after the step, for nodes that are named in primed terms.
MineNext(w, n) == txn'[w].epoch # 0 /\ heap'[n].epoch = txn'[w].epoch
VisibleNext(w, n) == \A v \in Writer \ {w} : ~MineNext(v, n)

\* What w owned or saw it still does; what it allocates, it owns; and it goes
\* on seeing its tree.
LEMMA FrameNext ==
    ASSUME IInv, NEW w \in Writer, txn[w].epoch # 0, Frame(w)
    PROVE  /\ Nodes \subseteq 1..Len(heap')
           /\ \A n \in Nodes : MineNext(w, n) <=> Mine(w, n)
           /\ \A n \in Nodes : Visible(w, n) => VisibleNext(w, n)
           /\ \A n \in 1..Len(heap') : n \notin Nodes => MineNext(w, n)
           /\ \A n \in 1..Len(heap') : MineNext(w, n) => VisibleNext(w, n)
           /\ txn[w].root # Nil =>
                 txn'[w].root # Nil /\ VisibleNext(w, txn'[w].root)
           /\ txn'[w].epoch = txn[w].epoch
  <1>1. Epochs /\ CallVisible(w) /\ txn[w].root \in Ref
    BY Facts DEF IInv, Ownership
  <1>2. txn'[w].epoch = txn[w].epoch
    BY DEF Frame
  <1>3. ASSUME NEW n \in 1..Len(heap'), n \notin Nodes PROVE MineNext(w, n)
    <2>1. heap'[n].epoch = txn[w].epoch
      BY <1>3 DEF Frame, Built, Nodes
    <2> QED BY <1>2, <2>1 DEF MineNext
  <1>4. ASSUME NEW n \in 1..Len(heap'), MineNext(w, n) PROVE VisibleNext(w, n)
    BY <1>1, <1>4 DEF VisibleNext, MineNext, Frame, Epochs
  <1>5. ASSUME NEW n \in Nodes
        PROVE  /\ n \in 1..Len(heap')
               /\ MineNext(w, n) <=> Mine(w, n)
               /\ Visible(w, n) => VisibleNext(w, n)
    <2>1. n \in Nodes' /\ heap'[n].epoch = heap[n].epoch
      BY FrameStable
    <2> QED BY <2>1 DEF Frame, Mine, MineNext, Visible, VisibleNext, Nodes
  <1>6. ASSUME txn[w].root # Nil
        PROVE  txn'[w].root # Nil /\ VisibleNext(w, txn'[w].root)
    <2> DEFINE root == txn'[w].root
    <2>1. CASE root = txn[w].root
      BY <1>1, <1>5, <1>6, <2>1, Facts DEF CallVisible
    <2>2. CASE root \in 1..Len(heap') /\ root \notin Nodes
      <3>1. root # Nil
        BY <2>2 DEF Nil
      <3> QED BY <1>3, <1>4, <2>2, <3>1
    <2> QED BY <2>1, <2>2 DEF Frame
  <1> QED BY <1>2, <1>3, <1>4, <1>5, <1>6

\* No locals are locals.
LEMMA IdleOpType ==
    ASSUME NEW r \in Nat
    PROVE  /\ [IdleOp EXCEPT !.ret = r] \in OpType
           /\ [IdleOp EXCEPT !.ret = r].pc = "idle"
           /\ [IdleOp EXCEPT !.ret = r].n = Nil
           /\ [IdleOp EXCEPT !.ret = r].m = Nil
           /\ [IdleOp EXCEPT !.ret = r].parent = Nil
           /\ [IdleOp EXCEPT !.ret = r].path = <<>>
  <1>1. <<>> \in Seq(Byte) /\ <<>> \in PathType
    BY DEF PathType
  <1> QED BY <1>1 DEF IdleOp, OpType, Nil, NoVal

\* A call returns.
LEMMA ReturnKeeps ==
    ASSUME IInv, NEW w \in Writer, op[w].pc \in WritePc, Frame(w),
           NfOK(notifier'), NEW r \in Nat, Return(w, r),
           UNCHANGED <<pub, rd, count>>
    PROVE  IInv' /\ FrozenStays
  <1> DEFINE o == [IdleOp EXCEPT !.ret = r]
  <1>1. /\ o \in OpType /\ o.pc = "idle" /\ o.n = Nil /\ o.m = Nil
        /\ o.parent = Nil /\ o.path = <<>>
    BY IdleOpType
  <1>2. txn[w].root # Nil /\ txn[w].epoch # 0
    BY Facts DEF CallAt, WritePc, InsertPc, GoalPc
  <1>3. op' = [op EXCEPT ![w] = o] /\ op'[w] = o
    BY Facts DEF Return
  <1> HIDE DEF o
  <1>4. txn'[w].root # Nil /\ VisibleNext(w, txn'[w].root)
    BY <1>2, FrameNext
  <1>5. CallVisible(w)'
    BY <1>1, <1>3, <1>4 DEF CallVisible, Visible, VisibleNext, Mine, MineNext
  <1>6. CallAt(w)' /\ CallOwns(w)'
    BY <1>1, <1>3, <1>4 DEF CallAt, CallOwns, WritePc, InsertPc, GoalPc
  <1>7. Len(heap') \in Nat
    BY DEF Frame, Built
  <1>8. /\ o.n \in 0..Len(heap') /\ o.m \in 0..Len(heap')
        /\ o.parent \in 0..Len(heap')
        /\ \A i \in 1..Len(o.path) : o.path[i].n \in 1..Len(heap')
    BY <1>1, <1>7 DEF Nil
  <1> QED BY <1>1, <1>2, <1>3, <1>5, <1>6, <1>8, WriterKeeps


\* A call goes on with locals o.
GotoCtx(w, o) ==
    /\ o \in OpType /\ Goto(w, o) /\ UNCHANGED <<pub, rd, count>>
    /\ o.n \in 0..Len(heap') /\ (o.n # Nil => VisibleNext(w, o.n))
    /\ o.m \in 0..Len(heap') /\ (o.m # Nil => VisibleNext(w, o.m))
    /\ o.parent \in 0..Len(heap') /\ (o.parent # Nil => MineNext(w, o.parent))
    /\ \A i \in 1..Len(o.path) : /\ o.path[i].n \in 1..Len(heap')
                                 /\ VisibleNext(w, o.path[i].n)
    /\ o.pc \in {"hang", "down", "split", "fork"} => MineNext(w, o.n)
    /\ o.pc = "fork" => MineNext(w, o.m)

\* A call goes on at another point, with other locals.
LEMMA GotoKeeps ==
    ASSUME IInv, NEW w \in Writer, op[w].pc \in WritePc, Frame(w),
           NfOK(notifier'), NEW o, GotoCtx(w, o), CallAt(w)'
    PROVE  IInv' /\ FrozenStays
  <1>1. txn[w].root # Nil /\ txn[w].epoch # 0
    BY Facts DEF CallAt, WritePc, InsertPc, GoalPc
  <1>2. op' = [op EXCEPT ![w] = o] /\ op'[w] = o
    BY Facts DEF GotoCtx, Goto
  <1>3. txn'[w].root # Nil /\ VisibleNext(w, txn'[w].root)
    BY <1>1, FrameNext
  <1>4. CallVisible(w)'
    BY <1>2, <1>3
       DEF CallVisible, GotoCtx, Visible, VisibleNext, Mine, MineNext
  <1>5. CallOwns(w)'
    BY <1>2 DEF CallOwns, GotoCtx, Mine, MineNext
  <1> QED BY <1>1, <1>2, <1>4, <1>5, WriterKeeps DEF GotoCtx

\* Pointers among w's locals that a step does not assign.
LEMMA LocalsNext ==
    ASSUME IInv, NEW w \in Writer, op[w].pc \in WritePc, Frame(w)
    PROVE  /\ txn[w].epoch # 0 /\ txn[w].root # Nil /\ Len(heap') \in Nat
           /\ Nodes \subseteq 1..Len(heap')
           /\ txn'[w].epoch = txn[w].epoch /\ txn'[w].root # Nil
           /\ op[w].n \in 0..Len(heap')
           /\ op[w].n # Nil => VisibleNext(w, op[w].n)
           /\ op[w].m \in 0..Len(heap')
           /\ op[w].m # Nil => VisibleNext(w, op[w].m)
           /\ op[w].parent \in 0..Len(heap')
           /\ op[w].parent # Nil => MineNext(w, op[w].parent)
           /\ \A i \in 1..Len(op[w].path) :
                 /\ op[w].path[i].n \in 1..Len(heap')
                 /\ VisibleNext(w, op[w].path[i].n)
           /\ op[w].pc \in {"hang", "down", "split", "fork"} =>
                 MineNext(w, op[w].n)
           /\ op[w].pc = "fork" => MineNext(w, op[w].m)
  <1>1. txn[w].root # Nil /\ txn[w].epoch # 0
    BY Facts DEF CallAt, WritePc, InsertPc, GoalPc
  <1>2. Len(heap) \in Nat /\ Len(heap') \in Nat /\ Len(heap) <= Len(heap')
    BY Facts DEF Frame, Built
  <1>3. Ref \subseteq 0..Len(heap')
    BY <1>2 DEF Ref
  <1>4. /\ op[w].pc \in {"hang", "down", "split", "fork"} => op[w].n # Nil
        /\ op[w].pc = "fork" => op[w].m # Nil
    BY Facts DEF CallAt, InsertPc
  <1>5. /\ op[w].n # Nil => op[w].n \in Nodes
        /\ op[w].m # Nil => op[w].m \in Nodes
        /\ op[w].parent # Nil => op[w].parent \in Nodes
    BY Facts
  <1> QED BY <1>1, <1>2, <1>3, <1>4, <1>5, Facts, FrameNext
          DEF CallVisible, CallOwns

\* Insert replaces the value of the node it owns.
LEMMA InsertValueStep ==
    ASSUME IInv, NEW w \in Writer, InsertValue(w)
    PROVE  IInv' /\ FrozenStays
  <1> DEFINE n == op[w].n
             v == op[w].val
  <1>1. /\ op[w].pc = "insert" /\ op[w].pc \in WritePc
        /\ epochCounter' = epochCounter /\ UNCHANGED <<pub, rd, count>>
    BY DEF InsertValue, At, Rest, WritePc, InsertPc
  <1>2. /\ txn[w].epoch # 0 /\ n \in Nodes /\ Visible(w, n) /\ v \in Nat
        /\ heap[n] \in NodeType /\ heap[n].val \in Nat
        /\ heap \in Seq(NodeType) /\ Len(heap) \in Nat /\ Len(leaves) \in Nat
    <2>1. op[w].n # Nil /\ op[w].val \in Nat /\ txn[w].epoch # 0
      BY <1>1, Facts DEF CallAt, InsertPc, OpType
    <2>2. n \in Nodes
      BY <2>1, Facts
    <2>3. heap[n] \in NodeType
      BY <2>2, Facts
    <2> QED BY <2>1, <2>2, <2>3, Facts DEF CallVisible, NodeType
  <1>3. Return(w, heap[n].val)
    BY DEF InsertValue
  <1>4. Frame(w) /\ NfOK(notifier')
    <2>1. CASE ownValueless(w, n, v, 1)
      <3>1. OwnCtx(w, n)
        BY <1>1, <1>2 DEF OwnCtx
      <3> QED BY <1>2, <2>1, <3>1, OwnValuelessFrame
    <2>2. CASE /\ heap[n].val # NoVal /\ Owns(w, n) /\ heap[n].lob = 1
               /\ heap' = [heap EXCEPT ![n].val = v]
               /\ UNCHANGED <<leaves, txn, notifier>>
      <3> DEFINE x == [heap[n] EXCEPT !.val = v]
      <3>1. x \in NodeType
        BY <1>2 DEF NodeType
      <3>2. /\ x.epoch = heap[n].epoch /\ x.watch = heap[n].watch
            /\ x.kids = heap[n].kids /\ x.leaf = heap[n].leaf
            /\ x.lob = heap[n].lob
        BY <1>2 DEF NodeType
      <3>3. heap' = [heap EXCEPT ![n] = x]
        BY <2>2
      <3> HIDE DEF x
      <3>4. Built(w, heap, Len(heap), Len(leaves))
        BY <1>2, BuiltBase
      <3>5. heap[n].epoch = txn[w].epoch /\ n \in 1..Len(heap)
        BY <1>2, <2>2 DEF Owns, Nodes
      <3>6. Within(x, Len(heap), Len(leaves)) /\ Private(w, x)
        <4>1. Within(heap[n], Len(heap), Len(leaves)) /\ Private(w, heap[n])
          BY <3>4, <3>5 DEF Built
        <4> QED BY <2>2, <3>2, <4>1 DEF Within, Private
      <3>7. Built(w, heap', Len(heap), Len(leaves))
        BY <1>2, <3>1, <3>2, <3>3, <3>4, <3>5, <3>6, BuiltReplace
      <3>8. Len(heap') = Len(heap)
        BY <1>2, <3>1, <3>3, <3>5, ExceptSeq
      <3>9. NfOK(notifier')
        BY <2>2, Facts
      <3> QED BY <1>1, <2>2, <3>7, <3>8, <3>9, Facts DEF Frame, Ref
    <2> QED BY <2>1, <2>2 DEF InsertValue
  <1> QED BY <1>1, <1>2, <1>3, <1>4, ReturnKeeps


\* Insert owns the next level.
LEMMA InsertOwnStep ==
    ASSUME IInv, NEW w \in Writer, InsertOwn(w)
    PROVE  IInv' /\ FrozenStays
  <1> DEFINE n == op[w].n
             b == Head(op[w].search)
             extra == IF Kid(n, b) = Nil THEN 1 ELSE 0
             c == ownResult(w, n, extra)
  <1>1. /\ op[w].pc = "insert" /\ op[w].pc \in WritePc /\ op[w].search # <<>>
        /\ epochCounter' = epochCounter /\ UNCHANGED <<pub, rd, count>>
        /\ own(w, n, extra)
    BY DEF InsertOwn, At, Rest, WritePc, InsertPc
  <1>2. PICK pc \in {"hang", "down", "split"} :
            /\ Goto(w, [op[w] EXCEPT !.n = c, !.pc = pc])
            /\ pc # "hang" => Kid(n, b) # Nil
    BY DEF InsertOwn
  <1> DEFINE o == [op[w] EXCEPT !.n = c, !.pc = pc]
  <1>3. OwnCtx(w, n) /\ extra \in {0, 1}
    <2>1. op[w].n # Nil /\ txn[w].epoch # 0
      BY <1>1, Facts DEF CallAt, InsertPc
    <2>2. n \in Nodes
      BY <2>1, Facts
    <2> QED BY <1>1, <2>1, <2>2, Facts DEF OwnCtx, CallVisible
  <1> HIDE DEF extra
  <1>4. /\ Frame(w) /\ NfOK(notifier')
        /\ c \in 1..Len(heap') /\ heap'[c].epoch = txn[w].epoch
        /\ heap'[c].kids = heap[n].kids
    BY <1>1, <1>3, OwnFrame
  <1> HIDE DEF c
  <1>5. c \in Nat /\ c # Nil /\ c \in 0..Len(heap')
    <2>1. Len(heap') \in Nat
      BY <1>4 DEF Frame, Built
    <2> QED BY <1>4, <2>1 DEF Nil
  <1>6. op[w] \in OpType
    BY Facts
  <1>7. o \in OpType
    BY <1>2, <1>5, <1>6 DEF OpType, WritePc, InsertPc
  <1>8. /\ o.n = c /\ o.pc = pc /\ o.m = op[w].m /\ o.parent = op[w].parent
        /\ o.path = op[w].path /\ o.search = op[w].search
    BY <1>6 DEF OpType
  <1>9. Goto(w, o) /\ op'[w] = o
    BY <1>2, Facts DEF Goto
  <1> HIDE DEF o
  <1>10. MineNext(w, c) /\ VisibleNext(w, c)
    <2>1. MineNext(w, c)
      BY <1>1, <1>4, LocalsNext DEF MineNext
    <2>2. txn[w].epoch # 0
      BY <1>3 DEF OwnCtx
    <2> QED BY <1>4, <2>1, <2>2, FrameNext
  <1>11. GotoCtx(w, o)
    <2>1. o.pc # "fork"
      BY <1>2, <1>8
    <2> QED BY <1>1, <1>4, <1>5, <1>7, <1>8, <1>9, <1>10, <2>1, LocalsNext
            DEF GotoCtx
  <1>12. CallAt(w)'
    <2>1. txn'[w].root # Nil /\ txn'[w].epoch # 0
      BY <1>1, <1>4, LocalsNext
    <2>2. pc # "hang" => heap'[c].kids[b] # Nil
      BY <1>2, <1>4 DEF Kid
    <2> QED BY <1>1, <1>2, <1>5, <1>8, <1>9, <2>1, <2>2
            DEF CallAt, Kid, WritePc, InsertPc, GoalPc
  <1> QED BY <1>1, <1>4, <1>11, <1>12, GotoKeeps

\* Insert goes down through a child that matches.
LEMMA InsertDownStep ==
    ASSUME IInv, NEW w \in Writer, InsertDown(w)
    PROVE  IInv' /\ FrozenStays
  <1> DEFINE n == op[w].n
             b == Head(op[w].search)
             c == Kid(n, b)
             rest == Drop(op[w].search, Len(heap[c].prefix))
             o == [op[w] EXCEPT !.pc = "insert", !.parent = n, !.l = b,
                                !.n = c, !.search = rest]
  <1>1. /\ op[w].pc = "down" /\ op[w].pc \in WritePc
        /\ UNCHANGED <<heap, leaves, txn, epochCounter, notifier>>
        /\ UNCHANGED <<pub, rd, count>> /\ Goto(w, o)
    BY DEF InsertDown, At, Rest, WritePc, InsertPc, mem
  <1>2. /\ op[w] \in OpType /\ op[w].search \in Seq(Byte)
        /\ op[w].search # <<>> /\ n # Nil /\ n \in Nodes /\ c # Nil
        /\ txn[w].epoch # 0 /\ Visible(w, n) /\ Mine(w, n)
    <2>1. op[w] \in OpType /\ op[w].search # <<>> /\ n # Nil /\ c # Nil
          /\ txn[w].epoch # 0 /\ Visible(w, n) /\ Mine(w, n)
      BY <1>1, Facts DEF CallAt, CallVisible, CallOwns, WritePc, InsertPc
    <2> QED BY <2>1, Facts DEF OpType
  <1>3. b \in Byte /\ b \in Nat /\ c \in Ref /\ c \in Nodes /\ c \in Nat
        /\ n \in Nat
    <2>1. b \in Byte
      BY <1>2, HeadTailProperties
    <2>2. c \in Ref
      BY <1>2, <2>1, Facts DEF Kid
    <2> QED BY <1>2, <2>1, <2>2, Facts, ByteAssumption
  <1>4. rest \in Seq(Byte)
    <2>1. heap[c].prefix \in Seq(Byte)
      BY <1>3, Facts DEF NodeType
    <2>2. Len(heap[c].prefix) \in Nat /\ Len(op[w].search) \in Nat
      BY <1>2, <2>1
    <2> QED BY <1>2, <2>2, SubSeqProperties DEF Drop
  <1>5. Visible(w, c)
    <2>1. OwnedBelowOwned /\ Epochs
      BY DEF IInv, Ownership
    <2> QED BY <1>2, <1>3, <2>1 DEF OwnedBelowOwned, Visible, Kid
  <1>6. Frame(w) /\ NfOK(notifier')
    BY <1>1, <1>2, Facts, StillFrame DEF NfOK
  <1> HIDE DEF rest, c, b
  <1>7. o \in OpType
    BY <1>2, <1>3, <1>4 DEF OpType, WritePc, InsertPc
  <1>8. /\ o.n = c /\ o.pc = "insert" /\ o.m = op[w].m /\ o.parent = n
        /\ o.path = op[w].path
    BY <1>2 DEF OpType
  <1>9. op'[w] = o
    BY <1>1, Facts DEF Goto
  <1> HIDE DEF o
  <1>10. c \in 0..Len(heap') /\ VisibleNext(w, c)
         /\ n \in 0..Len(heap') /\ MineNext(w, n)
    <2>1. Len(heap') \in Nat /\ Nodes \subseteq 1..Len(heap')
      BY <1>1, <1>6, LocalsNext
    <2> QED BY <1>2, <1>3, <1>5, <1>6, <2>1, FrameNext
  <1>11. GotoCtx(w, o)
    BY <1>1, <1>6, <1>7, <1>8, <1>10, LocalsNext DEF GotoCtx
  <1>12. CallAt(w)'
    <2>1. txn'[w].root # Nil /\ txn'[w].epoch # 0 /\ c # Nil
      BY <1>1, <1>2, <1>6, LocalsNext
    <2> QED BY <1>8, <1>9, <2>1 DEF CallAt, WritePc, InsertPc, GoalPc
  <1> QED BY <1>1, <1>6, <1>11, <1>12, GotoKeeps


\* A node w makes from nothing.
LEMMA BuiltNew ==
    ASSUME IInv, NEW w \in Writer, NEW top \in Nat, NEW x \in NodeType,
           x.leaf = Nil, x.val # NoVal => x.lob = 1,
           \A b \in Byte : /\ x.kids[b] <= top
                           /\ x.kids[b] \in Nodes => Visible(w, x.kids[b])
    PROVE  Within(x, top, Len(leaves)) /\ Private(w, x)
  <1>1. Len(leaves) \in Nat
    BY Facts
  <1> QED BY <1>1 DEF Within, Private, Nil

\* A leaf that Insert hangs is a node.
LEMMA LeafNodeType ==
    ASSUME IInv, NEW w \in Writer, NEW top \in Nat, NEW prefix \in Seq(Byte),
           NEW v \in Nat
    PROVE  /\ leafNode(w, prefix, v) \in NodeType
           /\ leafNode(w, prefix, v).epoch = txn[w].epoch
           /\ leafNode(w, prefix, v).watch = "nil"
           /\ Within(leafNode(w, prefix, v), top, Len(leaves))
           /\ Private(w, leafNode(w, prefix, v))
  <1> DEFINE e == EmptyNode(txn[w].epoch)
             x == [e EXCEPT !.prefix = prefix, !.val = v, !.lob = 1]
  <1>1. txn[w].epoch \in Nat
    BY Facts
  <1>2. e \in NodeType /\ e.kids = NoKids
    BY <1>1, NewNodeType
  <1>3. e.epoch = txn[w].epoch /\ e.watch = "nil" /\ e.leaf = Nil
    BY DEF EmptyNode
  <1> HIDE DEF e
  <1>4. x \in NodeType
    BY <1>2 DEF NodeType
  <1>5. /\ x.epoch = txn[w].epoch /\ x.watch = "nil" /\ x.leaf = Nil
        /\ x.lob = 1 /\ x.kids = NoKids
    BY <1>2, <1>3 DEF NodeType
  <1>6. leafNode(w, prefix, v) = x
    BY DEF leafNode, e
  <1> HIDE DEF x
  <1>7. \A b \in Byte : x.kids[b] = Nil
    BY <1>5 DEF NoKids
  <1>8. Nil <= top /\ Nil \notin Nodes
    BY DEF Nil, Nodes
  <1>9. Within(x, top, Len(leaves)) /\ Private(w, x)
    BY <1>4, <1>5, <1>7, <1>8, BuiltNew
  <1> QED BY <1>4, <1>5, <1>6, <1>9

\* A step that builds the heap and changes nothing else.
LEMMA StoreFrame ==
    ASSUME IInv, NEW w \in Writer,
           Built(w, heap', Len(heap'), Len(leaves)),
           UNCHANGED <<leaves, txn, epochCounter>>
    PROVE  Frame(w)
  <1>1. Len(heap) \in Nat /\ Len(heap') \in Nat /\ Len(heap) <= Len(heap')
        /\ txn \in [Writer -> [root : Ref, epoch : Nat]]
        /\ leaves \in Seq(SlotState) /\ Len(leaves) \in Nat
    BY Facts DEF Built
  <1>2. txn' \in [Writer -> [root : 0..Len(heap'), epoch : Nat]]
    BY <1>1 DEF Ref
  <1> QED BY <1>1, <1>2 DEF Frame

\* Insert hangs a leaf where there is no child.
LEMMA InsertHangStep ==
    ASSUME IInv, NEW w \in Writer, InsertHang(w)
    PROVE  IInv' /\ FrozenStays
  <1> DEFINE n == op[w].n
             b == Head(op[w].search)
             x == leafNode(w, op[w].search, op[w].val)
             g == link(heap, n, b, New)
  <1>1. /\ op[w].pc = "hang" /\ op[w].pc \in WritePc
        /\ UNCHANGED <<leaves, txn, epochCounter, notifier>>
        /\ UNCHANGED <<pub, rd, count>> /\ Return(w, NoVal)
    BY DEF InsertHang, At, Rest, WritePc, InsertPc
  <1>2. /\ op[w] \in OpType /\ op[w].search \in Seq(Byte)
        /\ op[w].val \in Nat /\ n # Nil /\ n \in Nodes /\ n \in Ref
        /\ txn[w].epoch # 0 /\ Mine(w, n)
    <2>1. op[w] \in OpType /\ n # Nil /\ txn[w].epoch # 0 /\ Mine(w, n)
      BY <1>1, Facts DEF CallAt, CallOwns, WritePc, InsertPc
    <2> QED BY <2>1, Facts DEF OpType
  <1>3. heap' = Append(g, x)
    BY <1>2 DEF InsertHang, link
  <1>4. /\ heap \in Seq(NodeType) /\ Len(heap) \in Nat /\ New \in Nat
        /\ New = Len(heap) + 1 /\ Len(leaves) \in Nat /\ New \notin Nodes
        /\ n \in 0..Len(heap) /\ New \in 0..New
    BY <1>2, Facts DEF New, Nodes, Ref
  <1>5. /\ x \in NodeType /\ x.epoch = txn[w].epoch /\ x.watch = "nil"
        /\ Within(x, New, Len(leaves)) /\ Private(w, x)
    BY <1>2, <1>4, LeafNodeType
  <1>6. Built(w, heap, New, Len(leaves))
    BY <1>2, <1>4, BuiltBase
  <1>7. heap[n].epoch = txn[w].epoch
    BY <1>2 DEF Mine
  <1>8. Built(w, g, New, Len(leaves))
    BY <1>2, <1>4, <1>6, <1>7, BuiltLink
  <1>9. g \in Seq(NodeType) /\ Len(g) = Len(heap)
    BY <1>4, LinkType
  <1> HIDE DEF x, g
  <1>10. Built(w, heap', New, Len(leaves))
    BY <1>3, <1>4, <1>5, <1>8, BuiltAppend
  <1>11. Len(heap') = New
    BY <1>3, <1>4, <1>5, <1>9, AppendProperties
  <1>12. Frame(w)
    BY <1>1, <1>10, <1>11, StoreFrame
  <1>13. NfOK(notifier') /\ NoVal \in Nat
    BY <1>1, Facts DEF NoVal
  <1> QED BY <1>1, <1>12, <1>13, ReturnKeeps

\* Insert copies the child that it splits.
LEMMA InsertSplitCopyStep ==
    ASSUME IInv, NEW w \in Writer, InsertSplitCopy(w)
    PROVE  IInv' /\ FrozenStays
  <1> DEFINE n == op[w].n
             b == Head(op[w].search)
             child == Kid(n, b)
  <1>1. /\ op[w].pc = "split" /\ op[w].pc \in WritePc
        /\ UNCHANGED <<txn, epochCounter>> /\ UNCHANGED <<pub, rd, count>>
    BY DEF InsertSplitCopy, At, Rest, WritePc, InsertPc
  <1>2. /\ op[w] \in OpType /\ op[w].search \in Seq(Byte)
        /\ op[w].search # <<>> /\ n # Nil /\ n \in Nodes /\ child # Nil
        /\ txn[w].epoch # 0 /\ Visible(w, n) /\ Mine(w, n)
    <2>1. op[w] \in OpType /\ op[w].search # <<>> /\ n # Nil /\ child # Nil
          /\ txn[w].epoch # 0 /\ Visible(w, n) /\ Mine(w, n)
      BY <1>1, Facts DEF CallAt, CallVisible, CallOwns, WritePc, InsertPc
    <2> QED BY <2>1, Facts DEF OpType
  <1>3. child \in Ref /\ child \in Nodes /\ Visible(w, child)
    <2>1. b \in Byte
      BY <1>2, HeadTailProperties
    <2>2. child \in Ref
      BY <1>2, <2>1, Facts DEF Kid
    <2>3. OwnedBelowOwned
      BY DEF IInv, Ownership
    <2> QED BY <1>2, <2>1, <2>2, <2>3, Facts DEF OwnedBelowOwned, Visible, Kid
  <1>4. PICK m \in Nat :
            /\ Goto(w, [op[w] EXCEPT !.pc = "fork", !.m = m])
            /\ Frame(w) /\ NfOK(notifier')
            /\ m \in 1..Len(heap') /\ heap'[m].epoch = txn[w].epoch
    <2>1. CASE Owns(w, child) /\ UNCHANGED <<mem, notifier>>
               /\ Goto(w, [op[w] EXCEPT !.pc = "fork", !.m = child])
      <3>1. UNCHANGED <<heap, leaves, txn, epochCounter>>
        BY <1>1, <2>1 DEF mem
      <3>2. Frame(w)
        BY <1>2, <3>1, StillFrame
      <3> QED BY <1>3, <2>1, <3>1, <3>2, Facts DEF Owns, Nodes
    <2>2. CASE /\ ~Owns(w, child) /\ MakeLeaf(w, child)
               /\ heap' = Append(WithLeaf(w, child), copyNode(w, child, 0))
               /\ notifier' = dropNode(w, notifier, child)
               /\ Goto(w, [op[w] EXCEPT !.pc = "fork", !.m = New])
      <3> DEFINE x == copyNode(w, child, 0)
                 g == WithLeaf(w, child)
      <3>0. /\ New \in Nat /\ Len(heap) <= New /\ Nil \in Ref
            /\ heap \in Seq(NodeType) /\ New = Len(heap) + 1
            /\ Len(leaves) \in Nat /\ Len(heap) \in Nat
        BY Facts DEF New, Ref, Nil
      <3>1. 0 \in 0..(Cardinality(Byte) + 1)
        BY ByteAssumption, FS_CardinalityType
      <3>2. x \in NodeType /\ x.epoch = txn[w].epoch /\ x.watch = "nil"
            /\ x.kids = heap[child].kids /\ x.val = heap[child].val
            /\ x.lob = 0 /\ x.leaf = shareLeaf(w, child)
        BY <1>3, <3>1, CopyType
      <3>3. /\ Built(w, g, New, Len(leaves')) /\ Len(g) = Len(heap)
            /\ leaves' \in Seq(SlotState) /\ Len(leaves') \in Nat
            /\ Len(leaves) <= Len(leaves')
            /\ shareLeaf(w, child) \in 0..Len(leaves')
        BY <1>2, <1>3, <2>2, <3>0, BuiltWithLeaf
      <3>4. heap[child].val # NoVal => shareLeaf(w, child) # Nil
        BY <2>2, <3>0 DEF shareLeaf, NeedsLeaf, Nil
      <3>5. heap' = Append(link(g, Nil, 0, New), x)
        BY <2>2 DEF link
      <3> HIDE DEF x, g
      <3>6. x.leaf <= Len(leaves') /\ x.lob # 1 /\ (x.val # NoVal => x.leaf # Nil)
        BY <3>2, <3>3, <3>4
      <3>7. CopyCtx(w, child, Nil, 0, g, x)
        BY <1>1, <1>2, <1>3, <3>0, <3>2, <3>3, <3>5, <3>6 DEF CopyCtx
      <3>8. Frame(w) /\ Len(heap') = Len(heap) + 1 /\ heap'[New] = x
        BY <3>7, CopyFrame
      <3>9. NfOK(notifier')
        BY <1>3, <2>2, <3>0, NotOwnedIsFrozen, DropNode, Facts
      <3>10. New \in 1..Len(heap') /\ heap'[New].epoch = txn[w].epoch
        BY <3>0, <3>2, <3>8
      <3>11. New \in Nat
        BY <3>0
      <3> WITNESS New \in Nat
      <3> QED BY <2>2, <3>8, <3>9, <3>10
    <2> QED BY <2>1, <2>2 DEF InsertSplitCopy
  <1> DEFINE o == [op[w] EXCEPT !.pc = "fork", !.m = m]
  <1>5. o \in OpType
    BY <1>2 DEF OpType, WritePc, InsertPc
  <1>6. /\ o.n = n /\ o.pc = "fork" /\ o.m = m /\ o.parent = op[w].parent
        /\ o.path = op[w].path /\ o.search = op[w].search
    BY <1>2 DEF OpType
  <1>7. Goto(w, o) /\ op'[w] = o
    BY <1>4, Facts DEF Goto
  <1> HIDE DEF o
  <1>8. MineNext(w, m) /\ VisibleNext(w, m) /\ m \in 0..Len(heap') /\ m # Nil
    <2>1. MineNext(w, m)
      BY <1>1, <1>4, LocalsNext DEF MineNext
    <2> QED BY <1>2, <1>4, <2>1, FrameNext DEF Nil
  <1>9. GotoCtx(w, o)
    BY <1>1, <1>4, <1>5, <1>6, <1>7, <1>8, LocalsNext DEF GotoCtx
  <1>10. CallAt(w)'
    <2>1. txn'[w].root # Nil /\ txn'[w].epoch # 0
      BY <1>1, <1>4, LocalsNext
    <2> QED BY <1>2, <1>6, <1>7, <1>8, <2>1
            DEF CallAt, WritePc, InsertPc, GoalPc
  <1> QED BY <1>1, <1>4, <1>9, <1>10, GotoKeeps


\* What is left of a segment is a segment.
LEMMA DropType ==
    ASSUME NEW s \in Seq(Byte), NEW i \in Nat
    PROVE  Drop(s, i) \in Seq(Byte)
  <1>1. Len(s) \in Nat /\ i + 1 \in Nat
    OBVIOUS
  <1> QED BY <1>1, SubSeqProperties DEF Drop

\* A node with one child pointer replaced has only children it had and that one.
LEMMA KidsExcept ==
    ASSUME NEW f \in [Byte -> Nat], NEW b, NEW c \in Nat
    PROVE  /\ [f EXCEPT ![b] = c] \in [Byte -> Nat]
           /\ \A d \in Byte : \/ [f EXCEPT ![b] = c][d] = f[d]
                              \/ [f EXCEPT ![b] = c][d] = c
  OBVIOUS

\* Insert links the split: the lower half, the new inner node, the leaf.
LEMMA InsertSplitStep ==
    ASSUME IInv, NEW w \in Writer, InsertSplit(w)
    PROVE  IInv' /\ FrozenStays
  <1> DEFINE n == op[w].n
             m == op[w].m
             search == op[w].search
             prefix == heap[m].prefix
             b == Head(search)
  <1>1. /\ op[w].pc = "fork" /\ op[w].pc \in WritePc
        /\ UNCHANGED <<leaves, txn, epochCounter, notifier>>
        /\ UNCHANGED <<pub, rd, count>> /\ Return(w, NoVal)
    BY DEF InsertSplit, At, Rest, WritePc, InsertPc
  <1>2. /\ search \in Seq(Byte) /\ op[w].val \in Nat
        /\ n # Nil /\ n \in Nodes /\ m # Nil /\ m \in Nodes /\ m \in Nat
        /\ txn[w].epoch # 0 /\ Mine(w, n) /\ Mine(w, m) /\ Visible(w, m)
        /\ heap[m] \in NodeType /\ prefix \in Seq(Byte)
    <2>1. op[w] \in OpType /\ n # Nil /\ m # Nil /\ txn[w].epoch # 0
          /\ Mine(w, n) /\ Mine(w, m) /\ Visible(w, m)
      BY <1>1, Facts DEF CallAt, CallOwns, CallVisible, WritePc, InsertPc
    <2>2. n \in Nodes /\ m \in Nodes
      BY <2>1, Facts
    <2>3. heap[m] \in NodeType /\ m \in Nat
      BY <2>2, Facts
    <2> QED BY <2>1, <2>2, <2>3 DEF OpType, NodeType
  <1>3. PICK common \in 1..(Len(prefix) - 1) :
            LET split == [EmptyNode(txn[w].epoch) EXCEPT
                            !.prefix = SubSeq(prefix, 1, common),
                            !.kids = [@ EXCEPT ![prefix[common + 1]] = m],
                            !.cap = Class(2)]
                h == [[heap EXCEPT ![m].prefix = Drop(prefix, common)]
                        EXCEPT ![n].kids[b] = New]
            IN  \/ heap' = Append(h, [split EXCEPT !.val = op[w].val,
                                                   !.lob = 1])
                \/ /\ common < Len(search)
                   /\ heap' = Append(Append(h,
                        [split EXCEPT !.kids[search[common + 1]] = New + 1]),
                        leafNode(w, Drop(search, common), op[w].val))
    BY DEF InsertSplit
  <1> DEFINE x == [heap[m] EXCEPT !.prefix = Drop(prefix, common)]
             f == [heap EXCEPT ![m] = x]
             h == link(f, n, b, New)
             e == EmptyNode(txn[w].epoch)
             kids == [e.kids EXCEPT ![prefix[common + 1]] = m]
             split == [e EXCEPT !.prefix = SubSeq(prefix, 1, common),
                                !.kids = kids, !.cap = Class(2)]
             y == [split EXCEPT !.val = op[w].val, !.lob = 1]
             z == [split EXCEPT !.kids = [kids EXCEPT
                                            ![search[common + 1]] = New + 1]]
             leaf == leafNode(w, Drop(search, common), op[w].val)
  <1>4. /\ Len(prefix) \in Nat /\ Len(search) \in Nat /\ common \in Nat
        /\ common + 1 \in 1..Len(prefix) /\ prefix[common + 1] \in Byte
        /\ SubSeq(prefix, 1, common) \in Seq(Byte)
        /\ Drop(prefix, common) \in Seq(Byte)
        /\ Drop(search, common) \in Seq(Byte)
    <2>1. Len(prefix) \in Nat /\ Len(search) \in Nat
      BY <1>2
    <2>2. common \in Nat /\ common + 1 \in 1..Len(prefix)
          /\ common \in 1..Len(prefix)
      BY <2>1
    <2>3. prefix[common + 1] \in Byte
      BY <1>2, <2>2
    <2>4. SubSeq(prefix, 1, common) \in Seq(Byte)
      BY <1>2, <2>1, <2>2, SubSeqProperties
    <2>5. Drop(prefix, common) \in Seq(Byte) /\ Drop(search, common) \in Seq(Byte)
      BY <1>2, <2>2, DropType
    <2> QED BY <2>1, <2>2, <2>3, <2>4, <2>5
  <1>5. \/ heap' = Append(h, y)
        \/ heap' = Append(Append(h, z), leaf)
    <2>1. h = [[heap EXCEPT ![m].prefix = Drop(prefix, common)]
                     EXCEPT ![n].kids[b] = New]
      BY <1>2 DEF link
    <2>2. split.kids = kids
      BY DEF EmptyNode
    <2> QED BY <1>3, <2>1, <2>2
  <1>6. /\ heap \in Seq(NodeType) /\ Len(heap) \in Nat /\ New \in Nat
        /\ New = Len(heap) + 1 /\ Len(leaves) \in Nat
        /\ New \notin Nodes /\ New + 1 \notin Nodes
        /\ m \in 1..Len(heap) /\ n \in 0..Len(heap)
        /\ n \in 1..Len(heap) /\ txn[w].epoch \in Nat
    BY <1>2, Facts DEF New, Nodes
  <1>7. ASSUME NEW top \in Nat, New <= top
        PROVE  /\ Built(w, h, top, Len(leaves)) /\ Len(h) = Len(heap)
               /\ h \in Seq(NodeType)
    <2>1. x \in NodeType
      BY <1>2, <1>4 DEF NodeType
    <2>2. /\ x.epoch = heap[m].epoch /\ x.watch = heap[m].watch
          /\ x.kids = heap[m].kids /\ x.leaf = heap[m].leaf
          /\ x.val = heap[m].val /\ x.lob = heap[m].lob
      BY <1>2 DEF NodeType
    <2> HIDE DEF x
    <2>3. Built(w, heap, top, Len(leaves))
      BY <1>2, <1>6, <1>7, BuiltBase
    <2>4. heap[m].epoch = txn[w].epoch
      BY <1>2 DEF Mine
    <2>5. Within(x, top, Len(leaves)) /\ Private(w, x)
      <3>1. Within(heap[m], top, Len(leaves)) /\ Private(w, heap[m])
        BY <1>6, <2>3, <2>4 DEF Built
      <3> QED BY <2>2, <3>1 DEF Within, Private
    <2>6. Built(w, f, top, Len(leaves))
      BY <1>2, <1>6, <2>1, <2>2, <2>3, <2>4, <2>5, BuiltReplace
    <2>7. f \in Seq(NodeType) /\ Len(f) = Len(heap)
          /\ \A j \in 1..Len(heap) : f[j] = IF j = m THEN x ELSE heap[j]
      BY <1>6, <2>1, ExceptSeq
    <2>8. f[n].epoch = txn[w].epoch
      BY <1>2, <1>6, <2>2, <2>7 DEF Mine
    <2> HIDE DEF f
    <2>9. n \in 0..Len(f) /\ New \in 0..top
      BY <1>6, <1>7, <2>7
    <2>10. Built(w, h, top, Len(leaves))
      BY <1>2, <1>6, <2>6, <2>8, <2>9, BuiltLink
    <2>11. Len(h) = Len(heap) /\ h \in Seq(NodeType)
      BY <1>6, <2>7, <2>9, LinkType
    <2> QED BY <2>10, <2>11
  <1>8. /\ split \in NodeType /\ split.epoch = txn[w].epoch
        /\ split.watch = "nil" /\ split.leaf = Nil /\ split.val = NoVal
        /\ split.kids = kids /\ kids \in [Byte -> Nat]
        /\ \A c \in Byte : kids[c] = Nil \/ kids[c] = m
    <2>1. e \in NodeType /\ e.kids = NoKids
      BY <1>6, NewNodeType
    <2>2. e.epoch = txn[w].epoch /\ e.watch = "nil" /\ e.leaf = Nil
          /\ e.val = NoVal
      BY DEF EmptyNode
    <2> HIDE DEF e
    <2>3. kids \in [Byte -> Nat] /\ \A c \in Byte : kids[c] = Nil \/ kids[c] = m
      BY <1>2, <2>1 DEF NoKids, Nil
    <2>4. Class(2) \in Nat
      <3>1. Cardinality(Byte) \in Nat /\ Cardinality(Byte) # 0
        BY <1>4, ByteAssumption, FS_CardinalityType, FS_EmptySet
      <3>2. 2 \in 0..(2 * Cardinality(Byte) + 1)
        BY <3>1
      <3> QED BY <3>2, ClassType
    <2> HIDE DEF kids
    <2>5. split \in NodeType
      BY <1>4, <2>1, <2>3, <2>4 DEF NodeType
    <2> QED BY <2>1, <2>2, <2>3, <2>5 DEF NodeType
  <1>9. Nil <= New /\ Nil \notin Nodes /\ m <= New
    BY <1>6 DEF Nil, Nodes
  <1> HIDE DEF h, e, kids, split
  <1>10. ASSUME heap' = Append(h, y) PROVE Frame(w)
    <2>1. y \in NodeType
      BY <1>2, <1>8 DEF NodeType
    <2>2. /\ y.epoch = split.epoch /\ y.watch = split.watch
          /\ y.leaf = split.leaf /\ y.lob = 1 /\ y.kids = kids
      BY <1>8 DEF NodeType
    <2> HIDE DEF y
    <2>3. \A c \in Byte : y.kids[c] <= New
                          /\ (y.kids[c] \in Nodes => Visible(w, y.kids[c]))
      BY <1>2, <1>6, <1>8, <1>9, <2>2
    <2>4. Within(y, New, Len(leaves)) /\ Private(w, y)
      BY <1>6, <1>8, <2>1, <2>2, <2>3, BuiltNew
    <2>5. Built(w, h, New, Len(leaves)) /\ Len(h) = Len(heap)
          /\ h \in Seq(NodeType)
      BY <1>6, <1>7
    <2>6. Built(w, heap', New, Len(leaves))
      BY <1>6, <1>8, <1>10, <2>1, <2>2, <2>4, <2>5, BuiltAppend
    <2>7. Len(heap') = New
      BY <1>6, <1>10, <2>1, <2>5, AppendProperties
    <2> QED BY <1>1, <2>6, <2>7, StoreFrame
  <1>11. ASSUME heap' = Append(Append(h, z), leaf) PROVE Frame(w)
    <2> DEFINE top == New + 1
               zkids == [kids EXCEPT ![search[common + 1]] = New + 1]
    <2>1. top \in Nat /\ New <= top /\ top \notin Nodes
      BY <1>6
    <2>2. zkids \in [Byte -> Nat]
          /\ \A c \in Byte : zkids[c] = kids[c] \/ zkids[c] = top
      BY <1>8, <2>1, KidsExcept
    <2> HIDE DEF zkids
    <2>3. z \in NodeType
      BY <1>8, <2>2 DEF NodeType, zkids
    <2>4. /\ z.epoch = split.epoch /\ z.watch = split.watch
          /\ z.leaf = split.leaf /\ z.val = NoVal /\ z.kids = zkids
      BY <1>8 DEF NodeType, zkids
    <2> HIDE DEF z, top
    <2>5. \A c \in Byte : z.kids[c] <= top
                          /\ (z.kids[c] \in Nodes => Visible(w, z.kids[c]))
      <3>1. ASSUME NEW c \in Byte
            PROVE  z.kids[c] = Nil \/ z.kids[c] = m \/ z.kids[c] = top
        BY <1>8, <2>2, <2>4
      <3>2. Nil <= top /\ m <= top /\ top <= top
        BY <1>6, <1>9, <2>1 DEF Nil
      <3> QED BY <1>2, <1>9, <2>1, <3>1, <3>2
    <2>6. Within(z, top, Len(leaves)) /\ Private(w, z)
      BY <1>8, <2>1, <2>3, <2>4, <2>5, BuiltNew
    <2>7. Built(w, h, top, Len(leaves)) /\ Len(h) = Len(heap)
          /\ h \in Seq(NodeType)
      BY <1>7, <2>1
    <2>8. Built(w, Append(h, z), top, Len(leaves))
      BY <1>6, <1>8, <2>1, <2>3, <2>4, <2>6, <2>7, BuiltAppend
    <2>9. Append(h, z) \in Seq(NodeType) /\ Len(Append(h, z)) = New
      BY <1>6, <2>3, <2>7, AppendProperties
    <2>10. /\ leaf \in NodeType /\ leaf.epoch = txn[w].epoch
           /\ leaf.watch = "nil" /\ Within(leaf, top, Len(leaves))
           /\ Private(w, leaf)
      BY <1>2, <1>4, <2>1, LeafNodeType
    <2> HIDE DEF leaf
    <2>11. Built(w, heap', top, Len(leaves))
      BY <1>6, <1>11, <2>1, <2>8, <2>10, BuiltAppend
    <2>12. Len(heap') = top
      BY <1>6, <1>11, <2>9, <2>10, AppendProperties DEF top
    <2> QED BY <1>1, <2>11, <2>12, StoreFrame
  <1>12. Frame(w)
    BY <1>5, <1>10, <1>11
  <1>13. NfOK(notifier') /\ NoVal \in Nat
    BY <1>1, Facts DEF NoVal
  <1> QED BY <1>1, <1>12, <1>13, ReturnKeeps


\* A child of a node w sees is one w sees.
LEMMA KidVisible ==
    ASSUME IInv, NEW w \in Writer, NEW n \in Nodes, Visible(w, n),
           NEW b \in Byte, Kid(n, b) # Nil
    PROVE  Kid(n, b) \in Nodes /\ Visible(w, Kid(n, b))
  <1>1. OwnedBelowOwned
    BY DEF IInv, Ownership
  <1>2. Kid(n, b) \in Ref
    BY Facts DEF Kid
  <1> QED BY <1>1, <1>2, Facts DEF OwnedBelowOwned, Visible, Kid

\* The switch of Delete and DeletePrefix only chooses what to do next.
RemoveCtx(w, pc, goal) ==
    /\ op[w].pc = "remove" /\ UNCHANGED <<heap, leaves, txn, epochCounter>>
    /\ UNCHANGED <<pub, rd, count>> /\ NfOK(notifier')
    /\ Goto(w, [op[w] EXCEPT !.pc = pc, !.goal = goal])
    /\ \/ pc = "clear" /\ goal \in GoalPc \cup {"none"}
       \/ /\ pc = "ownpath" /\ goal \in GoalPc /\ op[w].path # <<>>
          /\ goal = "pull" => Len(op[w].path) > 1
          /\ goal = "fold" => op[w].call = "Delete"

\* Delete and DeletePrefix have found what goes, and turn to what to do about it.
LEMMA RemoveKeeps ==
    ASSUME IInv, NEW w \in Writer, NEW pc, NEW goal, RemoveCtx(w, pc, goal)
    PROVE  IInv' /\ FrozenStays
  <1> DEFINE o == [op[w] EXCEPT !.pc = pc, !.goal = goal]
  <1> USE DEF RemoveCtx
  <1>1. op[w].pc = "remove" /\ op[w].pc \in WritePc
    BY DEF WritePc
  <1>2. /\ txn[w].epoch # 0 /\ op[w] \in OpType /\ op[w].m # Nil
        /\ op[w].call = "Delete" => heap[op[w].m].val # NoVal
    BY <1>1, Facts DEF CallAt
  <1>3. Frame(w)
    BY <1>2, StillFrame
  <1>4. o \in OpType
    BY <1>2 DEF OpType, WritePc, GoalPc
  <1>5. /\ o.pc = pc /\ o.goal = goal /\ o.n = op[w].n /\ o.m = op[w].m
        /\ o.parent = op[w].parent /\ o.path = op[w].path
        /\ o.call = op[w].call
    BY <1>2 DEF OpType
  <1>6. Goto(w, o) /\ op'[w] = o
    BY Facts DEF Goto
  <1> HIDE DEF o
  <1>7. GotoCtx(w, o)
    <2>1. o.pc \notin {"hang", "down", "split", "fork"}
      BY <1>5
    <2> QED BY <1>1, <1>3, <1>4, <1>5, <1>6, <2>1, LocalsNext DEF GotoCtx
  <1>8. CallAt(w)'
    <2>1. txn'[w].root # Nil /\ txn'[w].epoch # 0
      BY <1>1, <1>3, LocalsNext
    <2>2. pc = "ownpath" => Len(op[w].path) >= IF goal = "pull" THEN 2 ELSE 1
      <3>1. op[w].path \in Seq([n : Nat \ {0}, l : Nat])
        BY <1>2 DEF OpType, PathType
      <3>2. Len(op[w].path) \in Nat
            /\ (op[w].path # <<>> => Len(op[w].path) # 0)
        BY <3>1, EmptySeq
      <3> QED BY <3>2
    <2> QED BY <1>2, <1>5, <1>6, <2>1, <2>2
            DEF CallAt, WritePc, InsertPc, GoalPc
  <1> QED BY <1>1, <1>3, <1>7, <1>8, GotoKeeps

\* unlink cuts or pulls.
LEMMA UnlinkGoal ==
    ASSUME NEW path
    PROVE  \/ unlinkGoal(path) = "cut"
           \/ unlinkGoal(path) = "pull" /\ Len(path) > 1
  BY DEF unlinkGoal

\* How Delete goes on from root, leaf and inner node, and DeletePrefix from a subtree.
LEMMA DeleteSwitchStep ==
    ASSUME IInv, NEW w \in Writer,
           DeleteRoot(w) \/ DeleteLeaf(w) \/ DeleteInner(w) \/ DeleteSubtree(w)
    PROVE  IInv' /\ FrozenStays
  <1> DEFINE m == op[w].m
  <1>1. /\ op[w].pc = "remove" /\ UNCHANGED <<heap, leaves, txn, epochCounter>>
        /\ UNCHANGED <<pub, rd, count>>
    BY DEF DeleteRoot, DeleteLeaf, DeleteInner, DeleteSubtree, At, Rest, mem
  <1>2. /\ txn[w].epoch # 0 /\ op[w] \in OpType /\ m \in Nodes
        /\ Visible(w, m) /\ NfOK(notifier)
        /\ op[w].call = "Delete" => heap[m].val # NoVal
    <2>1. m # Nil /\ txn[w].epoch # 0
          /\ (op[w].call = "Delete" => heap[m].val # NoVal)
      BY <1>1, Facts DEF CallAt, WritePc
    <2> QED BY <2>1, Facts DEF CallVisible
  <1>3. CASE DeleteRoot(w)
    <2> DEFINE goal == op[w].goal
    <2>1. op[w].goal \in GoalPc \cup {"none"}
          /\ op[w] = [op[w] EXCEPT !.goal = op[w].goal]
      BY <1>2 DEF OpType
    <2>2. Goto(w, [op[w] EXCEPT !.pc = "clear"]) /\ notifier' = notifier
      BY <1>3 DEF DeleteRoot
    <2>3. [op[w] EXCEPT !.pc = "clear"]
              = [op[w] EXCEPT !.pc = "clear", !.goal = goal]
      BY <1>2 DEF OpType
    <2>4. RemoveCtx(w, "clear", goal)
      BY <1>1, <1>2, <2>1, <2>2, <2>3 DEF RemoveCtx
    <2> QED BY <2>4, RemoveKeeps
  <1>4. CASE DeleteLeaf(w)
    <2>1. NfOK(notifier')
      BY <1>2, <1>4, DropWithLeaf DEF DeleteLeaf
    <2>2. RemoveCtx(w, "ownpath", unlinkGoal(op[w].path))
      BY <1>1, <1>4, <2>1, UnlinkGoal
         DEF RemoveCtx, DeleteLeaf, OwnPathFor, GoalPc
    <2> QED BY <2>2, RemoveKeeps
  <1>5. CASE DeleteInner(w)
    <2> DEFINE goal == IF KidCount(m) = 1 THEN "fold" ELSE "clear"
    <2>1. RemoveCtx(w, "ownpath", goal)
      BY <1>1, <1>2, <1>5 DEF RemoveCtx, DeleteInner, OwnPathFor, GoalPc
    <2> QED BY <2>1, RemoveKeeps
  <1>6. CASE DeleteSubtree(w)
    <2>1. NfOK(notifier')
      BY <1>2, <1>6, DropSubtree DEF DeleteSubtree
    <2>2. RemoveCtx(w, "ownpath", unlinkGoal(op[w].path))
      BY <1>1, <1>6, <2>1, UnlinkGoal
         DEF RemoveCtx, DeleteSubtree, OwnPathFor, GoalPc
    <2> QED BY <2>2, RemoveKeeps
  <1> QED BY <1>3, <1>4, <1>5, <1>6

\* DeletePrefix takes the whole tree.
LEMMA DeleteAllStep ==
    ASSUME IInv, NEW w \in Writer, DeleteAll(w)
    PROVE  IInv' /\ FrozenStays
  <1> DEFINE m == op[w].m
             x == EmptyNode(txn[w].epoch)
  <1>1. /\ op[w].pc = "remove" /\ op[w].pc \in WritePc
        /\ UNCHANGED <<leaves, epochCounter>> /\ UNCHANGED <<pub, rd, count>>
        /\ heap' = Append(heap, x) /\ txn' = [txn EXCEPT ![w].root = New]
        /\ notifier' = dropSubtree(w, notifier, m) /\ Return(w, op[w].val)
    BY DEF DeleteAll, At, Rest, WritePc
  <1>2. /\ txn[w].epoch # 0 /\ m \in Nodes /\ Visible(w, m) /\ NfOK(notifier)
        /\ op[w].val \in Nat /\ New = Len(heap) + 1 /\ New \in Nat
        /\ heap \in Seq(NodeType) /\ Len(heap) \in Nat /\ Len(leaves) \in Nat
        /\ leaves \in Seq(SlotState) /\ txn[w].epoch \in Nat
        /\ txn \in [Writer -> [root : Ref, epoch : Nat]]
    <2>1. m # Nil /\ txn[w].epoch # 0 /\ op[w] \in OpType
      BY <1>1, Facts DEF CallAt, WritePc
    <2> QED BY <2>1, Facts DEF CallVisible, OpType, New
  <1>3. NfOK(notifier')
    BY <1>1, <1>2, DropSubtree
  <1>4. x \in NodeType /\ x.kids = NoKids /\ x.leaf = Nil /\ x.val = NoVal
        /\ x.epoch = txn[w].epoch /\ x.watch = "nil"
    BY <1>2, NewNodeType DEF EmptyNode
  <1> HIDE DEF x
  <1>5. \A b \in Byte : x.kids[b] <= New
                        /\ (x.kids[b] \in Nodes => Visible(w, x.kids[b]))
    BY <1>2, <1>4 DEF NoKids, Nil, Nodes
  <1>6. Within(x, New, Len(leaves)) /\ Private(w, x)
    BY <1>2, <1>4, <1>5, BuiltNew
  <1>7. Built(w, heap, New, Len(leaves))
    <2>1. Len(heap) <= New /\ Len(leaves) <= Len(leaves)
      BY <1>2
    <2> HIDE DEF New
    <2> QED BY <1>2, <2>1, BuiltBase
  <1>8. Built(w, heap', New, Len(leaves)) /\ Len(heap') = New
    <2>1. Len(heap') = New
      BY <1>1, <1>2, <1>4, AppendProperties
    <2>2. Built(w, Append(heap, x), New, Len(leaves))
      BY <1>2, <1>4, <1>6, <1>7, BuiltAppend
    <2> QED BY <1>1, <2>1, <2>2
  <1>9. Ref \subseteq 0..Len(heap') /\ New \in 0..Len(heap')
        /\ New \in 1..Len(heap') /\ New \notin Nodes
    BY <1>2, <1>8 DEF Ref, Nodes
  <1>10. /\ txn' \in [Writer -> [root : 0..Len(heap'), epoch : Nat]]
         /\ \A v \in Writer : /\ txn'[v].epoch = txn[v].epoch
                              /\ v # w => txn'[v].root = txn[v].root
         /\ txn'[w].root = New
    <2>1. txn \in [Writer -> [root : 0..Len(heap'), epoch : Nat]]
      BY <1>2, <1>9
    <2> QED BY <1>1, <1>9, <2>1
  <1>11. Frame(w)
    BY <1>1, <1>2, <1>8, <1>9, <1>10 DEF Frame
  <1> QED BY <1>1, <1>2, <1>3, <1>11, ReturnKeeps


\* ownPath owns one more level of the path.
LEMMA OwnPathStep ==
    ASSUME IInv, NEW w \in Writer, OwnPath(w)
    PROVE  IInv' /\ FrozenStays
  <1> DEFINE path == op[w].path
             n == Head(path).n
             l == Head(path).l
             c == ownResult(w, n, 0)
             last == IF op[w].goal = "pull" THEN 2 ELSE 1
             pc == IF Len(path) = last THEN op[w].goal ELSE "ownpath"
             o == [op[w] EXCEPT !.parent = c, !.l = l, !.path = Tail(path),
                                !.pc = pc]
  <1>1. /\ op[w].pc = "ownpath" /\ op[w].pc \in WritePc
        /\ epochCounter' = epochCounter /\ UNCHANGED <<pub, rd, count>>
        /\ own(w, n, 0) /\ Goto(w, o)
    BY DEF OwnPath, At, Rest, WritePc
  <1>2. /\ op[w] \in OpType /\ path \in PathType /\ txn[w].epoch # 0
        /\ op[w].goal \in GoalPc /\ op[w].m # Nil /\ op[w].m \in Nodes
        /\ Len(path) \in Nat /\ Len(path) >= last
        /\ op[w].goal = "fold" => heap[op[w].m].val # NoVal
    <2>1. op[w].m # Nil /\ txn[w].epoch # 0 /\ op[w] \in OpType
          /\ op[w].goal \in GoalPc /\ Len(path) >= last
          /\ (op[w].goal = "fold" => heap[op[w].m].val # NoVal)
      BY <1>1, Facts DEF CallAt, WritePc
    <2>2. op[w].m \in Nodes
      BY <2>1, Facts
    <2> QED BY <2>1, <2>2 DEF OpType, PathType
  <1>3. /\ path # <<>> /\ Head(path) = path[1] /\ 1 \in 1..Len(path)
        /\ Tail(path) \in PathType /\ Len(Tail(path)) = Len(path) - 1
        /\ \A i \in 1..Len(Tail(path)) :
              i + 1 \in 1..Len(path) /\ Tail(path)[i] = path[i + 1]
    <2>1. path # <<>> /\ 1 \in 1..Len(path)
      BY <1>2
    <2> QED BY <1>2, <2>1, HeadTailProperties DEF PathType
  <1>4. n \in Nodes /\ Visible(w, n) /\ l \in Nat
    <2>1. path[1] \in [n : Nat \ {0}, l : Nat]
      <3>1. path \in Seq([n : Nat \ {0}, l : Nat]) /\ 1 \in 1..Len(path)
        BY <1>2, <1>3 DEF PathType
      <3> HIDE DEF path
      <3> QED BY <3>1, ElementOfSeq
    <2>2. path[1].n \in Nodes /\ Visible(w, path[1].n)
      BY <1>3, Facts DEF CallVisible
    <2> QED BY <1>3, <2>1, <2>2
  <1>5. OwnCtx(w, n)
    BY <1>1, <1>2, <1>4 DEF OwnCtx
  <1> HIDE DEF n, l, path
  <1>6. /\ Frame(w) /\ NfOK(notifier')
        /\ c \in 1..Len(heap') /\ heap'[c].epoch = txn[w].epoch
        /\ \A i \in Nodes : heap'[i].val = heap[i].val
    BY <1>1, <1>5, OwnFrame
  <1> HIDE DEF c
  <1>7. pc \in GoalPc \cup {"ownpath"}
    BY <1>2
  <1>8. c \in Nat /\ c # Nil /\ c \in 0..Len(heap')
    <2>1. Len(heap') \in Nat
      BY <1>6 DEF Frame, Built
    <2> QED BY <1>6, <2>1 DEF Nil
  <1> HIDE DEF pc
  <1>9. o \in OpType
    BY <1>2, <1>3, <1>4, <1>7, <1>8 DEF OpType, WritePc
  <1>10. /\ o.pc = pc /\ o.parent = c /\ o.path = Tail(path)
         /\ o.n = op[w].n /\ o.m = op[w].m /\ o.goal = op[w].goal
    BY <1>2 DEF OpType
  <1>11. op'[w] = o
    BY <1>1, Facts DEF Goto
  <1> HIDE DEF o
  <1>12. MineNext(w, c)
    BY <1>1, <1>6, LocalsNext DEF MineNext
  <1>13. GotoCtx(w, o)
    <2>1. o.pc \notin {"hang", "down", "split", "fork"}
      BY <1>7, <1>10 DEF GoalPc
    <2>2. \A i \in 1..Len(path) : /\ path[i].n \in 1..Len(heap')
                                  /\ VisibleNext(w, path[i].n)
      BY <1>1, <1>6, LocalsNext DEF path
    <2> QED BY <1>1, <1>3, <1>6, <1>8, <1>9, <1>10, <1>12, <2>1, <2>2,
               LocalsNext DEF GotoCtx
  <1>14. CallAt(w)'
    <2>1. txn'[w].root # Nil /\ txn'[w].epoch # 0
      BY <1>1, <1>6, LocalsNext
    <2>2. pc = "pull" => Tail(path) # <<>>
      BY <1>2, <1>3 DEF pc
    <2>3. pc = "ownpath" => /\ op[w].goal \in GoalPc
                            /\ Len(Tail(path)) >= last
      BY <1>2, <1>3 DEF pc, GoalPc
    <2>4. pc = "fold" \/ (pc = "ownpath" /\ op[w].goal = "fold") =>
             heap'[op[w].m].val # NoVal
      BY <1>2, <1>6 DEF pc
    <2> QED BY <1>2, <1>7, <1>8, <1>10, <1>11, <2>1, <2>2, <2>3, <2>4
            DEF CallAt, WritePc, InsertPc, GoalPc
  <1> QED BY <1>1, <1>6, <1>13, <1>14, GotoKeeps

\* unlink takes a child out of its parent.
LEMMA CutStep ==
    ASSUME IInv, NEW w \in Writer, Cut(w)
    PROVE  IInv' /\ FrozenStays
  <1> DEFINE p == op[w].parent
  <1>1. /\ op[w].pc = "cut" /\ op[w].pc \in WritePc
        /\ UNCHANGED <<leaves, txn, epochCounter, notifier>>
        /\ UNCHANGED <<pub, rd, count>> /\ Return(w, op[w].val)
    BY DEF Cut, At, Rest, WritePc, GoalPc
  <1>2. /\ txn[w].epoch # 0 /\ p # Nil /\ p \in Ref /\ Mine(w, p)
        /\ op[w].val \in Nat /\ heap \in Seq(NodeType) /\ Len(heap) \in Nat
        /\ Len(leaves) \in Nat /\ NfOK(notifier)
    <2>1. p # Nil /\ txn[w].epoch # 0 /\ op[w] \in OpType
      BY <1>1, Facts DEF CallAt, WritePc, GoalPc
    <2> QED BY <2>1, Facts DEF CallOwns, OpType
  <1>3. heap' = link(heap, p, op[w].l, Nil)
    BY <1>2 DEF Cut, link
  <1>4. Built(w, heap, Len(heap), Len(leaves))
    BY <1>2, BuiltBase
  <1>5. p \in 0..Len(heap) /\ Nil \in 0..Len(heap) /\ Nil \notin Nodes
        /\ heap[p].epoch = txn[w].epoch
    BY <1>2 DEF Ref, Nil, Nodes, Mine
  <1>6. Built(w, heap', Len(heap), Len(leaves))
    BY <1>2, <1>3, <1>4, <1>5, BuiltLink
  <1>7. Len(heap') = Len(heap)
    BY <1>2, <1>3, <1>5, LinkType
  <1>8. Frame(w)
    BY <1>1, <1>6, <1>7, StoreFrame
  <1>9. NfOK(notifier')
    BY <1>1, <1>2
  <1> QED BY <1>1, <1>2, <1>8, <1>9, ReturnKeeps

\* unlink merges the parent with the child that is left.
LEMMA PullStep ==
    ASSUME IInv, NEW w \in Writer, Pull(w)
    PROVE  IInv' /\ FrozenStays
  <1> DEFINE n == Head(op[w].path).n
             nf == dropReplaced(w, notifier, n)
  <1>1. /\ op[w].pc = "pull" /\ op[w].pc \in WritePc
        /\ epochCounter' = epochCounter
        /\ UNCHANGED <<pub, rd, count>> /\ Return(w, op[w].val)
    BY DEF Pull, At, Rest, WritePc, GoalPc
  <1>2. PICK b \in Labels(n) : mergeChild(w, nf, n, Kid(n, b))
    BY DEF Pull
  <1>3. /\ txn[w].epoch # 0 /\ op[w].parent # Nil /\ op[w].path # <<>>
        /\ op[w].val \in Nat /\ op[w].path \in PathType /\ NfOK(notifier)
    <2>1. op[w].parent # Nil /\ txn[w].epoch # 0 /\ op[w] \in OpType
          /\ op[w].path # <<>>
      BY <1>1, Facts DEF CallAt, WritePc, GoalPc
    <2> QED BY <2>1, Facts DEF OpType
  <1>4. n \in Nodes /\ Visible(w, n)
    <2>1. Head(op[w].path) = op[w].path[1] /\ 1 \in 1..Len(op[w].path)
      BY <1>3, HeadTailProperties DEF PathType
    <2> QED BY <2>1, Facts DEF CallVisible
  <1>5. NfOK(nf)
    BY <1>3, <1>4, DropReplaced
  <1>6. OwnCtx(w, Kid(n, b))
    <2>1. b \in Byte /\ Kid(n, b) # Nil
      BY DEF Labels
    <2> QED BY <1>1, <1>3, <1>4, <2>1, KidVisible DEF OwnCtx
  <1> HIDE DEF n, nf
  <1>7. Frame(w) /\ NfOK(notifier')
    BY <1>2, <1>3, <1>4, <1>5, <1>6, MergeFrame
  <1> QED BY <1>1, <1>3, <1>7, ReturnKeeps

\* Delete merges a node that lost its value with its only child.
LEMMA FoldStep ==
    ASSUME IInv, NEW w \in Writer, Fold(w)
    PROVE  IInv' /\ FrozenStays
  <1> DEFINE m == op[w].m
             nf == dropWithLeaf(w, notifier, m)
  <1>1. /\ op[w].pc = "fold" /\ op[w].pc \in WritePc
        /\ epochCounter' = epochCounter
        /\ UNCHANGED <<pub, rd, count>> /\ Return(w, op[w].val)
    BY DEF Fold, At, Rest, WritePc, GoalPc
  <1>2. PICK b \in Labels(m) : mergeChild(w, nf, m, Kid(m, b))
    BY DEF Fold
  <1>3. /\ txn[w].epoch # 0 /\ op[w].parent # Nil /\ m \in Nodes
        /\ Visible(w, m) /\ heap[m].val # NoVal
        /\ op[w].val \in Nat /\ NfOK(notifier)
    <2>1. op[w].parent # Nil /\ txn[w].epoch # 0 /\ op[w] \in OpType
          /\ m # Nil /\ heap[m].val # NoVal
      BY <1>1, Facts DEF CallAt, WritePc, GoalPc
    <2> QED BY <2>1, Facts DEF OpType, CallVisible
  <1>4. NfOK(nf)
    BY <1>3, DropWithLeaf
  <1>5. OwnCtx(w, Kid(m, b))
    <2>1. b \in Byte /\ Kid(m, b) # Nil
      BY DEF Labels
    <2> QED BY <1>1, <1>3, <2>1, KidVisible DEF OwnCtx
  <1> HIDE DEF nf
  <1>6. Frame(w) /\ NfOK(notifier')
    BY <1>2, <1>3, <1>4, <1>5, MergeFrame
  <1> QED BY <1>1, <1>3, <1>6, ReturnKeeps

\* Delete clears the value of a node that stays.
LEMMA ClearStep ==
    ASSUME IInv, NEW w \in Writer, Clear(w)
    PROVE  IInv' /\ FrozenStays
  <1> DEFINE m == op[w].m
  <1>1. /\ op[w].pc = "clear" /\ op[w].pc \in WritePc
        /\ epochCounter' = epochCounter /\ ownValueless(w, m, NoVal, 0)
        /\ UNCHANGED <<pub, rd, count>> /\ Return(w, op[w].val)
    BY DEF Clear, At, Rest, WritePc, GoalPc
  <1>2. OwnCtx(w, m) /\ op[w].val \in Nat
    <2>1. txn[w].epoch # 0 /\ op[w] \in OpType /\ m # Nil
      BY <1>1, Facts DEF CallAt, WritePc, GoalPc
    <2> QED BY <1>1, <2>1, Facts DEF OpType, CallVisible, OwnCtx
  <1>3. Frame(w) /\ NfOK(notifier')
    BY <1>1, <1>2, OwnValuelessFrame DEF NoVal
  <1> QED BY <1>1, <1>2, <1>3, ReturnKeeps


-----------------------------------------------------------------------------
(* Steps of a writer that leave memory alone and may change its epoch *)

LifeCtx(w, t, o) ==
    /\ UNCHANGED <<heap, leaves, rd>>
    /\ t \in [root : Ref, epoch : Nat] /\ txn' = [txn EXCEPT ![w] = t]
    /\ \/ (t.epoch = 0 \/ t.epoch = txn[w].epoch)
          /\ epochCounter' = epochCounter
       \/ /\ txn[w].epoch = 0 /\ t.epoch = epochCounter + 1
          /\ epochCounter' = epochCounter + 1
    /\ NfOK(notifier') /\ PubOK'
    /\ ops' \in Nat /\ txns' \in Nat /\ watches' \in Nat
    /\ o \in OpType /\ op' = [op EXCEPT ![w] = o]
    /\ o.n \in Ref /\ o.m \in Ref /\ o.parent \in Ref
    /\ \A i \in 1..Len(o.path) : o.path[i].n \in Nodes
    /\ t.root # Nil => Visible(w, t.root)
    /\ o.n # Nil => Visible(w, o.n)
    /\ o.m # Nil => Visible(w, o.m)
    /\ \A i \in 1..Len(o.path) : Visible(w, o.path[i].n)
    /\ o.parent # Nil => Mine(w, o.parent) /\ t.epoch = txn[w].epoch
    /\ o.pc \notin {"hang", "down", "split", "fork"}
    /\ \A root \in trees' :
          root \in trees \/ (root \in Nodes /\ Visible(w, root) /\ t.epoch = 0)

\* Epochs are fresh, so nobody comes to own a node that exists already.
LEMMA LifeMine ==
    ASSUME IInv, NEW w \in Writer, NEW t, NEW o, LifeCtx(w, t, o)
    PROVE  /\ txn'[w] = t /\ \A v \in Writer : v # w => txn'[v] = txn[v]
           /\ \A n \in Nodes, v \in Writer : MineNext(v, n) => Mine(v, n)
           /\ \A n \in Nodes, v \in Writer : v # w \/ MineNext(v, n) =>
                 \A k \in Nodes : MineNext(v, k) <=> Mine(v, k)
  <1>1. Epochs /\ epochCounter \in Nat /\ heap' = heap
        /\ txn \in [Writer -> [root : Ref, epoch : Nat]]
    BY DEF IInv, TypeOK, TxnOK, Ownership, LifeCtx
  <1>2. txn'[w] = t /\ \A v \in Writer : v # w => txn'[v] = txn[v]
    BY <1>1 DEF LifeCtx
  <1>3. ASSUME NEW v \in Writer, v # w, NEW n \in Nodes
        PROVE  MineNext(v, n) <=> Mine(v, n)
    BY <1>1, <1>2, <1>3 DEF Mine, MineNext
  <1>4. ASSUME NEW n \in Nodes, MineNext(w, n)
        PROVE  t.epoch = txn[w].epoch
    <2>1. t.epoch # 0 /\ heap[n].epoch = t.epoch
      BY <1>1, <1>2, <1>4 DEF MineNext
    <2>2. heap[n].epoch <= epochCounter
      BY <1>1 DEF Epochs
    <2>3. t.epoch # epochCounter + 1
      BY <1>1, <2>1, <2>2 DEF LifeCtx
    <2> QED BY <2>1, <2>3 DEF LifeCtx
  <1>5. ASSUME t.epoch = txn[w].epoch, NEW n \in Nodes
        PROVE  MineNext(w, n) <=> Mine(w, n)
    BY <1>1, <1>2, <1>5 DEF Mine, MineNext
  <1> QED BY <1>2, <1>3, <1>4, <1>5

\* A step of a transaction's life that leaves the nodes alone keeps the invariant.
LEMMA LifeKeeps ==
    ASSUME IInv, NEW w \in Writer, NEW t, NEW o, LifeCtx(w, t, o), CallAt(w)'
    PROVE  IInv' /\ FrozenStays
  <1>1. HeapOK /\ TxnOK /\ OpOK /\ PubOK /\ RdOK /\ Calls /\ Epochs
        /\ OwnedBelowOwned /\ SharedIsFrozen /\ CallsVisible /\ CallsOwn
        /\ WatchedIsFrozen /\ LeafOnCopies
    BY DEF IInv, TypeOK, Ownership
  <1>2. heap' = heap /\ leaves' = leaves /\ rd' = rd /\ Nodes' = Nodes
        /\ Ref' = Ref
    BY DEF LifeCtx, Nodes, Ref
  <1>3. txn'[w] = t /\ \A v \in Writer : v # w => txn'[v] = txn[v]
    BY LifeMine
  <1>4. op'[w] = o /\ \A v \in Writer : v # w => op'[v] = op[v]
    BY <1>1 DEF LifeCtx, OpOK
  <1>5. \A n \in Nodes, v \in Writer : MineNext(v, n) => Mine(v, n)
    BY LifeMine
  <1>6. \A n \in Nodes : Frozen(n) => \A v \in Writer : ~MineNext(v, n)
    BY <1>5 DEF Frozen
  <1>7. \A n \in Nodes, v \in Writer : Visible(v, n) => VisibleNext(v, n)
    BY <1>5 DEF Visible, VisibleNext
  <1>8. TypeOK'
    <2>1. HeapOK' /\ RdOK'
      BY <1>1, <1>2 DEF HeapOK, RdOK
    <2>2. TxnOK'
      BY <1>1, <1>2 DEF TxnOK, LifeCtx
    <2>3. OpOK'
      <3>1. op' \in [Writer -> OpType]
        BY <1>1 DEF OpOK, LifeCtx
      <3>2. ASSUME NEW v \in Writer
            PROVE  /\ op'[v].n \in Ref /\ op'[v].parent \in Ref
                   /\ op'[v].m \in Ref
                   /\ \A i \in 1..Len(op'[v].path) : op'[v].path[i].n \in Nodes
        BY <1>1, <1>4 DEF OpOK, LifeCtx
      <3> QED BY <1>2, <3>1, <3>2 DEF OpOK
    <2>4. NotifierOK'
      BY <1>2 DEF NotifierOK, NotifierType, NfOK, LifeCtx
    <2> QED BY <2>1, <2>2, <2>3, <2>4 DEF TypeOK, LifeCtx
  <1>9. Epochs'
    <2>1. epochCounter \in Nat /\ t.epoch \in Nat
          /\ \A v \in Writer : txn[v].epoch \in Nat
      BY <1>1 DEF TxnOK, LifeCtx
    <2>2. epochCounter' \in Nat /\ epochCounter <= epochCounter'
          /\ t.epoch <= epochCounter'
      BY <1>1, <2>1 DEF LifeCtx, Epochs
    <2>3. ASSUME NEW n \in Nodes PROVE heap'[n].epoch <= epochCounter'
      <3>1. heap[n].epoch \in Nat
        BY Facts DEF NodeType
      <3> QED BY <1>1, <1>2, <2>1, <2>2, <3>1 DEF Epochs
    <2>4. \A v \in Writer : txn'[v].epoch <= epochCounter'
      BY <1>1, <1>3, <2>1, <2>2 DEF Epochs
    <2>5. \A u, v \in Writer : u # v /\ txn'[u].epoch # 0 =>
                                 txn'[u].epoch # txn'[v].epoch
      <3>1. ASSUME NEW v \in Writer, v # w, t.epoch # 0
            PROVE  t.epoch # txn[v].epoch
        BY <1>1, <2>1, <3>1 DEF Epochs, LifeCtx
      <3> QED BY <1>1, <1>3, <3>1 DEF Epochs
    <2> QED BY <1>2, <2>3, <2>4, <2>5 DEF Epochs
  <1>10. OwnedBelowOwned'
    <2>1. SUFFICES ASSUME NEW n \in Nodes, NEW b \in Byte, NEW v \in Writer,
                          NEW k, k = heap[n].kids[b], k # Nil, MineNext(v, k)
                   PROVE  MineNext(v, n)
      BY <1>2 DEF OwnedBelowOwned, Mine, MineNext
    <2>2. k \in Nodes
      BY <1>1, <2>1, Facts
    <2>3. Mine(v, n)
      BY <1>1, <1>5, <2>1, <2>2 DEF OwnedBelowOwned
    <2> QED BY <2>1, <2>2, <2>3, LifeMine
  <1>11. SharedIsFrozen'
    <2>1. ASSUME NEW root \in trees'
          PROVE  \A v \in Writer : ~MineNext(v, root)
      <3>1. CASE root \in trees
        BY <1>1, <1>6, <3>1 DEF SharedIsFrozen, PubOK
      <3>2. CASE root \in Nodes /\ Visible(w, root) /\ t.epoch = 0
        BY <1>3, <1>7, <3>2 DEF VisibleNext, MineNext
      <3> QED BY <3>1, <3>2 DEF LifeCtx
    <2>2. ASSUME NEW r \in Reader, rd[r].n # Nil
          PROVE  \A v \in Writer : ~MineNext(v, rd[r].n)
      BY <1>1, <1>6, <2>2, Facts DEF SharedIsFrozen, RdOK
    <2> QED BY <1>2, <2>1, <2>2 DEF SharedIsFrozen, Frozen, Mine, MineNext
  <1>12. WatchedIsFrozen'
    BY <1>1, <1>2, <1>6 DEF WatchedIsFrozen, Frozen, Mine, MineNext
  <1>13. LeafOnCopies'
    BY <1>1, <1>2, <1>5 DEF LeafOnCopies, Mine, MineNext
  <1>14. RecordedIsFrozen'
    <2>1. NotifierType(notifier') /\ Recorded(notifier')
      BY DEF NfOK, LifeCtx
    <2>2. ASSUME NEW n \in Nodes, NEW v \in Writer, ~Mine(v, n)
          PROVE  ~(txn'[v].epoch # 0 /\ heap'[n].epoch = txn'[v].epoch)
      BY <1>5, <2>2 DEF MineNext
    <2> QED BY <2>1, <2>2
            DEF NotifierType, Recorded, RecordedIsFrozen, Frozen, Visible, Mine
  <1>15. ASSUME NEW v \in Writer
         PROVE  CallAt(v)' /\ CallVisible(v)' /\ CallOwns(v)'
    <2>1. CASE v = w
      <3>1. CallVisible(w)'
        BY <1>2, <1>3, <1>4, <1>7, Facts
           DEF CallVisible, LifeCtx, Visible, VisibleNext, Mine, MineNext
      <3>2. CallOwns(w)'
        BY <1>2, <1>3, <1>4 DEF CallOwns, LifeCtx, Mine
      <3> QED BY <2>1, <3>1, <3>2
    <2>2. CASE v # w
      <3>1. /\ txn'[v] = txn[v] /\ op'[v] = op[v] /\ heap' = heap
            /\ CallAt(v) /\ CallVisible(v) /\ CallOwns(v)
        BY <1>1, <1>2, <1>3, <1>4, <2>2 DEF Calls, CallsVisible, CallsOwn
      <3>2. CallAt(v)'
        BY <3>1 DEF CallAt, Kid
      <3>3. CallOwns(v)'
        BY <3>1 DEF CallOwns, Mine
      <3>4. CallVisible(v)'
        <4>1. /\ txn[v].root # Nil => txn[v].root \in Nodes
              /\ op[v].n # Nil => op[v].n \in Nodes
              /\ op[v].m # Nil => op[v].m \in Nodes
              /\ \A i \in 1..Len(op[v].path) : op[v].path[i].n \in Nodes
          BY Facts
        <4> QED BY <1>7, <3>1, <4>1
                DEF CallVisible, Visible, VisibleNext, Mine, MineNext
      <3> QED BY <3>2, <3>3, <3>4
    <2> QED BY <2>1, <2>2
  <1>16. FrozenStays
    BY <1>2, <1>6 DEF FrozenStays, SameBody, MineNext, Nodes
  <1> QED BY <1>8, <1>9, <1>10, <1>11, <1>12, <1>13, <1>14, <1>15, <1>16
          DEF IInv, Ownership, Calls, CallsVisible, CallsOwn


\* The published trees are frozen; they stay so.
LEMMA PubStays ==
    ASSUME IInv, heap' = heap, UNCHANGED pub
    PROVE  PubOK' /\ trees' = trees
  BY DEF IInv, TypeOK, PubOK, Nodes, pub

\* What the counters and sequences have counted so far.
LEMMA Counts ==
    ASSUME IInv
    PROVE  ops \in Nat /\ txns \in Nat /\ watches \in Nat
  BY DEF IInv, TypeOK

\* begin: the epoch stays, or is drawn fresh.
LEMMA BeginEpoch ==
    ASSUME IInv, NEW w \in Writer, begin(w)
    PROVE  \E t \in [root : Ref, epoch : Nat] :
              /\ txn' = [txn EXCEPT ![w] = t] /\ txn'[w] = t
              /\ t.root = txn[w].root /\ t.epoch # 0
              /\ \/ /\ t.epoch = txn[w].epoch /\ txn[w].epoch # 0
                    /\ epochCounter' = epochCounter
                 \/ /\ txn[w].epoch = 0 /\ t.epoch = epochCounter + 1
                    /\ epochCounter' = epochCounter + 1
  <1> DEFINE e == IF txn[w].epoch = 0 THEN epochCounter + 1 ELSE txn[w].epoch
             t == [txn[w] EXCEPT !.epoch = e]
  <1>1. epochCounter \in Nat /\ txn \in [Writer -> [root : Ref, epoch : Nat]]
    BY DEF IInv, TypeOK, TxnOK
  <1>2. e \in Nat /\ e # 0 /\ txn[w].root \in Ref
    BY <1>1
  <1>3. txn' = [txn EXCEPT ![w] = t]
    BY <1>1 DEF begin
  <1>4. txn'[w] = t
    BY <1>1, <1>3
  <1>5. txn[w] \in [root : Ref, epoch : Nat]
    BY <1>1
  <1>6. t \in [root : Ref, epoch : Nat] /\ t.root = txn[w].root /\ t.epoch = e
    BY <1>2, <1>5
  <1> HIDE DEF t
  <1>7. \/ /\ t.epoch = txn[w].epoch /\ txn[w].epoch # 0
           /\ epochCounter' = epochCounter
        \/ /\ txn[w].epoch = 0 /\ t.epoch = epochCounter + 1
           /\ epochCounter' = epochCounter + 1
    BY <1>1, <1>6 DEF begin
  <1> QED BY <1>2, <1>3, <1>4, <1>6, <1>7

\* A call begins with well-formed locals.
LEMMA CallType ==
    ASSUME IInv, NEW w \in Writer, NEW k \in Seq(Byte),
           NEW name \in {"Insert", "Delete", "DeletePrefix"},
           NEW pc \in {"insert", "find"}
    PROVE  /\ Call(w, name, k, pc) \in OpType
           /\ Call(w, name, k, pc).pc = pc
           /\ Call(w, name, k, pc).n = txn[w].root
           /\ Call(w, name, k, pc).m = Nil
           /\ Call(w, name, k, pc).parent = Nil
           /\ Call(w, name, k, pc).path = <<>>
  <1>1. txn[w].root \in Nat /\ <<>> \in PathType
    BY Facts DEF PathType, Ref
  <1> QED BY <1>1 DEF Call, IdleOp, OpType, Nil, NoVal, WritePc, InsertPc

\* Insert, Delete and DeletePrefix begin.
LEMMA StartStep ==
    ASSUME IInv, NEW w \in Writer, NEW k \in Key,
           Insert(w, k) \/ Delete(w, k) \/ DeletePrefix(w, k)
    PROVE  IInv' /\ FrozenStays
  <1>1. /\ op[w].pc = "idle" /\ txn[w].root # Nil /\ ops' = ops + 1
        /\ UNCHANGED <<heap, leaves, rd, notifier, txns, watches>>
        /\ UNCHANGED pub
    BY DEF Insert, Delete, DeletePrefix, Ready, mem
  <1>2. /\ ops' \in Nat /\ txns' \in Nat /\ watches' \in Nat /\ ops + 1 \in Nat
        /\ k \in Seq(Byte) /\ NfOK(notifier')
    BY <1>1, Counts, KeyAssumption, Facts
  <1>3. PubOK' /\ trees' = trees
    BY <1>1, PubStays
  <1>4. txn[w].root \in Ref /\ Visible(w, txn[w].root) /\ Nil \in Ref
        /\ txn[w] \in [root : Ref, epoch : Nat]
    BY <1>1, Facts DEF CallVisible, Ref, Nil
  <1>5. PICK t \in [root : Ref, epoch : Nat] :
            /\ txn' = [txn EXCEPT ![w] = t] /\ txn'[w] = t
            /\ t.root = txn[w].root
            /\ \/ t.epoch = txn[w].epoch /\ epochCounter' = epochCounter
               \/ /\ txn[w].epoch = 0 /\ t.epoch = epochCounter + 1
                  /\ epochCounter' = epochCounter + 1
            /\ Insert(w, k) => t.epoch # 0
    <2>1. CASE Insert(w, k)
      BY <2>1, BeginEpoch DEF Insert
    <2>2. CASE ~Insert(w, k)
      <3>1. txn' = txn /\ epochCounter' = epochCounter
        BY <2>2 DEF Delete, DeletePrefix
      <3>2. txn' = [txn EXCEPT ![w] = txn[w]] /\ txn'[w] = txn[w]
        BY <3>1, Facts
      <3> QED BY <1>4, <2>2, <3>1, <3>2
    <2> QED BY <2>1, <2>2
  <1>6. PICK o \in OpType :
            /\ op' = [op EXCEPT ![w] = o] /\ o.n = txn[w].root
            /\ o.m = Nil /\ o.parent = Nil /\ o.path = <<>>
            /\ o.pc = IF Insert(w, k) THEN "insert" ELSE "find"
    <2>1. CASE Insert(w, k)
      <3> DEFINE c == Call(w, "Insert", k, "insert")
                 o == [c EXCEPT !.val = ops + 1]
      <3>1. /\ c \in OpType /\ c.pc = "insert" /\ c.n = txn[w].root
            /\ c.m = Nil /\ c.parent = Nil /\ c.path = <<>>
        BY <1>2, CallType
      <3>2. op' = [op EXCEPT ![w] = o]
        BY <2>1 DEF Insert, Goto
      <3> HIDE DEF c
      <3>3. o \in OpType
        BY <1>2, <3>1 DEF OpType
      <3>4. /\ o.pc = "insert" /\ o.n = txn[w].root
            /\ o.m = Nil /\ o.parent = Nil /\ o.path = <<>>
        BY <3>1 DEF OpType
      <3> HIDE DEF o
      <3> QED BY <2>1, <3>2, <3>3, <3>4
    <2>2. CASE ~Insert(w, k)
      <3>1. PICK name \in {"Delete", "DeletePrefix"} :
                op' = [op EXCEPT ![w] = Call(w, name, k, "find")]
        BY <2>2 DEF Delete, DeletePrefix, Goto
      <3> DEFINE o == Call(w, name, k, "find")
      <3>2. /\ o \in OpType /\ o.pc = "find" /\ o.n = txn[w].root
            /\ o.m = Nil /\ o.parent = Nil /\ o.path = <<>>
        BY <1>2, CallType
      <3> HIDE DEF o
      <3> QED BY <2>2, <3>1, <3>2 DEF o
    <2> QED BY <2>1, <2>2
  <1>7. LifeCtx(w, t, o)
    <2>1. \A i \in 1..Len(o.path) : FALSE
      BY <1>6
    <2> QED BY <1>1, <1>2, <1>3, <1>4, <1>5, <1>6, <2>1 DEF LifeCtx
  <1>8. CallAt(w)'
    <2>1. op'[w] = o
      BY <1>6, Facts
    <2> QED BY <1>1, <1>5, <1>6, <2>1 DEF CallAt, WritePc, InsertPc, GoalPc
  <1> QED BY <1>7, <1>8, LifeKeeps

\* Tree.Txn.
LEMMA TxnStep ==
    ASSUME IInv, NEW w \in Writer, NEW root \in trees, Txn(w, root)
    PROVE  IInv' /\ FrozenStays
  <1> DEFINE t == [root |-> root, epoch |-> 0]
             o == op[w]
  <1>1. /\ op[w].pc = "idle" /\ txns' = txns + 1 /\ UNCHANGED <<ops, watches>>
        /\ txn' = [txn EXCEPT ![w] = t] /\ UNCHANGED <<epochCounter, notifier>>
        /\ UNCHANGED <<heap, leaves, rd>> /\ UNCHANGED pub /\ op' = op
    BY DEF Txn, mem
  <1>2. /\ ops' \in Nat /\ txns' \in Nat /\ watches' \in Nat
        /\ NfOK(notifier') /\ o \in OpType /\ op' = [op EXCEPT ![w] = o]
    BY <1>1, Counts, Facts
  <1>3. PubOK' /\ trees' = trees
    BY <1>1, PubStays
  <1>4. root \in Ref /\ root # Nil /\ Visible(w, root)
    <2>1. root \in Nodes /\ Frozen(root)
      BY DEF IInv, TypeOK, PubOK, Ownership, SharedIsFrozen
    <2> QED BY <2>1, Facts DEF Nodes, Ref, Nil, Frozen, Visible
  <1>5. o.parent = Nil
    BY <1>1, Facts DEF CallAt
  <1>6. LifeCtx(w, t, o)
    <2>1. t \in [root : Ref, epoch : Nat] /\ t.root = root /\ t.epoch = 0
      BY <1>4
    <2> QED BY <1>1, <1>2, <1>3, <1>4, <1>5, <2>1, Facts
            DEF LifeCtx, CallVisible
  <1>7. CallAt(w)'
    <2>1. txn'[w] = t /\ op'[w] = op[w]
      BY <1>1, Facts
    <2> QED BY <1>1, <1>4, <1>5, <2>1 DEF CallAt, WritePc, InsertPc, GoalPc
  <1> QED BY <1>6, <1>7, LifeKeeps


\* Freeze: the epoch is given back, and every owned node freezes.
LEMMA FreezeStep ==
    ASSUME IInv, NEW w \in Writer, Freeze(w)
    PROVE  IInv' /\ FrozenStays
  <1> DEFINE root == txn[w].root
             t == [txn[w] EXCEPT !.epoch = 0]
             o == op[w]
  <1>1. /\ op[w].pc = "idle" /\ root # Nil /\ UNCHANGED count
        /\ txn' = [txn EXCEPT ![w] = t] /\ UNCHANGED <<epochCounter, notifier>>
        /\ UNCHANGED <<heap, leaves, rd>> /\ UNCHANGED <<current, lineage>>
        /\ op' = op /\ trees' = trees \cup {root}
        /\ pend' \subseteq pend \cup {root}
    BY DEF Freeze, Ready, mem
  <1>2. /\ ops' \in Nat /\ txns' \in Nat /\ watches' \in Nat
        /\ NfOK(notifier') /\ o \in OpType /\ op' = [op EXCEPT ![w] = o]
    BY <1>1, Counts, Facts DEF count
  <1>3. root \in Nodes /\ Visible(w, root)
    BY <1>1, Facts DEF CallVisible
  <1>4. PubOK'
    BY <1>1, <1>3 DEF IInv, TypeOK, PubOK, Nodes
  <1>5. o.parent = Nil
    BY <1>1, Facts DEF CallAt
  <1>6. txn[w] \in [root : Ref, epoch : Nat]
    BY Facts
  <1>7. t \in [root : Ref, epoch : Nat] /\ t.root = root /\ t.epoch = 0
    BY <1>6
  <1> HIDE DEF t
  <1>8. LifeCtx(w, t, o)
    BY <1>1, <1>2, <1>3, <1>4, <1>5, <1>7, Facts DEF LifeCtx, CallVisible
  <1>9. CallAt(w)'
    <2>1. txn'[w] = t /\ op'[w] = op[w]
      BY <1>1, Facts
    <2> QED BY <1>1, <1>5, <1>7, <2>1 DEF CallAt, WritePc, InsertPc, GoalPc
  <1> QED BY <1>8, <1>9, LifeKeeps

\* Commit.
LEMMA CommitStep ==
    ASSUME IInv, NEW w \in Writer, Commit(w)
    PROVE  IInv' /\ FrozenStays
  <1> DEFINE root == txn[w].root
             pc == IF w = Main THEN "notify" ELSE "idle"
             o == [IdleOp EXCEPT !.pc = pc]
  <1>1. /\ op[w].pc = "idle" /\ root # Nil /\ UNCHANGED count
        /\ txn' = [txn EXCEPT ![w] = NoTxn]
        /\ UNCHANGED <<epochCounter, notifier>>
        /\ UNCHANGED <<heap, leaves, rd>>
        /\ op' = [op EXCEPT ![w] = o] /\ trees' = trees \cup {root}
        /\ current' \in {current, root} /\ pend' \subseteq pend
        /\ lineage' \subseteq lineage \cup pend \cup {root}
    BY DEF Commit, Ready, mem
  <1>2. /\ ops' \in Nat /\ txns' \in Nat /\ watches' \in Nat
        /\ NfOK(notifier')
    BY <1>1, Counts, Facts DEF count
  <1>3. root \in Nodes /\ Visible(w, root)
    BY <1>1, Facts DEF CallVisible
  <1>4. PubOK'
    BY <1>1, <1>3 DEF IInv, TypeOK, PubOK, Nodes
  <1>5. /\ NoTxn \in [root : Ref, epoch : Nat] /\ NoTxn.root = Nil
        /\ NoTxn.epoch = 0 /\ Nil \in Ref
    BY Facts DEF NoTxn, Ref, Nil
  <1>6. /\ o \in OpType /\ o.pc = pc /\ o.n = Nil /\ o.m = Nil
        /\ o.parent = Nil /\ o.path = <<>>
    <2>1. <<>> \in Seq(Byte) /\ <<>> \in PathType
      BY DEF PathType
    <2> QED BY <2>1 DEF IdleOp, OpType, Nil, NoVal
  <1>7. pc = "idle" \/ (pc = "notify" /\ w = Main)
    OBVIOUS
  <1> HIDE DEF o, pc
  <1>8. LifeCtx(w, NoTxn, o)
    <2>1. o.pc \notin {"hang", "down", "split", "fork"}
          /\ \A i \in 1..Len(o.path) : FALSE
      BY <1>6, <1>7
    <2> QED BY <1>1, <1>2, <1>3, <1>4, <1>5, <1>6, <2>1 DEF LifeCtx
  <1>9. CallAt(w)'
    <2>1. txn'[w] = NoTxn /\ op'[w] = o
      BY <1>1, Facts
    <2> QED BY <1>5, <1>6, <1>7, <2>1 DEF CallAt, WritePc, InsertPc, GoalPc
  <1> QED BY <1>8, <1>9, LifeKeeps

\* An empty Notifier is in good order.
LEMMA NoNotifierOK == NfOK(NoNotifier)
  BY DEF NfOK, NotifierType, Recorded, NoNotifier

\* A writer goes idle with nothing in hand: Abort, NotifyDone.
LEMMA IdleStep ==
    ASSUME IInv, NEW w \in Writer, NEW t \in [root : Ref, epoch : Nat],
           txn' = [txn EXCEPT ![w] = t], t.epoch = 0, t.root = Nil,
           op' = [op EXCEPT ![w] = IdleOp],
           notifier' = notifier \/ notifier' = NoNotifier,
           UNCHANGED <<heap, leaves, rd, epochCounter, count, trees>>, PubOK'
    PROVE  IInv' /\ FrozenStays
  <1>1. /\ ops' \in Nat /\ txns' \in Nat /\ watches' \in Nat
        /\ NfOK(notifier') /\ Nil \in Ref
    BY Counts, Facts, NoNotifierOK DEF count, Ref, Nil
  <1>2. /\ IdleOp \in OpType /\ IdleOp.pc = "idle" /\ IdleOp.n = Nil
        /\ IdleOp.m = Nil /\ IdleOp.parent = Nil /\ IdleOp.path = <<>>
    <2>1. <<>> \in Seq(Byte) /\ <<>> \in PathType
      BY DEF PathType
    <2> QED BY <2>1 DEF IdleOp, OpType, Nil, NoVal
  <1>3. LifeCtx(w, t, IdleOp)
    <2>1. \A i \in 1..Len(IdleOp.path) : FALSE
      BY <1>2
    <2> QED BY <1>1, <1>2, <2>1 DEF LifeCtx
  <1>4. CallAt(w)'
    <2>1. txn'[w] = t /\ op'[w] = IdleOp
      BY Facts
    <2> QED BY <1>2, <2>1 DEF CallAt, WritePc, InsertPc, GoalPc
  <1> QED BY <1>3, <1>4, LifeKeeps

\* A transaction is dropped.
LEMMA AbortStep ==
    ASSUME IInv, NEW w \in Writer, Abort(w)
    PROVE  IInv' /\ FrozenStays
  <1>1. /\ NoTxn \in [root : Ref, epoch : Nat] /\ NoTxn.root = Nil
        /\ NoTxn.epoch = 0
    BY Facts DEF NoTxn, Ref, Nil
  <1>2. PubOK'
    <2>1. heap' = heap /\ UNCHANGED <<current, trees, lineage>>
          /\ (pend' = {} \/ pend' = pend)
      BY DEF Abort, mem
    <2> QED BY <2>1 DEF IInv, TypeOK, PubOK, Nodes
  <1>3. /\ txn' = [txn EXCEPT ![w] = NoTxn] /\ op' = [op EXCEPT ![w] = IdleOp]
        /\ notifier' = notifier \/ notifier' = NoNotifier
        /\ UNCHANGED <<heap, leaves, rd, epochCounter, count, trees>>
    BY DEF Abort, mem
  <1> QED BY <1>1, <1>2, <1>3, IdleStep

\* Notify returns.
LEMMA NotifyDoneStep ==
    ASSUME IInv, NotifyDone
    PROVE  IInv' /\ FrozenStays
  <1>1. /\ txn[Main] \in [root : Ref, epoch : Nat] /\ txn[Main].epoch = 0
        /\ txn[Main].root = Nil
    BY MainAssumption, Facts DEF NotifyDone, Notifying, CallAt
  <1>2. PubOK' /\ trees' = trees
    BY PubStays DEF NotifyDone, mem
  <1>3. txn' = [txn EXCEPT ![Main] = txn[Main]]
    BY MainAssumption, Facts DEF NotifyDone
  <1>4. /\ op' = [op EXCEPT ![Main] = IdleOp] /\ notifier' = notifier
        /\ UNCHANGED <<heap, leaves, rd, epochCounter, count>>
    BY DEF NotifyDone, mem
  <1> QED BY <1>1, <1>2, <1>3, <1>4, IdleStep, MainAssumption

\* The descent of Delete and DeletePrefix.
LEMMA FindStep ==
    ASSUME IInv, NEW w \in Writer, FindDown(w) \/ FindMiss(w)
    PROVE  IInv' /\ FrozenStays
  <1>1. /\ op[w].pc = "find" /\ txn' = txn
        /\ UNCHANGED <<heap, leaves, rd, notifier, epochCounter>>
        /\ UNCHANGED pub /\ UNCHANGED count
    BY DEF FindDown, FindMiss, At, Rest, mem
  <1>2. /\ ops' \in Nat /\ txns' \in Nat /\ watches' \in Nat
        /\ NfOK(notifier') /\ txn' = [txn EXCEPT ![w] = txn[w]]
        /\ txn[w] \in [root : Ref, epoch : Nat] /\ Nil \in Ref
    BY <1>1, Counts, Facts DEF count, Ref, Nil
  <1>3. PubOK' /\ trees' = trees
    BY <1>1, PubStays
  <1>4. /\ txn[w].root # Nil /\ op[w].n # Nil /\ op[w].n \in Nodes
        /\ Visible(w, txn[w].root) /\ Visible(w, op[w].n) /\ op[w] \in OpType
    <2>1. txn[w].root # Nil /\ op[w].n # Nil
      BY <1>1, Facts DEF CallAt
    <2> QED BY <2>1, Facts DEF CallVisible
  <1>5. CASE FindMiss(w)
    <2> DEFINE o == [IdleOp EXCEPT !.ret = NoVal]
    <2>1. /\ o \in OpType /\ o.pc = "idle" /\ o.n = Nil /\ o.m = Nil
          /\ o.parent = Nil /\ o.path = <<>>
      BY IdleOpType DEF NoVal
    <2>2. op' = [op EXCEPT ![w] = o] /\ op'[w] = o
      BY <1>5, Facts DEF FindMiss, Return
    <2> HIDE DEF o
    <2>3. LifeCtx(w, txn[w], o)
      <3>1. \A i \in 1..Len(o.path) : FALSE
        BY <2>1
      <3> QED BY <1>1, <1>2, <1>3, <1>4, <2>1, <2>2, <3>1 DEF LifeCtx
    <2>4. CallAt(w)'
      BY <1>1, <1>4, <2>1, <2>2 DEF CallAt, WritePc, InsertPc, GoalPc
    <2> QED BY <2>3, <2>4, LifeKeeps
  <1>6. CASE FindDown(w)
    <2> DEFINE b == Head(op[w].search)
               c == FindKid(w)
               rest == IF HasPrefix(c, op[w].search)
                       THEN Drop(op[w].search, Len(heap[c].prefix)) ELSE <<>>
               e == [n |-> op[w].n, l |-> b]
               o == [op[w] EXCEPT !.n = c, !.path = Append(op[w].path, e),
                                  !.search = rest]
    <2>1. op' = [op EXCEPT ![w] = o] /\ op'[w] = o
      BY <1>6, Facts DEF FindDown, Goto
    <2>2. op[w].search \in Seq(Byte) /\ op[w].search # <<>> /\ c # Nil
          /\ c = Kid(op[w].n, b)
      BY <1>4, <1>6 DEF FindDown, FindGoesOn, FindKid, OpType
    <2>3. b \in Byte /\ b \in Nat
      BY <2>2, HeadTailProperties, ByteAssumption
    <2>4. c \in Nodes /\ Visible(w, c)
      BY <1>4, <2>2, <2>3, KidVisible
    <2>5. rest \in Seq(Byte)
      <3>1. heap[c].prefix \in Seq(Byte)
        BY <2>4, Facts DEF NodeType
      <3>2. Len(heap[c].prefix) \in Nat
        BY <3>1
      <3>3. Drop(op[w].search, Len(heap[c].prefix)) \in Seq(Byte)
        BY <2>2, <3>2, DropType
      <3>4. <<>> \in Seq(Byte)
        OBVIOUS
      <3> QED BY <3>3, <3>4
    <2>6. /\ Append(op[w].path, e) \in PathType
          /\ \A i \in 1..Len(Append(op[w].path, e)) :
                /\ Append(op[w].path, e)[i].n \in Nodes
                /\ Visible(w, Append(op[w].path, e)[i].n)
      <3>1. e \in [n : Nat \ {0}, l : Nat] /\ e.n = op[w].n
        BY <1>4, <2>3, Facts DEF Nil
      <3>2. op[w].path \in Seq([n : Nat \ {0}, l : Nat])
        BY <1>4 DEF OpType, PathType
      <3>3. \A i \in 1..Len(op[w].path) : /\ op[w].path[i].n \in Nodes
                                          /\ Visible(w, op[w].path[i].n)
        BY Facts DEF CallVisible
      <3> DEFINE path == op[w].path
      <3> HIDE DEF e, path
      <3>4. /\ Append(path, e) \in Seq([n : Nat \ {0}, l : Nat])
            /\ Len(Append(path, e)) = Len(path) + 1 /\ Len(path) \in Nat
            /\ \A i \in 1..Len(path) : Append(path, e)[i] = path[i]
            /\ Append(path, e)[Len(path) + 1] = e
        BY <3>1, <3>2, AppendProperties DEF path
      <3>5. ASSUME NEW i \in 1..(Len(path) + 1)
            PROVE  /\ Append(path, e)[i].n \in Nodes
                   /\ Visible(w, Append(path, e)[i].n)
        <4>1. CASE i \in 1..Len(path)
          BY <3>3, <3>4, <4>1 DEF path
        <4>2. CASE i = Len(path) + 1
          BY <1>4, <3>1, <3>4, <4>2
        <4> QED BY <3>4, <4>1, <4>2
      <3> QED BY <3>4, <3>5 DEF PathType, path
    <2>7. c \in Ref /\ c \in Nat
      BY <2>4, Facts DEF Ref, Nodes
    <2> HIDE DEF c, rest, e, b
    <2>8. o \in OpType
      BY <1>4, <2>5, <2>6, <2>7 DEF OpType
    <2>9. /\ o.n = c /\ o.path = Append(op[w].path, e) /\ o.pc = "find"
          /\ o.m = op[w].m /\ o.parent = op[w].parent
      BY <1>1, <1>4 DEF OpType
    <2> HIDE DEF o
    <2>10. LifeCtx(w, txn[w], o)
      BY <1>1, <1>2, <1>3, <1>4, <2>1, <2>4, <2>6, <2>7, <2>8, <2>9, Facts
         DEF LifeCtx, CallVisible, CallOwns
    <2>11. CallAt(w)'
      BY <1>1, <1>4, <2>1, <2>2, <2>9 DEF CallAt, WritePc, InsertPc, GoalPc
    <2> QED BY <2>10, <2>11, LifeKeeps
  <1> QED BY <1>5, <1>6

\* The descent has found its node or subtree.
LEMMA FindHitStep ==
    ASSUME IInv, NEW w \in Writer, FindHit(w)
    PROVE  IInv' /\ FrozenStays
  <1> DEFINE n == op[w].n
             v == IF op[w].call = "Delete" THEN heap[n].val ELSE 1
             o == [op[w] EXCEPT !.pc = "remove", !.m = n, !.val = v]
  <1>1. /\ op[w].pc = "find" /\ begin(w)
        /\ op[w].call = "Delete" => heap[n].val # NoVal
        /\ UNCHANGED <<heap, leaves, rd, notifier>>
        /\ UNCHANGED pub /\ UNCHANGED count
        /\ op' = [op EXCEPT ![w] = o]
    BY DEF FindHit, At, Goto, mem
  <1>2. /\ ops' \in Nat /\ txns' \in Nat /\ watches' \in Nat
        /\ NfOK(notifier') /\ op'[w] = o
    BY <1>1, Counts, Facts DEF count
  <1>3. PubOK' /\ trees' = trees
    BY <1>1, PubStays
  <1>4. /\ txn[w].root # Nil /\ n # Nil /\ n \in Nodes /\ n \in Ref
        /\ Visible(w, txn[w].root) /\ Visible(w, n) /\ op[w] \in OpType
        /\ heap[n] \in NodeType /\ n \in Nat
    <2>1. txn[w].root # Nil /\ n # Nil
      BY <1>1, Facts DEF CallAt
    <2> QED BY <2>1, Facts DEF CallVisible
  <1>5. PICK t \in [root : Ref, epoch : Nat] :
            /\ txn' = [txn EXCEPT ![w] = t] /\ txn'[w] = t
            /\ t.root = txn[w].root /\ t.epoch # 0
            /\ \/ /\ t.epoch = txn[w].epoch /\ txn[w].epoch # 0
                  /\ epochCounter' = epochCounter
               \/ /\ txn[w].epoch = 0 /\ t.epoch = epochCounter + 1
                  /\ epochCounter' = epochCounter + 1
    BY <1>1, BeginEpoch
  <1>6. v \in Nat
    BY <1>4 DEF NodeType
  <1> HIDE DEF v
  <1>7. o \in OpType
    BY <1>4, <1>6 DEF OpType, WritePc
  <1>8. /\ o.n = n /\ o.path = op[w].path /\ o.pc = "remove" /\ o.m = n
        /\ o.parent = op[w].parent /\ o.call = op[w].call
    BY <1>4 DEF OpType
  <1> HIDE DEF o
  <1>9. op[w].parent # Nil => Mine(w, op[w].parent) /\ t.epoch = txn[w].epoch
    BY <1>5, Facts DEF CallOwns, Mine
  <1>10. LifeCtx(w, t, o)
    BY <1>1, <1>2, <1>3, <1>4, <1>5, <1>7, <1>8, <1>9, Facts
       DEF LifeCtx, CallVisible
  <1>11. CallAt(w)'
    BY <1>1, <1>2, <1>4, <1>5, <1>8 DEF CallAt, WritePc, InsertPc, GoalPc
  <1> QED BY <1>10, <1>11, LifeKeeps


-----------------------------------------------------------------------------
(* Notify and the readers: only the leaf and the watch slot of frozen nodes *)

Touched(n, x) ==
    /\ SameBody(heap[n], x) /\ x.leaf <= Len(leaves')
    /\ heap[n].leaf # Nil => x.leaf = heap[n].leaf
    /\ heap[n].watch # "nil" => x.watch # "nil"
    /\ heap[n].watch = "sealed" => x.watch = "sealed"
    /\ ~Frozen(n) => x = heap[n]

MemTouched ==
    /\ heap' \in Seq(NodeType) /\ Len(heap') = Len(heap)
    /\ leaves' \in Seq(SlotState) /\ Len(leaves) <= Len(leaves')
    /\ \A n \in Nodes : Touched(n, heap'[n])

ReadersOK ==
    /\ rd' \in [Reader -> RdType]
    /\ \A r \in Reader : /\ rd'[r].n \in Ref /\ rd'[r].leaf <= Len(leaves')
                         /\ rd'[r].pc # "idle" => rd'[r].n # Nil
                         /\ rd'[r].n # Nil => Frozen(rd'[r].n)

WatchCtx == /\ UNCHANGED <<txn, op, epochCounter, ops, txns>>
            /\ UNCHANGED pub /\ watches' \in Nat
            /\ MemTouched /\ NfOK(notifier') /\ ReadersOK

\* A step that touches only slots and leaves of frozen nodes keeps the invariant.
LEMMA WatchKeeps ==
    ASSUME IInv, WatchCtx
    PROVE  IInv' /\ FrozenStays
  <1>1. HeapOK /\ TxnOK /\ OpOK /\ PubOK /\ RdOK /\ Calls /\ Epochs
        /\ OwnedBelowOwned /\ SharedIsFrozen /\ CallsVisible /\ CallsOwn
        /\ WatchedIsFrozen /\ LeafOnCopies
    BY DEF IInv, TypeOK, Ownership
  <1>2. /\ txn' = txn /\ op' = op /\ epochCounter' = epochCounter
        /\ trees' = trees /\ Nodes' = Nodes /\ Ref' = Ref
        /\ Nodes = 1..Len(heap)
    BY DEF WatchCtx, MemTouched, Nodes, Ref, pub
  <1>3. ASSUME NEW n \in Nodes
        PROVE  SameBody(heap[n], heap'[n]) /\ Touched(n, heap'[n])
               /\ heap'[n].epoch = heap[n].epoch
    BY DEF WatchCtx, MemTouched, Touched, SameBody
  <1>4. \A n \in Nodes, v \in Writer : MineNext(v, n) <=> Mine(v, n)
    BY <1>2, <1>3 DEF MineNext, Mine
  <1>5. \A n \in Nodes : Frozen(n) => \A v \in Writer : ~MineNext(v, n)
    BY <1>4 DEF Frozen
  <1>6. TypeOK'
    <2>1. HeapOK'
      <3>1. ASSUME NEW n \in Nodes
            PROVE  /\ heap'[n].leaf <= Len(leaves')
                   /\ \A b \in Byte : heap'[n].kids[b] \in Ref
        BY <1>1, <1>3 DEF Touched, SameBody, HeapOK
      <3>2. leaves' \in Seq(SlotState) /\ Len(leaves') > 0
        BY <1>1 DEF WatchCtx, MemTouched, HeapOK
      <3> QED BY <1>2, <3>1, <3>2 DEF HeapOK, WatchCtx, MemTouched
    <2>2. TxnOK' /\ OpOK'
      BY <1>1, <1>2 DEF TxnOK, OpOK
    <2>3. PubOK'
      BY <1>1, <1>2 DEF PubOK, WatchCtx, pub
    <2>4. RdOK'
      BY <1>2 DEF RdOK, WatchCtx, ReadersOK
    <2>5. NotifierOK'
      <3>1. NotifierType(notifier')
        BY DEF WatchCtx, NfOK
      <3>2. Len(leaves) \in Nat /\ Len(leaves') \in Nat
            /\ Len(leaves) <= Len(leaves')
        BY <1>1 DEF HeapOK, WatchCtx, MemTouched
      <3>3. 0..Len(leaves) \subseteq 0..Len(leaves')
        BY <3>2
      <3> QED BY <1>2, <3>1, <3>3 DEF NotifierType, NotifierOK
    <2>6. ops' \in Nat /\ txns' \in Nat /\ watches' \in Nat
      BY Counts DEF WatchCtx
    <2> QED BY <2>1, <2>2, <2>3, <2>4, <2>5, <2>6 DEF TypeOK
  <1>7. Epochs'
    BY <1>1, <1>2, <1>3 DEF Epochs
  <1>8. OwnedBelowOwned'
    <2>1. SUFFICES ASSUME NEW n \in Nodes, NEW b \in Byte, NEW v \in Writer,
                          NEW k, k = heap'[n].kids[b], k # Nil, MineNext(v, k)
                   PROVE  MineNext(v, n)
      BY <1>2 DEF OwnedBelowOwned, Mine, MineNext
    <2>2. k = heap[n].kids[b] /\ k \in Nodes
      <3>1. k = heap[n].kids[b]
        BY <1>3, <2>1 DEF SameBody
      <3>2. k \in Ref
        BY <1>1, <3>1 DEF HeapOK
      <3>3. heap \in Seq(NodeType)
        BY <1>1 DEF HeapOK
      <3> QED BY <2>1, <3>1, <3>2, <3>3 DEF Ref, Nodes, Nil
    <2> QED BY <1>1, <1>4, <2>1, <2>2 DEF OwnedBelowOwned
  <1>9. SharedIsFrozen'
    <2>1. ASSUME NEW root \in trees
          PROVE  \A v \in Writer : ~MineNext(v, root)
      BY <1>1, <1>5 DEF SharedIsFrozen, PubOK
    <2>2. ASSUME NEW r \in Reader, rd'[r].n # Nil
          PROVE  \A v \in Writer : ~MineNext(v, rd'[r].n)
      <3>1. rd'[r].n \in Nodes /\ Frozen(rd'[r].n)
        <4>1. heap \in Seq(NodeType)
          BY <1>1 DEF HeapOK
        <4> QED BY <2>2, <4>1 DEF WatchCtx, ReadersOK, Ref, Nodes, Nil
      <3> QED BY <1>5, <3>1
    <2> QED BY <1>2, <2>1, <2>2 DEF SharedIsFrozen, Frozen, Mine, MineNext
  <1>10. WatchedIsFrozen'
    <2>1. SUFFICES ASSUME NEW n \in Nodes, heap'[n].watch # "nil"
                   PROVE  \A v \in Writer : ~MineNext(v, n)
      BY <1>2 DEF WatchedIsFrozen, Frozen, Mine, MineNext
    <2>2. Frozen(n)
      BY <1>1, <1>3, <2>1 DEF Touched, WatchedIsFrozen
    <2> QED BY <1>5, <2>2
  <1>11. LeafOnCopies'
    <2>1. ASSUME NEW n \in Nodes, NEW v \in Writer, MineNext(v, n)
          PROVE  heap'[n] = heap[n] /\ Mine(v, n)
      BY <1>3, <1>4, <2>1 DEF Touched, Frozen
    <2> QED BY <1>1, <1>2, <2>1 DEF LeafOnCopies, Mine, MineNext
  <1>12. RecordedIsFrozen'
    <2>1. NotifierType(notifier') /\ Recorded(notifier')
      BY DEF NfOK, WatchCtx
    <2>2. ASSUME NEW n \in Nodes, NEW v \in Writer, ~Mine(v, n)
          PROVE  ~(txn'[v].epoch # 0 /\ heap'[n].epoch = txn'[v].epoch)
      BY <1>4, <2>2 DEF MineNext
    <2> QED BY <2>1, <2>2
            DEF NotifierType, Recorded, RecordedIsFrozen, Frozen, Visible, Mine
  <1>13. ASSUME NEW v \in Writer
         PROVE  CallAt(v)' /\ CallVisible(v)' /\ CallOwns(v)'
    <2>1. /\ CallAt(v) /\ CallVisible(v) /\ CallOwns(v)
          /\ txn[v].root # Nil => txn[v].root \in Nodes
          /\ op[v].n # Nil => op[v].n \in Nodes
          /\ op[v].m # Nil => op[v].m \in Nodes
          /\ op[v].parent # Nil => op[v].parent \in Nodes
          /\ \A i \in 1..Len(op[v].path) : op[v].path[i].n \in Nodes
      BY Facts
    <2>2. CallVisible(v)'
      <3>1. ASSUME NEW n \in Nodes, Visible(v, n) PROVE Visible(v, n)'
        BY <1>4, <3>1 DEF Visible, Mine, MineNext
      <3> QED BY <1>2, <2>1, <3>1 DEF CallVisible
    <2>3. CallOwns(v)'
      <3>1. /\ op[v].pc \in {"hang", "down", "split", "fork"} => op[v].n # Nil
            /\ op[v].pc = "fork" => op[v].m # Nil
        BY <2>1 DEF CallAt, InsertPc
      <3> QED BY <1>2, <1>4, <2>1, <3>1 DEF CallOwns, Mine, MineNext
    <2>4. CallAt(v)'
      <3>1. ASSUME op[v].pc \in {"down", "split"}
            PROVE  Kid(op[v].n, Head(op[v].search))' # Nil
        <4>1. op[v].n \in Nodes /\ Kid(op[v].n, Head(op[v].search)) # Nil
          BY <2>1, <3>1 DEF CallAt, InsertPc
        <4> QED BY <1>2, <1>3, <4>1 DEF SameBody, Kid
      <3>2. ASSUME op[v].m # Nil, heap[op[v].m].val # NoVal
            PROVE  heap'[op[v].m].val # NoVal
        BY <1>3, <2>1, <3>2 DEF SameBody
      <3> QED BY <1>2, <2>1, <3>1, <3>2 DEF CallAt, GoalPc
    <2> QED BY <2>2, <2>3, <2>4
  <1>14. FrozenStays
    BY <1>2, <1>3, <1>5 DEF FrozenStays, Touched, MineNext, Nodes
  <1> QED BY <1>6, <1>7, <1>8, <1>9, <1>10, <1>11, <1>12, <1>13, <1>14
          DEF IInv, Ownership, Calls, CallsVisible, CallsOwn

\* A frozen node's slot and leaf pointer are set.
TouchCtx(n, W, L) ==
    /\ Frozen(n) /\ W \in SlotState /\ L \in Nat /\ L <= Len(leaves')
    /\ heap[n].leaf # Nil => L = heap[n].leaf
    /\ heap[n].watch # "nil" => W # "nil"
    /\ heap[n].watch = "sealed" => W = "sealed"
    /\ leaves' \in Seq(SlotState) /\ Len(leaves) <= Len(leaves')
    /\ heap' = [heap EXCEPT ![n] = [heap[n] EXCEPT !.watch = W, !.leaf = L]]

\* A watch slot and a leaf pointer of a frozen node may change.
LEMMA TouchFrozen ==
    ASSUME IInv, NEW n \in Nodes, NEW W, NEW L, TouchCtx(n, W, L)
    PROVE  MemTouched
  <1> USE DEF TouchCtx
  <1> DEFINE x == [heap[n] EXCEPT !.watch = W, !.leaf = L]
  <1>1. HeapOK
    BY DEF IInv, TypeOK
  <1>2. heap \in Seq(NodeType) /\ n \in 1..Len(heap)
    BY <1>1 DEF HeapOK, Nodes
  <1>3. heap[n] \in NodeType
    BY <1>2
  <1>4. x \in NodeType
    BY <1>3 DEF NodeType
  <1>5. SameBody(heap[n], x) /\ x.watch = W /\ x.leaf = L
    BY <1>3 DEF NodeType, SameBody
  <1> HIDE DEF x
  <1>6. /\ heap' \in Seq(NodeType) /\ Len(heap') = Len(heap)
        /\ \A j \in 1..Len(heap) : heap'[j] = IF j = n THEN x ELSE heap[j]
    BY <1>2, <1>4, ExceptSeq DEF x
  <1>7. ASSUME NEW k \in Nodes PROVE Touched(k, heap'[k])
    <2>1. heap[k] \in NodeType /\ heap[k].leaf <= Len(leaves)
      BY <1>1, <1>2 DEF HeapOK, Nodes
    <2>2. heap[k].leaf \in Nat /\ Len(leaves) \in Nat /\ Len(leaves') \in Nat
      <3>1. heap[k].leaf \in Nat
        BY <2>1 DEF NodeType
      <3> QED BY <1>1, <3>1 DEF HeapOK
    <2>3. heap[k].leaf <= Len(leaves')
      BY <2>1, <2>2
    <2>4. heap'[k] = IF k = n THEN x ELSE heap[k]
      BY <1>6 DEF Nodes
    <2>5. CASE k = n
      BY <1>5, <2>4, <2>5 DEF Touched
    <2>6. CASE k # n
      BY <2>3, <2>4, <2>6 DEF Touched, SameBody
    <2> QED BY <2>5, <2>6
  <1> QED BY <1>6, <1>7 DEF MemTouched

\* No change at all is such a change.
LEMMA MemStays ==
    ASSUME IInv, heap' = heap, leaves' \in Seq(SlotState),
           Len(leaves) <= Len(leaves')
    PROVE  MemTouched
  <1>1. HeapOK
    BY DEF IInv, TypeOK
  <1>2. ASSUME NEW k \in Nodes PROVE Touched(k, heap[k])
    <2>1. heap \in Seq(NodeType) /\ k \in 1..Len(heap)
      BY <1>1 DEF HeapOK, Nodes
    <2>2. heap[k] \in NodeType /\ heap[k].leaf <= Len(leaves)
      BY <1>1, <2>1 DEF HeapOK
    <2>3. heap[k].leaf \in Nat /\ Len(leaves) \in Nat /\ Len(leaves') \in Nat
      <3>1. heap[k].leaf \in Nat
        BY <2>2 DEF NodeType
      <3> QED BY <1>1, <3>1 DEF HeapOK
    <2> QED BY <2>2, <2>3 DEF Touched, SameBody
  <1> QED BY <1>1, <1>2 DEF MemTouched, HeapOK

\* Readers that do not move stand where they stood.
LEMMA ReadersStay ==
    ASSUME IInv, rd' = rd, leaves' \in Seq(SlotState),
           Len(leaves) <= Len(leaves')
    PROVE  ReadersOK
  <1>1. HeapOK /\ RdOK /\ SharedIsFrozen
    BY DEF IInv, TypeOK, Ownership
  <1>2. Len(leaves) \in Nat /\ Len(leaves') \in Nat
    BY <1>1 DEF HeapOK
  <1>3. \A r \in Reader : rd[r].leaf \in Nat
    BY <1>1 DEF RdOK, RdType
  <1> QED BY <1>1, <1>2, <1>3 DEF ReadersOK, RdOK, SharedIsFrozen


\* What is taken off the front of the Notifier's lists.
LEMMA TakeHead ==
    ASSUME NEW s \in Seq(Nat), s # <<>>
    PROVE  /\ Tail(s) \in Seq(Nat)
           /\ 1 \in 1..Len(s) /\ Head(s) = s[1]
           /\ \A i \in 1..Len(Tail(s)) :
                 i + 1 \in 1..Len(s) /\ Tail(s)[i] = s[i + 1]
  BY HeadTailProperties

\* Taking an entry off a list leaves the Notifier in good order.
LEMMA NotifierTail ==
    ASSUME NfOK(notifier)
    PROVE  /\ notifier.nodes # <<>> =>
                 /\ NfOK([notifier EXCEPT !.nodes = Tail(notifier.nodes)])
                 /\ Head(notifier.nodes) \in Nodes
                 /\ Frozen(Head(notifier.nodes))
           /\ notifier.leaves # <<>> =>
                 /\ NfOK([notifier EXCEPT !.leaves = Tail(notifier.leaves)])
                 /\ Head(notifier.leaves) \in 0..Len(leaves)
                 /\ Head(notifier.leaves) # Nil
           /\ notifier.values # <<>> =>
                 /\ NfOK([notifier EXCEPT !.values = Tail(notifier.values)])
                 /\ Head(notifier.values) \in Nodes
                 /\ Frozen(Head(notifier.values))
           /\ notifier.subtrees # <<>> =>
                 NfOK([notifier EXCEPT !.subtrees = Tail(notifier.subtrees),
                                       !.sealing = {Head(notifier.subtrees)}])
  <1>1. NotifierType(notifier) /\ Recorded(notifier)
    BY DEF NfOK
  <1>2. /\ notifier.nodes \in Seq(Nat) /\ notifier.leaves \in Seq(Nat)
        /\ notifier.values \in Seq(Nat) /\ notifier.subtrees \in Seq(Nat)
        /\ notifier \in [nodes : Seq(Nat), leaves : Seq(Nat),
                         values : Seq(Nat), subtrees : Seq(Nat),
                         sealing : SUBSET Nat]
    BY <1>1 DEF NotifierType
  <1>3. ASSUME notifier.nodes # <<>>
        PROVE  /\ NfOK([notifier EXCEPT !.nodes = Tail(notifier.nodes)])
               /\ Head(notifier.nodes) \in Nodes
               /\ Frozen(Head(notifier.nodes))
    <2>1. /\ Tail(notifier.nodes) \in Seq(Nat)
          /\ \A i \in 1..Len(Tail(notifier.nodes)) :
                /\ Tail(notifier.nodes)[i] \in Nodes
                /\ Frozen(Tail(notifier.nodes)[i])
          /\ Head(notifier.nodes) \in Nodes /\ Frozen(Head(notifier.nodes))
      BY <1>1, <1>2, <1>3, TakeHead DEF NotifierType, Recorded
    <2> QED BY <1>1, <1>2, <2>1 DEF NfOK, NotifierType, Recorded
  <1>4. ASSUME notifier.leaves # <<>>
        PROVE  /\ NfOK([notifier EXCEPT !.leaves = Tail(notifier.leaves)])
               /\ Head(notifier.leaves) \in 0..Len(leaves)
               /\ Head(notifier.leaves) # Nil
    <2>1. /\ Tail(notifier.leaves) \in Seq(Nat)
          /\ \A i \in 1..Len(Tail(notifier.leaves)) :
                /\ Tail(notifier.leaves)[i] \in 0..Len(leaves)
                /\ Tail(notifier.leaves)[i] # Nil
          /\ Head(notifier.leaves) \in 0..Len(leaves)
          /\ Head(notifier.leaves) # Nil
      BY <1>1, <1>2, <1>4, TakeHead DEF NotifierType, Recorded
    <2> QED BY <1>1, <1>2, <2>1 DEF NfOK, NotifierType, Recorded
  <1>5. ASSUME notifier.values # <<>>
        PROVE  /\ NfOK([notifier EXCEPT !.values = Tail(notifier.values)])
               /\ Head(notifier.values) \in Nodes
               /\ Frozen(Head(notifier.values))
    <2>1. /\ Tail(notifier.values) \in Seq(Nat)
          /\ \A i \in 1..Len(Tail(notifier.values)) :
                /\ Tail(notifier.values)[i] \in Nodes
                /\ Frozen(Tail(notifier.values)[i])
          /\ Head(notifier.values) \in Nodes /\ Frozen(Head(notifier.values))
      BY <1>1, <1>2, <1>5, TakeHead DEF NotifierType, Recorded
    <2> QED BY <1>1, <1>2, <2>1 DEF NfOK, NotifierType, Recorded
  <1>6. ASSUME notifier.subtrees # <<>>
        PROVE  NfOK([notifier EXCEPT !.subtrees = Tail(notifier.subtrees),
                                     !.sealing = {Head(notifier.subtrees)}])
    <2> DEFINE s == {Head(notifier.subtrees)}
    <2>1. /\ Tail(notifier.subtrees) \in Seq(Nat)
          /\ \A i \in 1..Len(Tail(notifier.subtrees)) :
                /\ Tail(notifier.subtrees)[i] \in Nodes
                /\ Visible(Main, Tail(notifier.subtrees)[i])
          /\ s \subseteq Nodes /\ s \in SUBSET Nat
          /\ \A n \in s : Visible(Main, n)
      BY <1>1, <1>2, <1>6, TakeHead DEF NotifierType, Recorded
    <2> HIDE DEF s
    <2>2. NfOK([notifier EXCEPT !.subtrees = Tail(notifier.subtrees),
                                !.sealing = s])
      BY <1>1, <1>2, <2>1 DEF NfOK, NotifierType, Recorded
    <2> QED BY <2>2 DEF s
  <1> QED BY <1>3, <1>4, <1>5, <1>6

\* Some leaf is sealed.
LEMMA SealLeaf ==
    ASSUME IInv, NEW l \in 1..Len(leaves), NEW s \in SlotState
    PROVE  /\ [leaves EXCEPT ![l] = s] \in Seq(SlotState)
           /\ Len([leaves EXCEPT ![l] = s]) = Len(leaves)
  <1>1. leaves \in Seq(SlotState)
    BY DEF IInv, TypeOK, HeapOK
  <1> QED BY <1>1, ExceptSeq

\* What is known of any node.
LEMMA NodeFacts ==
    ASSUME IInv, NEW n \in Nodes
    PROVE  /\ heap[n] \in NodeType /\ heap[n].leaf \in 0..Len(leaves)
           /\ heap[n].watch \in SlotState /\ heap[n].leaf \in Nat
           /\ leaves \in Seq(SlotState) /\ Len(leaves) \in Nat
           /\ Len(leaves) > 0 /\ sealedLeaf \in Nat
           /\ sealedLeaf <= Len(leaves) /\ "sealed" \in SlotState
           /\ heap \in Seq(NodeType)
  <1>1. HeapOK
    BY DEF IInv, TypeOK
  <1>2. heap[n] \in NodeType /\ heap[n].leaf <= Len(leaves)
        /\ leaves \in Seq(SlotState) /\ Len(leaves) > 0 /\ Len(leaves) \in Nat
        /\ heap \in Seq(NodeType)
    BY <1>1 DEF HeapOK, Nodes
  <1>3. heap[n].leaf \in Nat /\ heap[n].watch \in SlotState
    BY <1>2 DEF NodeType
  <1> QED BY <1>2, <1>3 DEF SlotState, sealedLeaf

\* sealValue on a frozen node, its slot set to W at the same time.
LEMMA SealValue ==
    ASSUME IInv, NEW n \in Nodes, Frozen(n), NEW W,
           W = heap[n].watch \/ W = "sealed",
           NEW h, h = [heap EXCEPT ![n] = [heap[n] EXCEPT !.watch = W]],
           heap' = sealValueHeap(h, n), leaves' = sealValueLeaves(n)
    PROVE  MemTouched /\ leaves' \in Seq(SlotState)
           /\ Len(leaves) <= Len(leaves')
  <1> DEFINE x == [heap[n] EXCEPT !.watch = W]
             L == IF heap[n].leaf = Nil THEN sealedLeaf ELSE heap[n].leaf
  <1>1. /\ heap[n] \in NodeType /\ heap[n].leaf \in 0..Len(leaves)
        /\ heap[n].watch \in SlotState /\ heap[n].leaf \in Nat
        /\ leaves \in Seq(SlotState) /\ Len(leaves) \in Nat
        /\ sealedLeaf \in Nat /\ sealedLeaf <= Len(leaves)
        /\ "sealed" \in SlotState /\ heap \in Seq(NodeType)
    BY NodeFacts
  <1>2. W \in SlotState /\ (heap[n].watch # "nil" => W # "nil")
        /\ (heap[n].watch = "sealed" => W = "sealed")
    BY <1>1
  <1>3. x \in NodeType /\ x.leaf = heap[n].leaf /\ n \in 1..Len(heap)
    BY <1>1, <1>2 DEF NodeType, Nodes
  <1>4. h \in Seq(NodeType) /\ h[n] = x
    <2>1. h = [heap EXCEPT ![n] = x]
      OBVIOUS
    <2>2. \A y \in NodeType : /\ [heap EXCEPT ![n] = y] \in Seq(NodeType)
                              /\ [heap EXCEPT ![n] = y][n] = y
      BY <1>1, <1>3, ExceptSeq
    <2> HIDE DEF x
    <2> QED BY <1>3, <2>1, <2>2
  <1>5. heap' = [heap EXCEPT ![n] = [heap[n] EXCEPT !.watch = W, !.leaf = L]]
    <2>1. CASE heap[n].leaf = Nil
      <3>1. heap' = [h EXCEPT ![n].leaf = sealedLeaf]
        BY <1>3, <1>4, <2>1 DEF sealValueHeap
      <3>2. heap' = [h EXCEPT ![n] = [x EXCEPT !.leaf = sealedLeaf]]
        BY <1>4, <3>1
      <3> QED BY <1>1, <2>1, <3>2
    <2>2. CASE heap[n].leaf # Nil
      <3>1. heap' = h
        BY <1>3, <1>4, <2>2 DEF sealValueHeap
      <3>2. x = [heap[n] EXCEPT !.watch = W, !.leaf = heap[n].leaf]
        BY <1>1 DEF NodeType
      <3> QED BY <2>2, <3>1, <3>2
    <2> QED BY <2>1, <2>2
  <1>6. leaves' \in Seq(SlotState) /\ Len(leaves') = Len(leaves)
    <2>1. CASE heap[n].leaf = Nil
      BY <1>1, <2>1 DEF sealValueLeaves
    <2>2. CASE heap[n].leaf # Nil
      <3>1. heap[n].leaf \in 1..Len(leaves)
        BY <1>1, <2>2 DEF Nil
      <3> QED BY <1>1, <2>2, <3>1, SealLeaf DEF sealValueLeaves
    <2> QED BY <2>1, <2>2
  <1>7. L \in Nat /\ L <= Len(leaves') /\ (heap[n].leaf # Nil => L = heap[n].leaf)
        /\ Len(leaves) <= Len(leaves')
    BY <1>1, <1>6
  <1> HIDE DEF L
  <1>8. TouchCtx(n, W, L)
    BY <1>2, <1>5, <1>6, <1>7 DEF TouchCtx
  <1> QED BY <1>6, <1>7, <1>8, TouchFrozen


\* Notify's four passes, one object a step.
LEMMA NotifyStep ==
    ASSUME IInv, Notify
    PROVE  IInv' /\ FrozenStays
  <1>0. NfOK(notifier) /\ leaves \in Seq(SlotState) /\ Len(leaves) \in Nat
    BY MainAssumption, Facts
  <1>1. CASE NotifyDone
    BY <1>1, NotifyDoneStep
  <1>2. ASSUME ~NotifyDone
        PROVE  /\ UNCHANGED <<txn, op, epochCounter, ops, txns>>
               /\ UNCHANGED pub /\ watches' \in Nat /\ rd' = rd
    BY <1>2, Counts
       DEF Notify, NotifyNode, NotifyLeaf, NotifyValue, NotifySubtree,
           SealSubtree, NotifyRest, count
  <1>3. ASSUME ~NotifyDone, MemTouched, NfOK(notifier'),
               leaves' \in Seq(SlotState), Len(leaves) <= Len(leaves')
        PROVE  IInv' /\ FrozenStays
    <2>1. ReadersOK
      BY <1>2, <1>3, ReadersStay
    <2>2. WatchCtx
      BY <1>2, <1>3, <2>1 DEF WatchCtx
    <2> QED BY <2>2, WatchKeeps
  <1>4. CASE NotifyNode /\ ~NotifyDone
    <2> DEFINE n == Head(notifier.nodes)
    <2>1. n \in Nodes /\ Frozen(n) /\ NfOK(notifier')
      BY <1>0, <1>4, NotifierTail DEF NotifyNode
    <2>2. heap' = [heap EXCEPT ![n].watch = "sealed"] /\ leaves' = leaves
      BY <1>4 DEF NotifyNode
    <2> HIDE DEF n
    <2>3. /\ heap[n] \in NodeType /\ heap[n].leaf \in Nat
          /\ heap[n].leaf <= Len(leaves) /\ "sealed" \in SlotState
      BY <2>1, NodeFacts
    <2>4. [heap[n] EXCEPT !.watch = "sealed"]
              = [heap[n] EXCEPT !.watch = "sealed", !.leaf = heap[n].leaf]
      BY <2>3 DEF NodeType
    <2>5. heap' = [heap EXCEPT ![n] = [heap[n] EXCEPT !.watch = "sealed"]]
      BY <2>2
    <2>6. TouchCtx(n, "sealed", heap[n].leaf)
      <3>1. heap' = [heap EXCEPT ![n] =
                       [heap[n] EXCEPT !.watch = "sealed", !.leaf = heap[n].leaf]]
        BY <2>4, <2>5, Zenon
      <3>2. leaves' = leaves
        BY <2>2
      <3> QED BY <1>0, <2>1, <2>3, <3>1, <3>2 DEF TouchCtx
    <2>7. MemTouched
      BY <2>1, <2>6, TouchFrozen
    <2> QED BY <1>0, <1>3, <1>4, <2>1, <2>2, <2>7
  <1>5. CASE NotifyLeaf /\ ~NotifyDone
    <2> DEFINE l == Head(notifier.leaves)
    <2>1. l \in 0..Len(leaves) /\ l # Nil /\ NfOK(notifier')
      BY <1>0, <1>5, NotifierTail DEF NotifyLeaf
    <2>2. leaves' = [leaves EXCEPT ![l] = "sealed"] /\ heap' = heap
      BY <1>5 DEF NotifyLeaf
    <2> HIDE DEF l
    <2>3. l \in 1..Len(leaves) /\ "sealed" \in SlotState
      BY <1>0, <2>1 DEF Nil, SlotState
    <2>4. leaves' \in Seq(SlotState) /\ Len(leaves') = Len(leaves)
      BY <2>2, <2>3, SealLeaf
    <2>5. MemTouched
      BY <1>0, <2>2, <2>4, MemStays
    <2> QED BY <1>0, <1>3, <1>5, <2>1, <2>4, <2>5
  <1>6. CASE NotifyValue /\ ~NotifyDone
    <2> DEFINE n == Head(notifier.values)
    <2>1. n \in Nodes /\ Frozen(n) /\ NfOK(notifier')
      BY <1>0, <1>6, NotifierTail DEF NotifyValue
    <2>2. heap' = sealValueHeap(heap, n) /\ leaves' = sealValueLeaves(n)
      BY <1>6 DEF NotifyValue
    <2> HIDE DEF n
    <2>3. heap = [heap EXCEPT ![n] = [heap[n] EXCEPT !.watch = heap[n].watch]]
      <3>1. heap[n] \in NodeType /\ heap \in Seq(NodeType)
        BY <2>1, NodeFacts
      <3>2. heap[n] = [heap[n] EXCEPT !.watch = heap[n].watch]
        BY <3>1 DEF NodeType
      <3> QED BY <3>1, <3>2
    <2>4. MemTouched /\ leaves' \in Seq(SlotState) /\ Len(leaves) <= Len(leaves')
      BY <2>1, <2>2, <2>3, SealValue
    <2> QED BY <1>3, <1>6, <2>1, <2>4
  <1>7. CASE NotifySubtree /\ ~NotifyDone
    <2>1. NfOK(notifier') /\ UNCHANGED <<heap, leaves>>
      BY <1>0, <1>7, NotifierTail DEF NotifySubtree, mem
    <2>2. MemTouched
      BY <1>0, <2>1, MemStays
    <2> QED BY <1>0, <1>3, <1>7, <2>1, <2>2
  <1>8. CASE SealSubtree /\ ~NotifyDone
    <2> DEFINE H(n) == [heap EXCEPT ![n].watch = "sealed"]
    <2>1. PICK n \in notifier.sealing :
              /\ IF heap[n].val # NoVal
                 THEN heap' = sealValueHeap(H(n), n) /\ leaves' = sealValueLeaves(n)
                 ELSE heap' = H(n) /\ leaves' = leaves
              /\ notifier' = [notifier EXCEPT
                   !.sealing = (notifier.sealing \ {n})
                                 \cup {Kid(n, b) : b \in Labels(n)}]
      BY <1>8 DEF SealSubtree
    <2>2. n \in Nodes /\ Visible(Main, n)
      BY <1>0 DEF NfOK, NotifierType, Recorded
    <2>3. txn[Main].epoch = 0
      BY <1>8, MainAssumption, Facts DEF SealSubtree, Notifying, CallAt
    <2>4. Frozen(n)
      BY <2>2, <2>3 DEF Frozen, Visible, Mine
    <2>5. NfOK(notifier')
      <3> DEFINE s == (notifier.sealing \ {n}) \cup {Kid(n, b) : b \in Labels(n)}
      <3>1. ASSUME NEW b \in Labels(n)
            PROVE  Kid(n, b) \in Nodes /\ Visible(Main, Kid(n, b))
        BY <2>2, MainAssumption, KidVisible DEF Labels
      <3>2. s \subseteq Nodes /\ s \in SUBSET Nat
            /\ \A k \in s : Visible(Main, k)
        BY <1>0, <3>1 DEF NfOK, NotifierType, Recorded, Nodes
      <3> HIDE DEF s
      <3>3. NfOK([notifier EXCEPT !.sealing = s])
        BY <1>0, <3>2 DEF NfOK, NotifierType, Recorded
      <3> QED BY <2>1, <3>3 DEF s
    <2>6. /\ heap[n] \in NodeType /\ heap[n].leaf \in Nat
          /\ heap[n].leaf <= Len(leaves) /\ "sealed" \in SlotState
      BY <2>2, NodeFacts
    <2>7. H(n) = [heap EXCEPT ![n] = [heap[n] EXCEPT !.watch = "sealed"]]
      OBVIOUS
    <2> HIDE DEF H
    <2>8. CASE heap[n].val # NoVal
      <3>1. heap' = sealValueHeap(H(n), n) /\ leaves' = sealValueLeaves(n)
        BY <2>1, <2>8
      <3>2. MemTouched /\ leaves' \in Seq(SlotState)
            /\ Len(leaves) <= Len(leaves')
        BY <2>2, <2>4, <2>7, <3>1, SealValue
      <3> QED BY <1>3, <1>8, <2>5, <3>2
    <2>9. CASE heap[n].val = NoVal
      <3>1. heap' = H(n) /\ leaves' = leaves
        BY <2>1, <2>9
      <3>2. [heap[n] EXCEPT !.watch = "sealed"]
                = [heap[n] EXCEPT !.watch = "sealed", !.leaf = heap[n].leaf]
        BY <2>6 DEF NodeType
      <3>3. TouchCtx(n, "sealed", heap[n].leaf)
        <4>1. heap' = [heap EXCEPT ![n] =
                         [heap[n] EXCEPT !.watch = "sealed",
                                         !.leaf = heap[n].leaf]]
          BY <2>7, <3>1, <3>2, Zenon
        <4> QED BY <1>0, <2>4, <2>6, <3>1, <4>1 DEF TouchCtx
      <3>4. MemTouched
        BY <2>2, <3>3, TouchFrozen
      <3> QED BY <1>0, <1>3, <1>8, <2>5, <3>1, <3>4
    <2> QED BY <2>8, <2>9
  <1> QED BY <1>1, <1>4, <1>5, <1>6, <1>7, <1>8 DEF Notify

-----------------------------------------------------------------------------
(* The readers *)

\* What a reader's new state must satisfy.
ReaderMove(r, x) ==
    /\ x \in RdType /\ rd' = [rd EXCEPT ![r] = x]
    /\ x.n \in Nodes /\ Frozen(x.n) /\ x.leaf <= Len(leaves')
    /\ leaves' \in Seq(SlotState) /\ Len(leaves) <= Len(leaves')

\* A reader moves to a frozen node, and the others stay.
LEMMA ReaderMoves ==
    ASSUME IInv, NEW r \in Reader, NEW x, ReaderMove(r, x)
    PROVE  ReadersOK
  <1> USE DEF ReaderMove
  <1>1. HeapOK /\ RdOK /\ SharedIsFrozen
    BY DEF IInv, TypeOK, Ownership
  <1>2. Len(leaves) \in Nat /\ Len(leaves') \in Nat /\ Len(heap) \in Nat
    BY <1>1 DEF HeapOK
  <1>3. \A q \in Reader : rd[q].leaf \in Nat
    BY <1>1 DEF RdOK, RdType
  <1>4. rd' \in [Reader -> RdType]
        /\ \A q \in Reader : rd'[q] = IF q = r THEN x ELSE rd[q]
    BY <1>1 DEF RdOK
  <1>5. x.n \in Ref /\ x.n # Nil
    BY <1>2 DEF Nodes, Ref, Nil
  <1> QED BY <1>1, <1>2, <1>3, <1>4, <1>5 DEF ReadersOK, RdOK, SharedIsFrozen

\* Where a reader is, it stands on a frozen node.
LEMMA ReaderStands ==
    ASSUME IInv, NEW r \in Reader, rd[r].pc # "idle"
    PROVE  /\ rd[r] \in RdType /\ rd[r].n \in Nodes /\ Frozen(rd[r].n)
           /\ rd[r].leaf \in Nat /\ rd[r].leaf <= Len(leaves)
  <1>1. RdOK /\ SharedIsFrozen /\ HeapOK
    BY DEF IInv, TypeOK, Ownership
  <1>2. rd[r] \in RdType /\ rd[r].n \in Ref /\ rd[r].n # Nil
        /\ rd[r].leaf <= Len(leaves) /\ Frozen(rd[r].n)
    BY <1>1 DEF RdOK, SharedIsFrozen
  <1>3. rd[r].leaf \in Nat
    BY <1>2 DEF RdType
  <1> QED BY <1>2, <1>3, MainAssumption, Facts

\* GetWatch begins at the root of a published tree.
LEMMA ReadStartStep ==
    ASSUME IInv, NEW r \in Reader, NEW kind \in {"key", "prefix"},
           NEW t \in trees, NEW k \in Key, ReadStart(r, kind, t, k)
    PROVE  IInv' /\ FrozenStays
  <1> DEFINE x == [IdleRd EXCEPT !.pc = "walk", !.kind = kind, !.tree = t,
                                 !.key = k, !.search = k, !.n = t]
  <1>1. /\ UNCHANGED <<txn, op, epochCounter, ops, txns>> /\ UNCHANGED pub
        /\ heap' = heap /\ leaves' = leaves /\ watches' = watches + 1
        /\ notifier' = notifier /\ rd' = [rd EXCEPT ![r] = x]
    BY DEF ReadStart, ReaderRest, Rd, mem
  <1>2. NfOK(notifier') /\ leaves' \in Seq(SlotState) /\ Len(leaves) \in Nat
    BY <1>1, MainAssumption, Facts
  <1>3. t \in Nodes /\ Frozen(t) /\ t \in Nat
    BY DEF IInv, TypeOK, PubOK, Ownership, SharedIsFrozen, Nodes
  <1>4. x \in RdType /\ x.n = t /\ x.leaf = 0
    BY <1>3, KeyAssumption DEF RdType, IdleRd, Nil
  <1> HIDE DEF x
  <1>5. ReaderMove(r, x)
    BY <1>1, <1>2, <1>3, <1>4 DEF ReaderMove
  <1>6. MemTouched
    BY <1>1, <1>2, MemStays
  <1>7. WatchCtx
    <2>1. ReadersOK
      BY <1>5, ReaderMoves
    <2> QED BY <1>1, <1>2, <1>6, <2>1, Counts DEF WatchCtx
  <1> QED BY <1>7, WatchKeeps

\* GetWatch goes down a level.
LEMMA ReadWalkStep ==
    ASSUME IInv, NEW r \in Reader, ReadDown(r) \/ ReadEnd(r)
    PROVE  IInv' /\ FrozenStays
  <1>1. /\ UNCHANGED <<txn, op, epochCounter, ops, txns>> /\ UNCHANGED pub
        /\ heap' = heap /\ leaves' = leaves /\ watches' = watches
        /\ notifier' = notifier /\ rd[r].pc = "walk"
    BY DEF ReadDown, ReadEnd, ReaderRest, mem
  <1>2. NfOK(notifier') /\ leaves' \in Seq(SlotState) /\ Len(leaves) \in Nat
        /\ MemTouched
    BY <1>1, MainAssumption, Facts, MemStays
  <1>3. /\ rd[r] \in RdType /\ rd[r].n \in Nodes /\ Frozen(rd[r].n)
        /\ rd[r].leaf \in Nat /\ rd[r].leaf <= Len(leaves)
    BY <1>1, ReaderStands
  <1>4. rd[r].search \in Seq(Byte)
    BY <1>3 DEF RdType
  <1>5. ReadersOK
    <2>1. CASE ReadDown(r)
      <3> DEFINE b == Head(rd[r].search)
                 c == Kid(rd[r].n, b)
                 d == Drop(rd[r].search, Len(heap[c].prefix))
                 y == [rd[r] EXCEPT !.n = c, !.search = d]
                 z == [rd[r] EXCEPT !.n = c, !.pc = "slot"]
      <3>1. c # Nil /\ (rd' = [rd EXCEPT ![r] = y] \/ rd' = [rd EXCEPT ![r] = z])
            /\ rd[r].search # <<>>
        BY <2>1 DEF ReadDown, Rd
      <3>2. b \in Byte
        BY <1>4, <3>1
      <3>3. c \in Nodes /\ Frozen(c)
        <4>1. c \in Ref
          BY <1>3, <3>2, MainAssumption, Facts DEF Kid
        <4>2. c \in Nodes
          BY <3>1, <4>1, MainAssumption, Facts
        <4> QED BY <1>3, <3>1, <3>2, <4>2
                DEF IInv, Ownership, OwnedBelowOwned, Kid, Frozen
      <3>4. c \in Nat /\ heap[c].prefix \in Seq(Byte)
        BY <3>3, MainAssumption, Facts DEF NodeType
      <3>5. d \in Seq(Byte)
        BY <1>4, <3>4 DEF Drop
      <3> HIDE DEF c, d
      <3>6. /\ y \in RdType /\ y.n = c /\ y.leaf = rd[r].leaf
            /\ z \in RdType /\ z.n = c /\ z.leaf = rd[r].leaf
        BY <1>3, <3>4, <3>5 DEF RdType
      <3> HIDE DEF y, z
      <3>7. ReaderMove(r, y) \/ ReaderMove(r, z)
        BY <1>1, <1>2, <1>3, <3>1, <3>3, <3>6 DEF ReaderMove
      <3> QED BY <3>7, ReaderMoves
    <2>2. CASE ReadEnd(r)
      <3> DEFINE p == IF /\ rd[r].search = <<>> /\ rd[r].kind = "key"
                         /\ heap[rd[r].n].val # NoVal
                      THEN "value" ELSE "slot"
                 y == [rd[r] EXCEPT !.pc = p]
      <3>1. rd' = [rd EXCEPT ![r] = y] /\ p \in {"value", "slot"}
        BY <2>2 DEF ReadEnd, Rd
      <3> HIDE DEF p
      <3>2. y \in RdType /\ y.n = rd[r].n /\ y.leaf = rd[r].leaf
        BY <1>3, <3>1 DEF RdType
      <3> HIDE DEF y
      <3>3. ReaderMove(r, y)
        BY <1>1, <1>2, <1>3, <3>1, <3>2 DEF ReaderMove
      <3> QED BY <3>3, ReaderMoves
    <2> QED BY <2>1, <2>2
  <1>6. WatchCtx
    BY <1>1, <1>2, <1>5, Counts DEF WatchCtx
  <1> QED BY <1>6, WatchKeeps

\* Watch.Chan on a node's slot.
LEMMA SlotChanStep ==
    ASSUME IInv, NEW r \in Reader, SlotChan(r)
    PROVE  IInv' /\ FrozenStays
  <1> DEFINE n == rd[r].n
             W == IF heap[n].watch = "nil" THEN "live" ELSE heap[n].watch
             x == [rd[r] EXCEPT !.pc = "watching"]
  <1>1. /\ UNCHANGED <<txn, op, epochCounter, ops, txns>> /\ UNCHANGED pub
        /\ leaves' = leaves /\ watches' = watches
        /\ notifier' = notifier /\ rd[r].pc = "slot"
        /\ rd' = [rd EXCEPT ![r] = x]
    BY DEF SlotChan, ReaderRest, Rd
  <1>2. NfOK(notifier') /\ leaves' \in Seq(SlotState) /\ Len(leaves) \in Nat
    BY <1>1, MainAssumption, Facts
  <1>3. /\ rd[r] \in RdType /\ n \in Nodes /\ Frozen(n)
        /\ rd[r].leaf \in Nat /\ rd[r].leaf <= Len(leaves)
    BY <1>1, ReaderStands
  <1>4. x \in RdType /\ x.n = n /\ x.leaf = rd[r].leaf
    BY <1>3 DEF RdType
  <1>5. /\ heap[n] \in NodeType /\ heap[n].leaf \in Nat
        /\ heap[n].leaf <= Len(leaves) /\ heap[n].watch \in SlotState
        /\ heap \in Seq(NodeType)
    BY <1>3, NodeFacts
  <1>6. W \in SlotState /\ (heap[n].watch # "nil" => W = heap[n].watch)
        /\ W # "nil"
    BY <1>5 DEF SlotState
  <1>7. heap' = [heap EXCEPT ![n] = [heap[n] EXCEPT !.watch = W]]
    BY DEF SlotChan
  <1> HIDE DEF n, x, W
  <1>8. [heap[n] EXCEPT !.watch = W]
            = [heap[n] EXCEPT !.watch = W, !.leaf = heap[n].leaf]
    BY <1>5 DEF NodeType
  <1>9. TouchCtx(n, W, heap[n].leaf)
    <2>1. heap' = [heap EXCEPT ![n] =
                     [heap[n] EXCEPT !.watch = W, !.leaf = heap[n].leaf]]
      BY <1>7, <1>8, Zenon
    <2>2. leaves' = leaves
      BY <1>1
    <2> QED BY <1>2, <1>3, <1>5, <1>6, <2>1, <2>2 DEF TouchCtx
  <1>10. MemTouched
    BY <1>3, <1>9, TouchFrozen
  <1>11. ReaderMove(r, x)
    BY <1>1, <1>2, <1>3, <1>4 DEF ReaderMove
  <1>12. WatchCtx
    <2>1. ReadersOK
      BY <1>11, ReaderMoves
    <2> QED BY <1>1, <1>2, <1>10, <2>1, Counts DEF WatchCtx
  <1> QED BY <1>12, WatchKeeps

\* Watch.Chan on a value.
LEMMA ValueChanStep ==
    ASSUME IInv, NEW r \in Reader, ValueChan(r)
    PROVE  IInv' /\ FrozenStays
  <1> DEFINE n == rd[r].n
             l == heap[n].leaf
             L == IF l = Nil THEN Len(leaves) + 1 ELSE l
             x == [rd[r] EXCEPT !.pc = "watching", !.leaf = L]
  <1>1. /\ UNCHANGED <<txn, op, epochCounter, ops, txns>> /\ UNCHANGED pub
        /\ watches' = watches
        /\ notifier' = notifier /\ rd[r].pc = "value"
        /\ rd' = [rd EXCEPT ![r] = x]
    BY DEF ValueChan, ReaderRest, Rd
  <1>2. NfOK(notifier) /\ leaves \in Seq(SlotState) /\ Len(leaves) \in Nat
    BY MainAssumption, Facts
  <1>3. /\ rd[r] \in RdType /\ n \in Nodes /\ Frozen(n)
    BY <1>1, ReaderStands
  <1>4. /\ heap[n] \in NodeType /\ l \in Nat
        /\ l \in 0..Len(leaves) /\ heap[n].watch \in SlotState
        /\ heap \in Seq(NodeType)
    BY <1>3, NodeFacts
  <1>5. L \in Nat /\ (l # Nil => L = l)
    BY <1>2, <1>4
  <1>6. CASE l = Nil
    <2>1. heap' = [heap EXCEPT ![n].leaf = Len(leaves) + 1]
          /\ leaves' = Append(leaves, "live")
      BY <1>6 DEF ValueChan
    <2>2. leaves' \in Seq(SlotState) /\ Len(leaves') = Len(leaves) + 1
          /\ L <= Len(leaves') /\ Len(leaves) <= Len(leaves')
      BY <1>2, <1>6, <2>1 DEF SlotState
    <2>3. heap' = [heap EXCEPT ![n] = [heap[n] EXCEPT !.leaf = L]]
      BY <1>6, <2>1
    <2>4. [heap[n] EXCEPT !.leaf = L]
              = [heap[n] EXCEPT !.watch = heap[n].watch, !.leaf = L]
      BY <1>4, <1>5 DEF NodeType
    <2> HIDE DEF L
    <2>5. heap' = [heap EXCEPT ![n] =
                     [heap[n] EXCEPT !.watch = heap[n].watch, !.leaf = L]]
      BY <2>3, <2>4, Zenon
    <2>6. TouchCtx(n, heap[n].watch, L)
      BY <1>3, <1>4, <1>5, <2>2, <2>5 DEF TouchCtx
    <2>7. MemTouched
      BY <1>3, <2>6, TouchFrozen
    <2>8. x \in RdType /\ x.n = n /\ x.leaf = L
      BY <1>3, <1>5 DEF RdType
    <2> HIDE DEF x
    <2>9. ReaderMove(r, x)
      BY <1>1, <1>3, <2>2, <2>8 DEF ReaderMove
    <2>10. ReadersOK
      BY <2>9, ReaderMoves
    <2>11. WatchCtx
      BY <1>1, <1>2, <2>7, <2>10, Counts DEF WatchCtx
    <2> QED BY <2>11, WatchKeeps
  <1>7. CASE l # Nil
    <2> DEFINE s == IF leaves[l] = "nil" THEN "live" ELSE leaves[l]
    <2>1. heap' = heap /\ leaves' = [leaves EXCEPT ![l] = s]
      BY <1>7 DEF ValueChan
    <2>2. l \in 1..Len(leaves)
      BY <1>2, <1>4, <1>7 DEF Nil
    <2>3. s \in SlotState
      BY <1>2, <2>2 DEF SlotState
    <2> HIDE DEF s
    <2>4. leaves' \in Seq(SlotState) /\ Len(leaves') = Len(leaves)
      BY <2>1, <2>2, <2>3, SealLeaf
    <2>5. L = l /\ L <= Len(leaves') /\ Len(leaves) <= Len(leaves')
      BY <1>2, <1>5, <1>7, <2>2, <2>4
    <2> HIDE DEF L, l
    <2>7. MemTouched
      BY <2>1, <2>4, <2>5, MemStays
    <2>8. x \in RdType /\ x.n = n /\ x.leaf = L
      BY <1>3, <1>5 DEF RdType
    <2> HIDE DEF x
    <2>9. ReaderMove(r, x)
      BY <1>1, <1>3, <2>4, <2>5, <2>8 DEF ReaderMove
    <2>10. ReadersOK
      BY <2>9, ReaderMoves
    <2>11. WatchCtx
      BY <1>1, <1>2, <2>7, <2>10, Counts DEF WatchCtx
    <2> QED BY <2>11, WatchKeeps
  <1> QED BY <1>6, <1>7

-----------------------------------------------------------------------------
(* The theorems *)

\* The state a run starts from: one committed tree, nobody in a call.
LEMMA InitIInv ==
    ASSUME Init
    PROVE  IInv
  <1>1. /\ heap \in Seq(NodeType) /\ Len(heap) \in Nat /\ Len(heap) > 0
        /\ leaves = <<"sealed">> /\ epochCounter = InitEpoch
        /\ InitEpoch \in Nat
    BY InitHeapAssumption, InitEpochAssumption DEF Init
  <1>2. leaves \in Seq(SlotState) /\ Len(leaves) = 1
    BY <1>1 DEF SlotState
  <1>3. ASSUME NEW n \in Nodes
        PROVE  /\ heap[n].epoch <= epochCounter /\ heap[n].leaf = Nil
               /\ heap[n].watch = "nil" /\ heap[n] \in NodeType
               /\ \A b \in Byte : heap[n].kids[b] \in Ref
    <2>1. /\ heap[n] \in NodeType /\ heap[n].epoch <= epochCounter
          /\ heap[n].leaf = Nil /\ heap[n].watch = "nil"
          /\ \A b \in Byte : heap[n].kids[b] <= Len(heap)
      BY <1>1, InitHeapAssumption DEF Init, Nodes
    <2>2. \A b \in Byte : heap[n].kids[b] \in Nat
      BY <2>1 DEF NodeType
    <2> QED BY <1>1, <2>1, <2>2 DEF Ref
  <1>4. txn = [w \in Writer |-> NoTxn] /\ op = [w \in Writer |-> IdleOp]
        /\ rd = [r \in Reader |-> IdleRd] /\ notifier = NoNotifier
    BY DEF Init
  <1>5. \A w \in Writer : /\ txn[w].root = Nil /\ txn[w].epoch = 0
                          /\ txn[w] = NoTxn /\ op[w] = IdleOp
    BY <1>4 DEF NoTxn
  <1>6. \A w \in Writer, n \in Nodes : ~Mine(w, n)
    BY <1>5 DEF Mine
  <1>7. 1 \in Nodes /\ 0 \in Ref
    BY <1>1 DEF Nodes, Ref
  <1>8. /\ IdleOp \in OpType /\ IdleOp.n = 0 /\ IdleOp.parent = 0
        /\ IdleOp.m = 0 /\ IdleOp.path = <<>> /\ IdleOp.pc = "idle"
    BY EmptySeq DEF IdleOp, OpType, PathType, Nil, NoVal
  <1>9. IdleRd \in RdType /\ IdleRd.n = 0 /\ IdleRd.leaf = 0
        /\ IdleRd.pc = "idle"
    BY EmptySeq DEF IdleRd, RdType, Nil
  <1>10. HeapOK
    BY <1>1, <1>2, <1>3 DEF HeapOK, Nil
  <1>11. TxnOK
    BY <1>1, <1>4, <1>7 DEF TxnOK, NoTxn, Nil
  <1>12. OpOK
    BY <1>4, <1>7, <1>8 DEF OpOK
  <1>13. NotifierType(notifier) /\ Recorded(notifier)
    BY <1>4, EmptySeq DEF NotifierType, Recorded, NoNotifier
  <1>14. PubOK /\ trees = {1}
    BY <1>7 DEF PubOK, Init
  <1>15. RdOK
    BY <1>2, <1>4, <1>7, <1>9 DEF RdOK
  <1>16. TypeOK
    BY <1>10, <1>11, <1>12, <1>13, <1>14, <1>15 DEF TypeOK, NotifierOK, Init
  <1>17. Calls
    BY <1>5, <1>8 DEF Calls, CallAt, WritePc, InsertPc, GoalPc, Nil
  <1>18. Epochs
    BY <1>1, <1>3, <1>5 DEF Epochs
  <1>19. OwnedBelowOwned /\ WatchedIsFrozen /\ LeafOnCopies
    <2>1. \A n \in Nodes, b \in Byte :
             heap[n].kids[b] # Nil => heap[n].kids[b] \in Nodes
      BY <1>1, <1>3 DEF Ref, Nodes, Nil
    <2> QED BY <1>3, <1>6, <2>1
            DEF OwnedBelowOwned, WatchedIsFrozen, LeafOnCopies
  <1>20. SharedIsFrozen
    BY <1>4, <1>6, <1>7, <1>9, <1>14 DEF SharedIsFrozen, Frozen, Nil
  <1>21. CallsVisible /\ CallsOwn
    BY <1>5, <1>8 DEF CallsVisible, CallVisible, CallsOwn, CallOwns, Nil
  <1> QED BY <1>13, <1>16, <1>17, <1>18, <1>19, <1>20, <1>21
          DEF IInv, Ownership, RecordedIsFrozen

\* Nothing happens.
LEMMA StutterStep ==
    ASSUME IInv, UNCHANGED vars
    PROVE  IInv' /\ FrozenStays
  <1>1. /\ UNCHANGED <<txn, op, epochCounter, ops, txns>> /\ UNCHANGED pub
        /\ heap' = heap /\ leaves' = leaves /\ watches' = watches
        /\ notifier' = notifier /\ rd' = rd
    BY DEF vars, pub
  <1>2. NfOK(notifier') /\ leaves' \in Seq(SlotState) /\ Len(leaves) \in Nat
    BY <1>1, MainAssumption, Facts
  <1>3. MemTouched /\ ReadersOK
    BY <1>1, <1>2, MemStays, ReadersStay
  <1>4. WatchCtx
    BY <1>1, <1>2, <1>3, Counts DEF WatchCtx
  <1> QED BY <1>4, WatchKeeps

\* Whatever a writer does keeps the invariant.
LEMMA WriterStep ==
    ASSUME IInv, NEW w \in Writer, Begin(w) \/ Step(w)
    PROVE  IInv' /\ FrozenStays
  <1>1. CASE Begin(w)
    <2>1. ASSUME NEW root \in trees, Txn(w, root) PROVE IInv' /\ FrozenStays
      BY <2>1, TxnStep
    <2>2. ASSUME NEW k \in Key, Insert(w, k) \/ Delete(w, k) \/ DeletePrefix(w, k)
          PROVE  IInv' /\ FrozenStays
      BY <2>2, StartStep
    <2> QED BY <1>1, <2>1, <2>2, FreezeStep, CommitStep, AbortStep DEF Begin
  <1>2. CASE InsertStep(w)
    BY <1>2, InsertValueStep, InsertOwnStep, InsertHangStep, InsertDownStep,
       InsertSplitCopyStep, InsertSplitStep DEF InsertStep
  <1>3. CASE DeleteStep(w)
    BY <1>3, FindStep, FindHitStep, DeleteSwitchStep, DeleteAllStep,
       OwnPathStep, CutStep, PullStep, FoldStep, ClearStep DEF DeleteStep
  <1> QED BY <1>1, <1>2, <1>3 DEF Step

\* Whatever a reader does keeps it.
LEMMA ReaderStep ==
    ASSUME IInv, NEW r \in Reader, Read(r)
    PROVE  IInv' /\ FrozenStays
  BY ReadWalkStep, SlotChanStep, ValueChanStep DEF Read

\* Every step of everybody keeps the ownership discipline, and with it every
\* frozen node.
LEMMA NextStep ==
    ASSUME IInv, [Next]_vars
    PROVE  IInv' /\ FrozenStays
  <1>1. ASSUME NEW w \in Writer, Begin(w) \/ Step(w) PROVE IInv' /\ FrozenStays
    BY <1>1, WriterStep
  <1>2. ASSUME NEW r \in Reader, Read(r) PROVE IInv' /\ FrozenStays
    BY <1>2, ReaderStep
  <1>3. ASSUME NEW r \in Reader, NEW kind \in {"key", "prefix"},
               NEW t \in trees, NEW k \in Key, ReadStart(r, kind, t, k)
        PROVE  IInv' /\ FrozenStays
    BY <1>3, ReadStartStep
  <1>4. CASE Notify
    BY <1>4, NotifyStep
  <1>5. CASE Quiet \/ UNCHANGED vars
    BY <1>5, StutterStep DEF Quiet
  <1> QED BY <1>1, <1>2, <1>3, <1>4, <1>5 DEF Next

\* The inductive invariant: types, where each call is, and the ownership
\* discipline of copy-on-write (own, Freeze, Notify) for any number of
\* writers, readers, keys and operations.
THEOREM Invariance == Spec => []IInv
  <1>1. Init => IInv
    BY InitIInv
  <1>2. IInv /\ [Next]_vars => IInv'
    BY NextStep
  <1> QED BY <1>1, <1>2, PTL DEF Spec

\* Every pointer the write path, the Notifier or a reader holds is valid, and
\* every field keeps its type.
THEOREM TypeCorrect == Spec => []TypeOK
  <1>1. IInv => TypeOK
    BY DEF IInv
  <1> QED BY <1>1, Invariance, PTL

\* begin never hands an epoch out twice, so no two transactions and no later
\* one can take each other's nodes for their own (owns).
THEOREM EpochsUnique == Spec => []Epochs
  <1>1. IInv => Epochs
    BY DEF IInv, Ownership
  <1> QED BY <1>1, Invariance, PTL

\* Published and frozen trees, and what readers stand on, are nodes that no
\* open transaction may mutate in place.
THEOREM Isolation == Spec => []SharedIsFrozen
  <1>1. IInv => SharedIsFrozen
    BY DEF IInv, Ownership
  <1> QED BY <1>1, Invariance, PTL

\* A node that a transaction may mutate hangs only below nodes it may mutate
\* (own, link, mergeChild, the split), so no published tree leads to one.
THEOREM PrivateBelowPrivate == Spec => []OwnedBelowOwned
  <1>1. IInv => OwnedBelowOwned
    BY DEF IInv, Ownership
  <1> QED BY <1>1, Invariance, PTL

\* A node somebody has a watch channel of is never mutated again.
THEOREM WatchedNodesFrozen == Spec => []WatchedIsFrozen
  <1>1. IInv => WatchedIsFrozen
    BY DEF IInv, Ownership
  <1> QED BY <1>1, Invariance, PTL

\* copyNode, mergeChild and setValue keep the leaf of an older value with
\* every copy of it, which is what lets dropLeaf find it.
THEOREM LeavesOnCopies == Spec => []LeafOnCopies
  <1>1. IInv => LeafOnCopies
    BY DEF IInv, Ownership
  <1> QED BY <1>1, Invariance, PTL

\* Notify never follows a nil leaf, and seals nodes that nobody may mutate.
THEOREM NotifierSafe == Spec => []RecordedIsFrozen
  <1>1. IInv => RecordedIsFrozen
    BY DEF IInv, Ownership
  <1> QED BY <1>1, Invariance, PTL

\* No step of a writer, of Notify or of a reader changes the contents of a
\* node that is frozen, or makes anybody its owner again.
THEOREM Immutability == Spec => FrozenImmutable
  <1>1. IInv /\ [Next]_vars => [FrozenStays]_vars
    BY NextStep
  <1> QED BY <1>1, Invariance, PTL DEF Spec, FrozenImmutable


=============================================================================
