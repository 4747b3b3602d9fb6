------------------------------- MODULE RadixTxn -------------------------------
(***************************************************************************)
(* The write path of the radix tree (internal/radix/txn.go, node.go): the  *)
(* nodes in memory, write transactions that copy what they do not own and  *)
(* mutate in place what they do, the Notifier that collects what a         *)
(* transaction replaced, and readers that walk published trees and ask for *)
(* watch channels while all of this goes on.                               *)
(*                                                                         *)
(* Grain.  A step of a writer makes at most one access to memory that      *)
(* another goroutine may touch: the leaf pointer of a published node       *)
(* (leafOf), the epoch counter, a watch slot.  Everything else it touches  *)
(* is private to it, which is what the theorems of RadixTxn_proofs show.   *)
(* The races inside leafOf, valueChan, sealValue and the watch slot itself *)
(* are the subject of module WatchSlot; here each is one atomic step.      *)
(*                                                                         *)
(* Data.  A node's bitmap, child count and child array are one function    *)
(* from labels to children (Nil: no such child), so the rank of a label is *)
(* the label itself.  The value is a number, NoVal when valueBit is clear. *)
(***************************************************************************)
EXTENDS Naturals, Sequences, FiniteSets

CONSTANTS
    Byte,        \* the labels of edges: a finite set of numbers
    Key,         \* the keys (and prefixes) that operations are called with
    Writer,      \* goroutines that run write transactions
    Main,        \* the one whose transactions carry a Notifier; the others
                 \* fork published trees and track nothing (nf = nil)
    Reader,      \* goroutines that look keys up and watch them
    Classes,     \* the sizes of child arrays: 2, 4, ... 256 in the safe build,
                 \* 4, 8, ... 256 in the other
    InitHeap,    \* the nodes of the committed tree the run starts from; its
                 \* root is node 1.  New() is a single empty node
    InitEpoch,   \* the epochs handed out while that tree was built
    MaxOps,      \* bound: calls of Insert, Delete, DeletePrefix
    MaxTxns,     \* bound: transactions started
    MaxWatches   \* bound: lookups made by readers

Nil == 0
NoVal == 0

\* What a watch slot holds: nothing yet, a channel somebody was given, or the
\* closed channel that says the object is stale.
SlotState == {"nil", "live", "sealed"}

\* The leaf every value gets that left the tree before it needed one.
sealedLeaf == 1

NodeType ==
    [prefix : Seq(Byte),      \* path segment
     val    : Nat,            \* value, NoVal if no key ends here
     kids   : [Byte -> Nat],  \* children by label
     cap    : Nat,            \* room in the child array
     leaf   : Nat,            \* identity of the value, created lazily
     epoch  : Nat,            \* the transaction epoch that created the node
     lob    : {0, 1},         \* leafOwnedBit: the value was stored in it too
     watch  : SlotState]      \* the node's own watch slot

NoKids == [b \in Byte |-> Nil]

EmptyNode(e) == [prefix |-> <<>>, val |-> NoVal, kids |-> NoKids, cap |-> 0,
                 leaf |-> Nil, epoch |-> e, lob |-> 0, watch |-> "nil"]

\* newNode: c is the smallest class with room for k children, or the largest
\* class when none has.
IsClass(c, k) == \/ c >= k /\ \A d \in Classes : d >= k => c <= d
                 \/ \A d \in Classes : d < k /\ d <= c
Class(k) == IF k = 0 THEN 0 ELSE CHOOSE c \in Classes : IsClass(c, k)

ASSUME ByteAssumption == Byte \subseteq Nat /\ IsFiniteSet(Byte)
ASSUME KeyAssumption == Key \subseteq Seq(Byte)
ASSUME MainAssumption == Main \in Writer
ASSUME ClassesAssumption ==
    /\ Classes \subseteq Nat \ {0}
    /\ \A k \in 1..(2 * Cardinality(Byte) + 1) : \E c \in Classes : IsClass(c, k)
\* The largest class has room for a child under every label.
ASSUME RoomAssumption == \E c \in Classes : c >= Cardinality(Byte)
ASSUME InitEpochAssumption == InitEpoch \in Nat
\* A bulk-loaded tree nobody has watched: one epoch, no leaves, no channels.
ASSUME InitHeapAssumption ==
    /\ InitHeap \in Seq(NodeType) /\ Len(InitHeap) > 0
    /\ \A n \in 1..Len(InitHeap) :
          /\ InitHeap[n].epoch <= InitEpoch
          /\ InitHeap[n].leaf = Nil /\ InitHeap[n].watch = "nil"
          /\ \A b \in Byte : InitHeap[n].kids[b] <= Len(InitHeap)
\* It is listed from the root down, and it is what Insert and Delete make: the
\* segment of a child starts with its label, a node below the root has a value
\* or two children, and there is room for the children a node has.
ASSUME InitTreeAssumption ==
    LET Kids(n) == {b \in Byte : InitHeap[n].kids[b] # Nil}
    IN  /\ InitHeap[1].prefix = <<>>
        /\ \A n \in 1..Len(InitHeap) :
              /\ \A b \in Kids(n) : LET c == InitHeap[n].kids[b] IN
                    n < c /\ InitHeap[c].prefix # <<>>
                    /\ Head(InitHeap[c].prefix) = b
              /\ n = 1 \/ InitHeap[n].val # NoVal \/ Cardinality(Kids(n)) >= 2
              /\ Cardinality(Kids(n)) <= InitHeap[n].cap
        /\ \A n, m \in 1..Len(InitHeap), b, c \in Byte :
              InitHeap[n].kids[b] # Nil /\ InitHeap[n].kids[b] = InitHeap[m].kids[c]
                 => n = m /\ b = c
        /\ \A m \in 2..Len(InitHeap) :
              \E n \in 1..Len(InitHeap), b \in Byte : InitHeap[n].kids[b] = m
\* A value stands for the call that stored it: no two nodes start with the same
\* one, and the calls of the run, numbered from 1, store others.
ASSUME InitValuesAssumption ==
    /\ MaxOps \in Nat
    /\ \A n, m \in 1..Len(InitHeap) : LET v == InitHeap[n].val IN
          v # NoVal => v \notin 1..MaxOps /\ (v = InitHeap[m].val => n = m)

VARIABLES
    heap,         \* the nodes, in the order they were allocated
    leaves,       \* the watch slots of the leaves
    epochCounter, \* the global counter epochs are drawn from
    txn,          \* per writer: the root and the epoch of its transaction
    op,           \* per writer: the locals of the call it is in
    notifier,     \* what Main's transaction has replaced so far
    current,      \* the root that Main published last
    trees,        \* every root that others may hold: committed or frozen
    lineage,      \* history: the roots Main committed, or froze and committed
    pend,         \* history: the roots Main froze in its open transaction
    rd,           \* per reader: the locals of GetWatch or seekPrefix
    ops, txns, watches  \* counters for the bounds; ops also makes fresh values

mem   == <<heap, leaves>>
pub   == <<current, trees, lineage, pend>>
count == <<ops, txns, watches>>
vars  == <<heap, leaves, epochCounter, txn, op, notifier, current, trees,
           lineage, pend, rd, ops, txns, watches>>

NoTxn == [root |-> Nil, epoch |-> 0]
IdleOp == [pc |-> "idle", call |-> "none", key |-> <<>>, search |-> <<>>,
           n |-> Nil, parent |-> Nil, l |-> 0, m |-> Nil, val |-> NoVal,
           path |-> <<>>, goal |-> "none", ret |-> NoVal]
NoNotifier == [nodes |-> <<>>, leaves |-> <<>>, values |-> <<>>,
               subtrees |-> <<>>, sealing |-> {}]
IdleRd == [pc |-> "idle", kind |-> "key", tree |-> Nil, key |-> <<>>,
           search |-> <<>>, n |-> Nil, leaf |-> Nil]

Init ==
    /\ heap = InitHeap
    /\ leaves = <<"sealed">>
    /\ epochCounter = InitEpoch
    /\ txn = [w \in Writer |-> NoTxn]
    /\ op = [w \in Writer |-> IdleOp]
    /\ notifier = NoNotifier
    /\ current = 1 /\ trees = {1} /\ lineage = {1} /\ pend = {}
    /\ rd = [r \in Reader |-> IdleRd]
    /\ ops = 0 /\ txns = 0 /\ watches = 0

-----------------------------------------------------------------------------
(* Nodes *)

Kid(n, b) == heap[n].kids[b]
Labels(n) == {b \in Byte : Kid(n, b) # Nil}
KidCount(n) == Cardinality(Labels(n))
Childless(n) == Labels(n) = {}
New == Len(heap) + 1            \* the next node to be allocated

\* hasPrefix is only called on a child found under search[1]: the first byte
\* is known to match and is not compared.
HasPrefix(n, search) ==
    /\ Len(heap[n].prefix) <= Len(search)
    /\ \A i \in 2..Len(heap[n].prefix) : heap[n].prefix[i] = search[i]

\* i is the length of the longest common prefix of a and b.
CommonPrefixLen(a, b, i) ==
    /\ i <= Len(a) /\ i <= Len(b)
    /\ \A j \in 1..i : a[j] = b[j]
    /\ i < Len(a) /\ i < Len(b) => a[i + 1] # b[i + 1]

Drop(s, i) == SubSeq(s, i + 1, Len(s))

-----------------------------------------------------------------------------
(* What Insert, Delete and DeletePrefix are built from *)

Owns(w, n) == heap[n].epoch = txn[w].epoch

\* Mutant: the counter is read and not advanced.
beginReuse(w) ==
    /\ txn' = [txn EXCEPT ![w].epoch = IF @ = 0 THEN epochCounter ELSE @]
    /\ UNCHANGED epochCounter
begin(w) ==
    /\ txn' = [txn EXCEPT ![w].epoch =
                             IF @ = 0 THEN epochCounter + 1 ELSE @]
    /\ epochCounter' = IF txn[w].epoch = 0 THEN epochCounter + 1
                                           ELSE epochCounter

dropNode(w, nf, n) ==
    IF w = Main THEN [nf EXCEPT !.nodes = Append(@, n)] ELSE nf
dropLeaf(w, nf, l) ==
    IF w = Main THEN [nf EXCEPT !.leaves = Append(@, l)] ELSE nf
dropValue(w, nf, n) ==
    IF w = Main THEN [nf EXCEPT !.values = Append(@, n)] ELSE nf
dropSubtree(w, nf, n) ==
    IF w = Main THEN [nf EXCEPT !.subtrees = Append(@, n)] ELSE nf

\* Mutant: the value of a published node is forgotten.
releaseValueOwned(w, nf, n) ==
    IF Owns(w, n) /\ heap[n].lob = 0 THEN dropLeaf(w, nf, heap[n].leaf) ELSE nf
\* Mutant: leafOwnedBit is not looked at.
releaseValueAny(w, nf, n) ==
    IF ~Owns(w, n) THEN dropValue(w, nf, n) ELSE dropLeaf(w, nf, heap[n].leaf)
releaseValue(w, nf, n) ==
    IF ~Owns(w, n) THEN dropValue(w, nf, n)
    ELSE IF heap[n].lob = 0 THEN dropLeaf(w, nf, heap[n].leaf)
    ELSE nf

\* Mutant: the value is released with the node it moves out of.
dropReplacedValue(w, nf, n) ==
    IF Owns(w, n) THEN nf ELSE dropNode(w, dropValue(w, nf, n), n)
dropReplaced(w, nf, n) == IF Owns(w, n) THEN nf ELSE dropNode(w, nf, n)

dropWithLeaf(w, nf, n) == dropReplaced(w, releaseValue(w, nf, n), n)

\* leafOf on a published node that holds a value creates the leaf if it does
\* not exist; an owned node's copy takes whatever the node has.
\* Mutant: the copy takes whatever leaf the published node has.
NeedsNoLeaf(w, n) == FALSE
NeedsLeaf(w, n) == heap[n].val # NoVal /\ ~Owns(w, n) /\ heap[n].leaf = Nil
shareLeaf(w, n) == IF heap[n].val = NoVal THEN Nil
                   ELSE IF NeedsLeaf(w, n) THEN Len(leaves) + 1
                   ELSE heap[n].leaf
WithLeaf(w, n) == IF NeedsLeaf(w, n)
                  THEN [heap EXCEPT ![n].leaf = Len(leaves) + 1] ELSE heap
\* Mutant: the pointer is stored, the leaf is not.
MakeNoLeaf(w, n) == UNCHANGED leaves
MakeLeaf(w, n) == leaves' = IF NeedsLeaf(w, n) THEN Append(leaves, "nil")
                                               ELSE leaves

copyShape(w, n, extra) ==
    [heap[n] EXCEPT !.val = NoVal, !.cap = Class(KidCount(n) + extra),
                    !.leaf = Nil, !.epoch = txn[w].epoch, !.lob = 0,
                    !.watch = "nil"]
copyNode(w, n, extra) ==
    [copyShape(w, n, extra) EXCEPT !.val = heap[n].val,
                                   !.leaf = shareLeaf(w, n)]
\* Mutant: leafOwnedBit is not set.
leafNodeUnmarked(w, prefix, v) ==
    [EmptyNode(txn[w].epoch) EXCEPT !.prefix = prefix, !.val = v]
leafNode(w, prefix, v) ==
    [EmptyNode(txn[w].epoch) EXCEPT !.prefix = prefix, !.val = v, !.lob = 1]

\* Mutant: the parent goes on pointing at the original.
linkNot(h, parent, l, c) == h
\* link puts c at parent.kids[l], or makes it the root.
link(h, parent, l, c) ==
    IF parent = Nil THEN h ELSE [h EXCEPT ![parent].kids[l] = c]
linkRoot(w, parent, c) ==
    txn' = IF parent = Nil THEN [txn EXCEPT ![w].root = c] ELSE txn

\* own(parent, l, n, extra): ownResult is the node it returns.
\* Mutants: the child to come is not counted; the epoch is not compared.
ownFitsNow(w, n, extra) == Owns(w, n) /\ KidCount(n) <= heap[n].cap
ownFitsAnyone(w, n, extra) == KidCount(n) + extra <= heap[n].cap
ownFits(w, n, extra) == Owns(w, n) /\ KidCount(n) + extra <= heap[n].cap
ownResult(w, n, extra) == IF ownFits(w, n, extra) THEN n ELSE New
ownKeep(w, n, extra) ==
    /\ ownFits(w, n, extra)
    /\ UNCHANGED <<heap, leaves, txn, notifier>>
ownGrow(w, n, extra) ==
    /\ Owns(w, n) /\ ~ownFits(w, n, extra)
    /\ heap' = Append(link(heap, op[w].parent, op[w].l, New),
                      [copyNode(w, n, KidCount(n) + extra)
                            EXCEPT !.lob = heap[n].lob])
    /\ linkRoot(w, op[w].parent, New)
    /\ UNCHANGED <<leaves, notifier>>
ownCopy(w, n, extra) ==
    /\ ~Owns(w, n)
    /\ heap' = Append(link(WithLeaf(w, n), op[w].parent, op[w].l, New),
                      copyNode(w, n, extra))
    /\ MakeLeaf(w, n)
    /\ linkRoot(w, op[w].parent, New)
    /\ notifier' = dropNode(w, notifier, n)
own(w, n, extra) ==
    ownKeep(w, n, extra) \/ ownGrow(w, n, extra) \/ ownCopy(w, n, extra)

\* ownValueless(parent, l, n), then the store of v by setValue (v = NoVal and
\* bit = 0 when Delete just takes the value away).
ownValueless(w, n, v, bit) ==
    LET nf == IF heap[n].val = NoVal THEN notifier
                                     ELSE releaseValue(w, notifier, n)
    IN  \/ /\ Owns(w, n)
           /\ heap' = [heap EXCEPT ![n] = [@ EXCEPT !.leaf = Nil, !.val = v,
                                                    !.lob = bit]]
           /\ notifier' = nf
           /\ UNCHANGED <<leaves, txn>>
        \/ /\ ~Owns(w, n)
           /\ heap' = Append(link(heap, op[w].parent, op[w].l, New),
                             [copyShape(w, n, 0) EXCEPT !.val = v, !.lob = bit])
           /\ linkRoot(w, op[w].parent, New)
           /\ notifier' = dropNode(w, nf, n)
           /\ UNCHANGED leaves

\* mergeChild(parent, l, n, c): n is already accounted for in nf.
mergeChild(w, nf, n, c) ==
    LET joined == heap[n].prefix \o heap[c].prefix
        p == op[w].parent
        l == op[w].l
    IN  /\ \/ /\ Owns(w, c) /\ ~Childless(c)
              /\ heap' = [[heap EXCEPT ![c].prefix = joined]
                                EXCEPT ![p].kids[l] = c]
           \/ /\ ~(Owns(w, c) /\ ~Childless(c))
              /\ heap' = Append(link(WithLeaf(w, c), p, l, New),
                                [copyNode(w, c, 0) EXCEPT
                                   !.prefix = joined,
                                   !.lob = IF Owns(w, c) THEN heap[c].lob
                                                         ELSE 0])
        /\ MakeLeaf(w, c)
        /\ notifier' = dropReplaced(w, nf, c)
        /\ UNCHANGED txn

-----------------------------------------------------------------------------
(* Transactions: Tree.Txn, Freeze, Commit, and giving up *)

Ready(w) == op[w].pc = "idle" /\ txn[w].root # Nil

\* Main writes on top of what it published last, a fork on any tree at all.
Txn(w, root) ==
    /\ op[w].pc = "idle" /\ txn[w].root = Nil
    /\ root \in IF w = Main THEN {current} ELSE trees
    /\ txns < MaxTxns /\ txns' = txns + 1
    /\ txn' = [txn EXCEPT ![w] = [root |-> root, epoch |-> 0]]
    /\ UNCHANGED <<mem, epochCounter, op, notifier, pub, rd, ops, watches>>

\* Mutant: the transaction keeps its epoch.
FreezeKeep(w) ==
    /\ Ready(w)
    /\ trees' = trees \cup {txn[w].root}
    /\ pend' = IF w = Main THEN pend \cup {txn[w].root} ELSE pend
    /\ UNCHANGED <<mem, epochCounter, txn, op, notifier, current, lineage, rd,
                   count>>
\* Freeze, and the tree it makes safe to share is shared.
Freeze(w) ==
    /\ Ready(w)
    /\ txn' = [txn EXCEPT ![w].epoch = 0]
    /\ trees' = trees \cup {txn[w].root}
    /\ pend' = IF w = Main THEN pend \cup {txn[w].root} ELSE pend
    /\ UNCHANGED <<mem, epochCounter, op, notifier, current, lineage, rd,
                   count>>

\* Commit and publication of the tree it returns; Main notifies next.
Commit(w) ==
    /\ Ready(w)
    /\ txn' = [txn EXCEPT ![w] = NoTxn]
    /\ trees' = trees \cup {txn[w].root}
    /\ IF w = Main
       THEN /\ current' = txn[w].root
            /\ lineage' = lineage \cup pend \cup {txn[w].root}
            /\ pend' = {}
       ELSE UNCHANGED <<current, lineage, pend>>
    /\ op' = [op EXCEPT ![w] = [IdleOp EXCEPT
                                  !.pc = IF w = Main THEN "notify" ELSE "idle"]]
    /\ UNCHANGED <<mem, epochCounter, notifier, rd, count>>

\* The transaction is dropped and the Notifier Reset: nobody hears of it.
Abort(w) ==
    /\ Ready(w)
    /\ txn' = [txn EXCEPT ![w] = NoTxn]
    /\ op' = [op EXCEPT ![w] = IdleOp]
    /\ IF w = Main THEN notifier' = NoNotifier /\ pend' = {}
                   ELSE UNCHANGED <<notifier, pend>>
    /\ UNCHANGED <<mem, epochCounter, current, trees, lineage, rd, count>>

-----------------------------------------------------------------------------
(* Insert *)

At(w, pc) == op[w].pc = pc
Goto(w, rec) == op' = [op EXCEPT ![w] = rec]
Return(w, r) == op' = [op EXCEPT ![w] = [IdleOp EXCEPT !.ret = r]]
Rest == <<epochCounter, pub, rd, count>>

Call(w, name, k, pc) ==
    [IdleOp EXCEPT !.pc = pc, !.call = name, !.key = k, !.search = k,
                   !.n = txn[w].root]

Insert(w, k) ==
    /\ Ready(w) /\ ops < MaxOps /\ ops' = ops + 1
    /\ begin(w)
    /\ Goto(w, [Call(w, "Insert", k, "insert") EXCEPT !.val = ops + 1])
    /\ UNCHANGED <<mem, notifier, pub, rd, txns, watches>>

\* The key ends at n: setValue.
InsertValue(w) ==
    /\ At(w, "insert") /\ op[w].search = <<>>
    /\ LET n == op[w].n
           v == op[w].val
       IN  \/ /\ heap[n].val # NoVal /\ Owns(w, n) /\ heap[n].lob = 1
              /\ heap' = [heap EXCEPT ![n].val = v]
              /\ UNCHANGED <<leaves, txn, notifier>>
           \/ /\ ~(heap[n].val # NoVal /\ Owns(w, n) /\ heap[n].lob = 1)
              /\ ownValueless(w, n, v, 1)
    /\ Return(w, heap[op[w].n].val)
    /\ UNCHANGED Rest

\* Every other turn of the loop makes n its own first.
InsertOwn(w) ==
    /\ At(w, "insert") /\ op[w].search # <<>>
    /\ LET n == op[w].n
           child == Kid(n, Head(op[w].search))
           extra == IF child = Nil THEN 1 ELSE 0
       IN  /\ own(w, n, extra)
           /\ Goto(w, [op[w] EXCEPT
                !.n = ownResult(w, n, extra),
                !.pc = IF child = Nil THEN "hang"
                       ELSE IF CommonPrefixLen(op[w].search, heap[child].prefix,
                                               Len(heap[child].prefix))
                       THEN "down" ELSE "split"])
    /\ UNCHANGED Rest

\* No edge for the next byte: a new leaf node below n.
InsertHang(w) ==
    /\ At(w, "hang")
    /\ heap' = Append([heap EXCEPT ![op[w].n].kids[Head(op[w].search)] = New],
                      leafNode(w, op[w].search, op[w].val))
    /\ Return(w, NoVal)
    /\ UNCHANGED <<leaves, txn, notifier, Rest>>

InsertDown(w) ==
    /\ At(w, "down")
    /\ LET b == Head(op[w].search)
           child == Kid(op[w].n, b)
       IN  Goto(w, [op[w] EXCEPT
             !.pc = "insert", !.parent = op[w].n, !.l = b, !.n = child,
             !.search = Drop(@, Len(heap[child].prefix))])
    /\ UNCHANGED <<mem, txn, notifier, Rest>>

\* Mutant: the child is trimmed where it is.
InsertSplitInPlace(w) ==
    /\ At(w, "split")
    /\ Goto(w, [op[w] EXCEPT !.pc = "fork", !.m = Kid(op[w].n,
                                                     Head(op[w].search))])
    /\ UNCHANGED <<mem, notifier, txn, Rest>>
\* The key diverges inside the child's segment.  The child is copied unless
\* it is owned ...
InsertSplitCopy(w) ==
    /\ At(w, "split")
    /\ LET child == Kid(op[w].n, Head(op[w].search))
       IN  \/ /\ Owns(w, child)
              /\ Goto(w, [op[w] EXCEPT !.pc = "fork", !.m = child])
              /\ UNCHANGED <<mem, notifier>>
           \/ /\ ~Owns(w, child)
              /\ heap' = Append(WithLeaf(w, child), copyNode(w, child, 0))
              /\ MakeLeaf(w, child)
              /\ notifier' = dropNode(w, notifier, child)
              /\ Goto(w, [op[w] EXCEPT !.pc = "fork", !.m = New])
    /\ UNCHANGED <<txn, Rest>>

\* ... trimmed, and hung with the new leaf below a node for the common part;
\* the value goes into that node itself if the key ends there.
InsertSplit(w) ==
    /\ At(w, "fork")
    /\ \E common \in 1..(Len(heap[op[w].m].prefix) - 1) :
        LET trimmed == op[w].m
            prefix == heap[trimmed].prefix
            search == op[w].search
            b == Head(search)
            split == [EmptyNode(txn[w].epoch) EXCEPT
                        !.prefix = SubSeq(prefix, 1, common),
                        !.kids = [@ EXCEPT ![prefix[common + 1]] = trimmed],
                        !.cap = Class(2)]
            h == [[heap EXCEPT ![trimmed].prefix = Drop(prefix, common)]
                        EXCEPT ![op[w].n].kids[b] = New]
        IN  /\ CommonPrefixLen(search, prefix, common)
            /\ \/ /\ common = Len(search)
                  /\ heap' = Append(h, [split EXCEPT !.val = op[w].val,
                                                     !.lob = 1])
               \/ /\ common < Len(search)
                  /\ heap' = Append(Append(h,
                       [split EXCEPT !.kids[search[common + 1]] = New + 1]),
                       leafNode(w, Drop(search, common), op[w].val))
    /\ Return(w, NoVal)
    /\ UNCHANGED <<leaves, txn, notifier, Rest>>

-----------------------------------------------------------------------------
(* Delete and DeletePrefix: a read-only descent, then the cut *)

Delete(w, k) ==
    /\ Ready(w) /\ ops < MaxOps /\ ops' = ops + 1
    /\ Goto(w, Call(w, "Delete", k, "find"))
    /\ UNCHANGED <<mem, epochCounter, txn, notifier, pub, rd, txns, watches>>

DeletePrefix(w, k) ==
    /\ Ready(w) /\ ops < MaxOps /\ ops' = ops + 1
    /\ Goto(w, Call(w, "DeletePrefix", k, "find"))
    /\ UNCHANGED <<mem, epochCounter, txn, notifier, pub, rd, txns, watches>>

\* The prefix ends strictly inside c's segment.
EndsInside(c, search) ==
    /\ Len(search) < Len(heap[c].prefix)
    /\ \A i \in 1..Len(search) : heap[c].prefix[i] = search[i]

\* The child the descent takes, if it can go on.
FindKid(w) == Kid(op[w].n, Head(op[w].search))
FindGoesOn(w) ==
    /\ FindKid(w) # Nil
    /\ \/ HasPrefix(FindKid(w), op[w].search)
       \/ op[w].call = "DeletePrefix" /\ EndsInside(FindKid(w), op[w].search)

FindDown(w) ==
    /\ At(w, "find") /\ op[w].search # <<>> /\ FindGoesOn(w)
    /\ LET c == FindKid(w)
       IN  Goto(w, [op[w] EXCEPT
             !.n = c,
             !.path = Append(@, [n |-> op[w].n, l |-> Head(op[w].search)]),
             !.search = IF HasPrefix(c, @) THEN Drop(@, Len(heap[c].prefix))
                                           ELSE <<>>])
    /\ UNCHANGED <<mem, txn, notifier, Rest>>

\* A miss leaves the tree and every watcher untouched.
FindMiss(w) ==
    /\ At(w, "find")
    /\ \/ op[w].search # <<>> /\ ~FindGoesOn(w)
       \/ /\ op[w].search = <<>> /\ op[w].call = "Delete"
          /\ heap[op[w].n].val = NoVal
    /\ Return(w, NoVal)
    /\ UNCHANGED <<mem, txn, notifier, Rest>>

FindHit(w) ==
    /\ At(w, "find") /\ op[w].search = <<>>
    /\ op[w].call = "Delete" => heap[op[w].n].val # NoVal
    /\ begin(w)
    /\ Goto(w, [op[w] EXCEPT
         !.pc = "remove", !.m = op[w].n,
         !.val = IF op[w].call = "Delete" THEN heap[op[w].n].val ELSE 1])
    /\ UNCHANGED <<mem, notifier, pub, rd, count>>

\* Mutant: the parent is never merged.
unlinkGoalCut(path) == "cut"
\* unlink's decision: a parent left with no value and one child is merged with
\* that child instead of being copied.  The root is exempt.
unlinkGoal(path) ==
    IF /\ Len(path) > 1
       /\ heap[path[Len(path)].n].val = NoVal
       /\ KidCount(path[Len(path)].n) = 2
    THEN "pull" ELSE "cut"

OwnPathFor(w, goal) == Goto(w, [op[w] EXCEPT !.pc = "ownpath", !.goal = goal])

\* Delete's switch.
DeleteRoot(w) ==
    /\ At(w, "remove") /\ op[w].call = "Delete" /\ op[w].path = <<>>
    /\ Goto(w, [op[w] EXCEPT !.pc = "clear"])
    /\ UNCHANGED <<mem, txn, notifier, Rest>>
DeleteLeaf(w) ==
    /\ At(w, "remove") /\ op[w].call = "Delete" /\ op[w].path # <<>>
    /\ Childless(op[w].m)
    /\ notifier' = dropWithLeaf(w, notifier, op[w].m)
    /\ OwnPathFor(w, unlinkGoal(op[w].path))
    /\ UNCHANGED <<mem, txn, Rest>>
DeleteInner(w) ==
    /\ At(w, "remove") /\ op[w].call = "Delete" /\ op[w].path # <<>>
    /\ ~Childless(op[w].m)
    /\ OwnPathFor(w, IF KidCount(op[w].m) = 1 THEN "fold" ELSE "clear")
    /\ UNCHANGED <<mem, txn, notifier, Rest>>

\* DeletePrefix records the whole subtree; at the root it installs a new one.
DeleteAll(w) ==
    /\ At(w, "remove") /\ op[w].call = "DeletePrefix" /\ op[w].path = <<>>
    /\ notifier' = dropSubtree(w, notifier, op[w].m)
    /\ heap' = Append(heap, EmptyNode(txn[w].epoch))
    /\ txn' = [txn EXCEPT ![w].root = New]
    /\ Return(w, op[w].val)
    /\ UNCHANGED <<leaves, Rest>>
DeleteSubtree(w) ==
    /\ At(w, "remove") /\ op[w].call = "DeletePrefix" /\ op[w].path # <<>>
    /\ notifier' = dropSubtree(w, notifier, op[w].m)
    /\ OwnPathFor(w, unlinkGoal(op[w].path))
    /\ UNCHANGED <<mem, txn, Rest>>

\* ownPath, a level at a time: the head of the path is made owned and becomes
\* the parent of the next.  "pull" leaves the last entry alone.
OwnPath(w) ==
    /\ At(w, "ownpath")
    /\ LET n == Head(op[w].path).n
           last == IF op[w].goal = "pull" THEN 2 ELSE 1
       IN  /\ own(w, n, 0)
           /\ Goto(w, [op[w] EXCEPT
                !.parent = ownResult(w, n, 0), !.l = Head(op[w].path).l,
                !.path = Tail(@),
                !.pc = IF Len(op[w].path) = last THEN op[w].goal ELSE @])
    /\ UNCHANGED Rest

\* delKid on the owned parent.
Cut(w) ==
    /\ At(w, "cut")
    /\ heap' = [heap EXCEPT ![op[w].parent].kids[op[w].l] = Nil]
    /\ Return(w, op[w].val)
    /\ UNCHANGED <<leaves, txn, notifier, Rest>>

\* unlink merges the parent, the one path entry left, with its other child.
Pull(w) ==
    /\ At(w, "pull")
    /\ LET n == Head(op[w].path).n
       IN  \E b \in Labels(n) \ {Head(op[w].path).l} :
              mergeChild(w, dropReplaced(w, notifier, n), n, Kid(n, b))
    /\ Return(w, op[w].val)
    /\ UNCHANGED Rest

\* Delete's node keeps a single child and is merged with it.
Fold(w) ==
    /\ At(w, "fold")
    /\ \E b \in Labels(op[w].m) :
          mergeChild(w, dropWithLeaf(w, notifier, op[w].m), op[w].m,
                     Kid(op[w].m, b))
    /\ Return(w, op[w].val)
    /\ UNCHANGED Rest

\* Delete's node stays, without its value.
Clear(w) ==
    /\ At(w, "clear")
    /\ ownValueless(w, op[w].m, NoVal, 0)
    /\ Return(w, op[w].val)
    /\ UNCHANGED Rest

-----------------------------------------------------------------------------
(* Notify: nodes, leaves, values, then subtrees *)

Notifying == op[Main].pc = "notify"
NotifyRest == <<epochCounter, txn, op, pub, rd, count>>

\* Mutant: a value without a leaf is left as it is.
sealValueSkip(h, n) == h
\* sealValue: the leaf's slot is sealed, a leaf that never existed becomes
\* sealedLeaf.
sealValueHeap(h, n) ==
    IF h[n].leaf = Nil THEN [h EXCEPT ![n].leaf = sealedLeaf] ELSE h
sealValueLeaves(n) ==
    IF heap[n].leaf = Nil THEN leaves
                          ELSE [leaves EXCEPT ![heap[n].leaf] = "sealed"]

NotifyNode ==
    /\ Notifying /\ notifier.nodes # <<>>
    /\ heap' = [heap EXCEPT ![Head(notifier.nodes)].watch = "sealed"]
    /\ notifier' = [notifier EXCEPT !.nodes = Tail(@)]
    /\ UNCHANGED <<leaves, NotifyRest>>

NotifyLeaf ==
    /\ Notifying /\ notifier.nodes = <<>> /\ notifier.leaves # <<>>
    /\ leaves' = [leaves EXCEPT ![Head(notifier.leaves)] = "sealed"]
    /\ notifier' = [notifier EXCEPT !.leaves = Tail(@)]
    /\ UNCHANGED <<heap, NotifyRest>>

NotifyValue ==
    /\ Notifying /\ notifier.nodes = <<>> /\ notifier.leaves = <<>>
    /\ notifier.values # <<>>
    /\ heap' = sealValueHeap(heap, Head(notifier.values))
    /\ leaves' = sealValueLeaves(Head(notifier.values))
    /\ notifier' = [notifier EXCEPT !.values = Tail(@)]
    /\ UNCHANGED NotifyRest

NotifySubtree ==
    /\ Notifying /\ notifier.nodes = <<>> /\ notifier.leaves = <<>>
    /\ notifier.values = <<>> /\ notifier.sealing = {}
    /\ notifier.subtrees # <<>>
    /\ notifier' = [notifier EXCEPT !.subtrees = Tail(@),
                                    !.sealing = {Head(notifier.subtrees)}]
    /\ UNCHANGED <<mem, NotifyRest>>

\* Mutant: a node is visited again and again.
SealSubtreeAgain ==
    /\ Notifying
    /\ \E n \in notifier.sealing :
          /\ heap' = [heap EXCEPT ![n].watch = "sealed"]
          /\ notifier' = [notifier EXCEPT
               !.sealing = @ \cup {Kid(n, b) : b \in Labels(n)}]
    /\ UNCHANGED <<leaves, NotifyRest>>
\* sealSubtree, a node at a time; the order among them is left open.
SealSubtree ==
    /\ Notifying
    /\ \E n \in notifier.sealing :
        LET h == [heap EXCEPT ![n].watch = "sealed"]
        IN  /\ IF heap[n].val # NoVal
               THEN heap' = sealValueHeap(h, n) /\ leaves' = sealValueLeaves(n)
               ELSE heap' = h /\ leaves' = leaves
            /\ notifier' = [notifier EXCEPT
                 !.sealing = (@ \ {n}) \cup {Kid(n, b) : b \in Labels(n)}]
    /\ UNCHANGED NotifyRest

\* Mutant: Notify may return early.
NotifyDoneEarly ==
    /\ Notifying
    /\ op' = [op EXCEPT ![Main] = IdleOp]
    /\ UNCHANGED <<mem, epochCounter, txn, notifier, pub, rd, count>>
NotifyDone ==
    /\ Notifying /\ notifier = NoNotifier
    /\ op' = [op EXCEPT ![Main] = IdleOp]
    /\ UNCHANGED <<mem, epochCounter, txn, notifier, pub, rd, count>>

-----------------------------------------------------------------------------
(* Readers: GetWatch and seekPrefix on a published tree, then Watch.Chan *)

ReaderRest == <<epochCounter, txn, op, notifier, pub, ops, txns>>
Rd(r, rec) == rd' = [rd EXCEPT ![r] = rec]

ReadStart(r, kind, t, k) ==
    /\ rd[r].pc \in {"idle", "watching"} /\ t \in trees
    /\ watches < MaxWatches /\ watches' = watches + 1
    /\ Rd(r, [IdleRd EXCEPT !.pc = "walk", !.kind = kind, !.tree = t,
                            !.key = k, !.search = k, !.n = t])
    /\ UNCHANGED <<mem, ReaderRest>>

\* One level down.  A child whose segment diverges is still the deepest node
\* of the search path, and the one to watch.
ReadDown(r) ==
    /\ rd[r].pc = "walk" /\ rd[r].search # <<>>
    /\ LET c == Kid(rd[r].n, Head(rd[r].search))
       IN  /\ c # Nil
           /\ Rd(r, IF HasPrefix(c, rd[r].search)
                    THEN [rd[r] EXCEPT !.n = c,
                            !.search = Drop(@, Len(heap[c].prefix))]
                    ELSE [rd[r] EXCEPT !.n = c, !.pc = "slot"])
    /\ UNCHANGED <<mem, ReaderRest, watches>>

ReadEnd(r) ==
    /\ rd[r].pc = "walk"
    /\ \/ rd[r].search = <<>>
       \/ rd[r].search # <<>> /\ Kid(rd[r].n, Head(rd[r].search)) = Nil
    /\ Rd(r, [rd[r] EXCEPT
         !.pc = IF /\ rd[r].search = <<>> /\ rd[r].kind = "key"
                   /\ heap[rd[r].n].val # NoVal
                THEN "value" ELSE "slot"])
    /\ UNCHANGED <<mem, ReaderRest, watches>>

\* Watch.Chan on a node's slot.
SlotChan(r) ==
    /\ rd[r].pc = "slot"
    /\ heap' = [heap EXCEPT ![rd[r].n].watch = IF @ = "nil" THEN "live" ELSE @]
    /\ Rd(r, [rd[r] EXCEPT !.pc = "watching"])
    /\ UNCHANGED <<leaves, ReaderRest, watches>>

\* Watch.Chan on a value: valueChan creates the leaf with the channel in it.
ValueChan(r) ==
    /\ rd[r].pc = "value"
    /\ LET l == heap[rd[r].n].leaf
       IN  \/ /\ l = Nil
              /\ heap' = [heap EXCEPT ![rd[r].n].leaf = Len(leaves) + 1]
              /\ leaves' = Append(leaves, "live")
              /\ Rd(r, [rd[r] EXCEPT !.pc = "watching",
                                     !.leaf = Len(leaves) + 1])
           \/ /\ l # Nil
              /\ leaves' = [leaves EXCEPT ![l] = IF @ = "nil" THEN "live"
                                                              ELSE @]
              /\ Rd(r, [rd[r] EXCEPT !.pc = "watching", !.leaf = l])
              /\ UNCHANGED heap
    /\ UNCHANGED <<ReaderRest, watches>>

-----------------------------------------------------------------------------
(* The specification *)

Begin(w) ==
    \/ \E root \in trees : Txn(w, root)
    \/ Freeze(w) \/ Commit(w) \/ Abort(w)
    \/ \E k \in Key : Insert(w, k) \/ Delete(w, k) \/ DeletePrefix(w, k)

InsertStep(w) == InsertValue(w) \/ InsertOwn(w) \/ InsertHang(w)
                 \/ InsertDown(w) \/ InsertSplitCopy(w) \/ InsertSplit(w)

DeleteStep(w) == FindDown(w) \/ FindMiss(w) \/ FindHit(w)
                 \/ DeleteRoot(w) \/ DeleteLeaf(w) \/ DeleteInner(w)
                 \/ DeleteAll(w) \/ DeleteSubtree(w)
                 \/ OwnPath(w) \/ Cut(w) \/ Pull(w) \/ Fold(w) \/ Clear(w)

Step(w) == InsertStep(w) \/ DeleteStep(w)

Notify == NotifyNode \/ NotifyLeaf \/ NotifyValue \/ NotifySubtree
          \/ SealSubtree \/ NotifyDone

Read(r) == ReadDown(r) \/ ReadEnd(r) \/ SlotChan(r) \/ ValueChan(r)

\* Everybody is between calls.
Quiet ==
    /\ \A w \in Writer : op[w].pc = "idle"
    /\ \A r \in Reader : rd[r].pc \in {"idle", "watching"}
    /\ UNCHANGED vars

Next ==
    \/ \E w \in Writer : Begin(w) \/ Step(w)
    \/ Notify
    \/ \E r \in Reader :
          \/ \E kind \in {"key", "prefix"}, t \in trees, k \in Key :
                ReadStart(r, kind, t, k)
          \/ Read(r)
    \/ Quiet

\* A call that has begun runs to its end: nothing in it waits for anybody.
Fairness ==
    /\ \A w \in Writer : WF_vars(Step(w))
    /\ WF_vars(Notify)
    /\ \A r \in Reader : WF_vars(Read(r))

Spec == Init /\ [][Next]_vars /\ Fairness
=============================================================================
