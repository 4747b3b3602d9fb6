------------------------------- MODULE RadixInv -------------------------------
(***************************************************************************)
(* The ownership discipline of RadixTxn as invariants of single nodes and  *)
(* edges.  TLC checks them on instances, RadixTxn_proofs proves them.      *)
(***************************************************************************)
EXTENDS RadixTxn

Nodes == 1..Len(heap)
Ref   == 0..Len(heap)

\* w's transaction created n since it last drew an epoch, and may mutate it.
Mine(w, n) == txn[w].epoch # 0 /\ heap[n].epoch = txn[w].epoch

\* Nobody may mutate n, now or ever again.
Frozen(n) == \A w \in Writer : ~Mine(w, n)

\* n is not the private node of another writer.
Visible(w, n) == \A v \in Writer \ {w} : ~Mine(v, n)

-----------------------------------------------------------------------------
(* Types *)

PathType == Seq([n : Nat \ {0}, l : Nat])

InsertPc == {"insert", "hang", "down", "split", "fork"}
GoalPc   == {"cut", "pull", "fold", "clear"}
WritePc  == InsertPc \cup GoalPc \cup {"remove", "ownpath"}

OpType == [pc : WritePc \cup {"idle", "find", "notify"},
           call : {"none", "Insert", "Delete", "DeletePrefix"},
           key : Seq(Byte), search : Seq(Byte), n : Nat, parent : Nat, l : Nat,
           m : Nat, val : Nat, path : PathType, goal : GoalPc \cup {"none"},
           ret : Nat]

RdType == [pc : {"idle", "walk", "slot", "value", "watching"},
           kind : {"key", "prefix"}, tree : Nat, key : Seq(Byte),
           search : Seq(Byte), n : Nat, leaf : Nat]

HeapOK ==
    /\ heap \in Seq(NodeType)
    /\ leaves \in Seq(SlotState) /\ Len(leaves) > 0
    /\ \A n \in Nodes : /\ heap[n].leaf <= Len(leaves)
                        /\ \A b \in Byte : heap[n].kids[b] \in Ref
TxnOK == txn \in [Writer -> [root : Ref, epoch : Nat]] /\ epochCounter \in Nat
OpOK ==
    /\ op \in [Writer -> OpType]
    /\ \A w \in Writer :
          /\ op[w].n \in Ref /\ op[w].parent \in Ref /\ op[w].m \in Ref
          /\ \A i \in 1..Len(op[w].path) : op[w].path[i].n \in Nodes
\* The type of what a Notifier holds; for notifier itself, and for the values
\* it takes in the middle of a step.
NotifierType(nf) ==
    /\ nf \in [nodes : Seq(Nat), leaves : Seq(Nat), values : Seq(Nat),
               subtrees : Seq(Nat), sealing : SUBSET Nat]
    /\ \A i \in 1..Len(nf.nodes) : nf.nodes[i] \in Nodes
    /\ \A i \in 1..Len(nf.leaves) : nf.leaves[i] \in 0..Len(leaves)
    /\ \A i \in 1..Len(nf.values) : nf.values[i] \in Nodes
    /\ \A i \in 1..Len(nf.subtrees) : nf.subtrees[i] \in Nodes
    /\ nf.sealing \subseteq Nodes
NotifierOK == NotifierType(notifier)
PubOK == /\ current \in trees /\ trees \subseteq Nodes
         /\ lineage \subseteq trees /\ pend \subseteq trees
RdOK == /\ rd \in [Reader -> RdType]
        /\ \A r \in Reader : /\ rd[r].n \in Ref /\ rd[r].leaf <= Len(leaves)
                             /\ rd[r].pc # "idle" => rd[r].n # Nil

\* Every pointer that any part of the system holds -- in a node, a transaction,
\* a call's locals, the Notifier, a reader -- is nil or points at an allocated
\* node or leaf, and every field holds what its Go type allows.
TypeOK == /\ HeapOK /\ TxnOK /\ OpOK /\ NotifierOK /\ PubOK /\ RdOK
          /\ ops \in Nat /\ txns \in Nat /\ watches \in Nat

-----------------------------------------------------------------------------
(* Where a call is, and what it has in hand *)

CallAt(w) == LET o == op[w] IN
    /\ txn[w].root = Nil => txn[w].epoch = 0 /\ o.pc \in {"idle", "notify"}
    /\ o.pc = "idle" => o.parent = Nil
    /\ o.pc = "notify" => w = Main /\ txn[w].root = Nil
    /\ o.pc \in WritePc => txn[w].epoch # 0
    /\ o.pc \in InsertPc \cup {"find"} => o.n # Nil
    /\ o.pc \in {"hang", "down", "split", "fork"} => o.search # <<>>
    /\ o.pc \in {"down", "split"} => Kid(o.n, Head(o.search)) # Nil
    /\ o.pc \in GoalPc \cup {"fork", "remove", "ownpath"} => o.m # Nil
    /\ o.pc \in {"cut", "pull", "fold"} => o.parent # Nil
    /\ o.pc = "pull" => o.path # <<>>
    /\ o.pc = "ownpath" => /\ o.goal \in GoalPc
                           /\ Len(o.path) >= IF o.goal = "pull" THEN 2 ELSE 1
    /\ o.pc = "remove" /\ o.call = "Delete" => heap[o.m].val # NoVal
    /\ o.pc = "fold" \/ (o.pc = "ownpath" /\ o.goal = "fold") =>
          heap[o.m].val # NoVal
Calls == \A w \in Writer : CallAt(w)

-----------------------------------------------------------------------------
(* Ownership *)

\* No epoch is ever issued twice: no node carries one that is still to come,
\* and no two open transactions have the same (begin, epochCounter).
Epochs ==
    /\ \A n \in Nodes : heap[n].epoch <= epochCounter
    /\ \A w \in Writer : txn[w].epoch <= epochCounter
    /\ \A w, v \in Writer :
          w # v /\ txn[w].epoch # 0 => txn[w].epoch # txn[v].epoch

\* A node that a transaction may mutate hangs only below nodes it may mutate:
\* nothing published ever leads to it.
OwnedBelowOwned ==
    \A n \in Nodes, b \in Byte, w \in Writer :
       heap[n].kids[b] # Nil /\ Mine(w, heap[n].kids[b]) => Mine(w, n)

\* Every tree that others may hold, and everything a reader stands on, is
\* frozen.
SharedIsFrozen ==
    /\ \A t \in trees : Frozen(t)
    /\ \A r \in Reader : rd[r].n # Nil => Frozen(rd[r].n)

\* A call works on the nodes of its own tree only ...
CallVisible(w) ==
    /\ txn[w].root # Nil => Visible(w, txn[w].root)
    /\ op[w].n # Nil => Visible(w, op[w].n)
    /\ op[w].m # Nil => Visible(w, op[w].m)
    /\ \A i \in 1..Len(op[w].path) : Visible(w, op[w].path[i].n)
CallsVisible == \A w \in Writer : CallVisible(w)

\* ... and owns each one it is about to write to.
CallOwns(w) ==
    /\ op[w].parent # Nil => Mine(w, op[w].parent)
    /\ op[w].pc \in {"hang", "down", "split", "fork"} => Mine(w, op[w].n)
    /\ op[w].pc = "fork" => Mine(w, op[w].m)
CallsOwn == \A w \in Writer : CallOwns(w)

\* "A node with a materialised watch slot is never mutated again" (Freeze).
WatchedIsFrozen == \A n \in Nodes : heap[n].watch # "nil" => Frozen(n)

\* In a transaction's own node, a value from before the epoch has a leaf, the
\* one it shares with the published original; a value of the epoch has none.
LeafOnCopies ==
    \A n \in Nodes, w \in Writer : Mine(w, n) =>
       /\ heap[n].val # NoVal /\ heap[n].lob = 0 => heap[n].leaf # Nil
       /\ heap[n].lob = 1 => heap[n].leaf = Nil

Recorded(nf) ==
    /\ \A i \in 1..Len(nf.nodes) : Frozen(nf.nodes[i])
    /\ \A i \in 1..Len(nf.leaves) : nf.leaves[i] # Nil
    /\ \A i \in 1..Len(nf.values) : Frozen(nf.values[i])
    /\ \A i \in 1..Len(nf.subtrees) : Visible(Main, nf.subtrees[i])
    /\ \A n \in nf.sealing : Visible(Main, n)

\* Notify never dereferences nil, and what it seals nobody is mutating: the
\* recorded leaves exist, the recorded nodes and values were published, and a
\* subtree's nodes are frozen by the time it is walked.
RecordedIsFrozen == Recorded(notifier)

Ownership == Epochs /\ OwnedBelowOwned /\ SharedIsFrozen /\ CallsVisible
             /\ CallsOwn /\ WatchedIsFrozen /\ LeafOnCopies /\ RecordedIsFrozen

IInv == TypeOK /\ Calls /\ Ownership

-----------------------------------------------------------------------------
(* What a step may never do *)

\* The part of a node that readers use without synchronisation.
SameBody(x, y) ==
    /\ x.prefix = y.prefix /\ x.val = y.val /\ x.kids = y.kids
    /\ x.cap = y.cap /\ x.epoch = y.epoch /\ x.lob = y.lob

FrozenStays ==
    \A n \in 1..Len(heap) : Frozen(n) =>
       /\ n \in 1..Len(heap') /\ SameBody(heap[n], heap'[n])
       /\ heap[n].leaf # Nil => heap'[n].leaf = heap[n].leaf
       /\ heap[n].watch # "nil" => heap'[n].watch # "nil"
       /\ heap[n].watch = "sealed" => heap'[n].watch = "sealed"
       /\ \A w \in Writer : ~(txn'[w].epoch # 0 /\
                              heap'[n].epoch = txn'[w].epoch)

\* No step of anybody changes a frozen node, except that its leaf pointer is
\* set once and its watch slot moves from nil to live to sealed; and once
\* frozen, it stays so (own, Freeze: readers walk these nodes unsynchronised).
FrozenImmutable == [][FrozenStays]_vars
=============================================================================
