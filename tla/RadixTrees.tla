------------------------------ MODULE RadixTrees ------------------------------
(***************************************************************************)
(* What makes the write path of RadixTxn correct, stated over the nodes of *)
(* whole trees: their shape, and which of them the Notifier seals.  TLC    *)
(* checks these properties on instances; RadixShape_proofs,                *)
(* RadixNotify_proofs and RadixValues_proofs prove them.                   *)
(***************************************************************************)
EXTENDS RadixInv

\* n and the nodes below it: the children of what k - 1 levels reach are
\* reached by k, and no path is longer than there are nodes.
Reach(n) ==
    LET levels[k \in 0..Len(heap)] ==
          IF k = 0 THEN {n}
          ELSE LET S == levels[k - 1]
               IN  S \cup UNION {{Kid(m, b) : b \in Labels(m)} : m \in S}
    IN  levels[Len(heap)]

\* Whether TLC looks at whole trees in this state: between calls is enough,
\* since a call in progress changes only nodes nobody else can reach.
Between == \A w \in Writer : op[w].pc = "idle"

\* Main has neither an open transaction nor a notification to finish.
Settled == op[Main].pc = "idle" /\ txn[Main].root = Nil

-----------------------------------------------------------------------------
(* Shape *)

ShapeOf(root) ==
    /\ heap[root].prefix = <<>>
    /\ \A n \in Reach(root) :
          /\ \A b \in Labels(n) :
                /\ heap[Kid(n, b)].prefix # <<>>
                /\ Head(heap[Kid(n, b)].prefix) = b
          /\ n # root /\ heap[n].val = NoVal => KidCount(n) >= 2

\* Every tree that anybody can hold -- published, frozen, or a transaction's
\* own between calls -- is a radix tree: a child sits under the first byte of
\* its segment, no segment below the root is empty, and below the root a node
\* without a value has at least two children (what unlink, mergeChild and the
\* split restore after every call).
Shape ==
    Between => \A root \in trees \cup ({txn[w].root : w \in Writer} \ {Nil}) :
                  ShapeOf(root)

\* No node ever has more children than its array has room for (setKidCount
\* panics, the safe build slices out of range), in the middle of calls too.
KidsFit == \A n \in Nodes : KidCount(n) <= heap[n].cap

-----------------------------------------------------------------------------
(* Notification *)

\* A slot is sealed only when its object has left the published tree: no
\* watcher is woken for a node that is still there, or for a key whose value
\* did not change -- whatever was split, merged, forked or aborted around it.
SealedHasLeft ==
    Between \/ Notifying =>
      \A n \in Reach(current) :
         /\ heap[n].watch # "sealed"
         /\ heap[n].leaf # Nil => leaves[heap[n].leaf] # "sealed"

\* Once Notify has returned, nothing that left is forgotten: in every tree
\* Main has ever published, each node and each value that the current tree
\* does not hold any more is sealed, so that a reader who comes late through
\* an old tree is told at once.
LeftIsSealed ==
    Settled =>
      LET now == Reach(current)
          values == {heap[m].val : m \in now} \ {NoVal}
      IN  \A t \in lineage : \A n \in Reach(t) \ now :
             /\ heap[n].watch = "sealed"
             /\ heap[n].val \notin values \cup {NoVal} =>
                   heap[n].leaf # Nil /\ leaves[heap[n].leaf] = "sealed"

\* All nodes that hold one version of a key's value share one leaf, or else
\* at most one of them has been published: a watcher of either copy is woken
\* by the same seal (shareLeaf, mergeChild).
OneLeafPerValue ==
    Between =>
      \A t, u \in trees : \A n \in Reach(t), m \in Reach(u) :
         n # m /\ heap[n].val = heap[m].val /\ heap[n].val # NoVal =>
            heap[n].leaf = heap[m].leaf /\ heap[n].leaf # Nil

Distinct(s) == \A i, j \in DOMAIN s : s[i] = s[j] => i = j

\* Whatever a transaction does to its own fresh objects, the Notifier records
\* an object once: repeated updates of a key do not make the lists grow.
RecordedOnce ==
    Distinct(notifier.nodes) /\ Distinct(notifier.leaves)
    /\ Distinct(notifier.values) /\ Distinct(notifier.subtrees)
=============================================================================
