----------------------------- MODULE MCRadixTxn -----------------------------
(* Small instances of RadixTxn for TLC. *)
EXTENDS RadixProps, TLC

\* A node of a bulk-loaded tree: epoch 1, and its value stored in it.
Loaded(prefix, v, kids, cap) ==
    [EmptyNode(1) EXCEPT !.prefix = prefix, !.val = v,
        !.kids = [b \in Byte |-> IF b \in DOMAIN kids THEN kids[b] ELSE Nil],
        !.cap = cap, !.lob = IF v = NoVal THEN 0 ELSE 1]

\* New(): a single root.
NewHeap == <<EmptyNode(0)>>

\* The keys 1 1, 1 2 and 2, with values 11, 12 and 13: a root, an inner node
\* without a value, three leaf nodes.
ForkHeap == <<Loaded(<<>>, NoVal, (1 :> 2) @@ (2 :> 5), 2),
              Loaded(<<1>>, NoVal, (1 :> 3) @@ (2 :> 4), 2),
              Loaded(<<1>>, 11, <<>>, 0),
              Loaded(<<2>>, 12, <<>>, 0),
              Loaded(<<2>>, 13, <<>>, 0)>>

\* The same without the key 2.
PairHeap == <<Loaded(<<>>, NoVal, 1 :> 2, 2),
              Loaded(<<1>>, NoVal, (1 :> 3) @@ (2 :> 4), 2),
              Loaded(<<1>>, 11, <<>>, 0),
              Loaded(<<2>>, 12, <<>>, 0)>>

\* Operations use every key of the tree they start from.
Keys4 == {<<>>, <<1>>, <<2>>, <<3>>}
Keys3 == {<<1>>, <<1, 1>>, <<1, 2>>}
Keys5 == {<<>>, <<1>>, <<1, 1>>, <<1, 2>>, <<2>>}
=============================================================================
