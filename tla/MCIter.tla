------------------------------- MODULE MCIter -------------------------------
(* Small instances of Iter for TLC. *)
EXTENDS IterProps, SequencesExt

\* A node of a bulk-loaded tree: epoch 1, and its value stored in it.
Loaded(prefix, v, kids, cap) ==
    [EmptyNode(1) EXCEPT !.prefix = prefix, !.val = v,
        !.kids = [b \in Byte |-> IF b \in DOMAIN kids THEN kids[b] ELSE Nil],
        !.cap = cap, !.lob = IF v = NoVal THEN 0 ELSE 1]

NewHeap == <<EmptyNode(0)>>

\* The keys 1 1 and 1 2: a root, an inner node without a value, two leaf nodes.
PairHeap == <<Loaded(<<>>, NoVal, 1 :> 2, 2),
              Loaded(<<1>>, NoVal, (1 :> 3) @@ (2 :> 4), 2),
              Loaded(<<1>>, 11, <<>>, 0),
              Loaded(<<2>>, 12, <<>>, 0)>>

-----------------------------------------------------------------------------
(* The radix tree of every set of keys *)

Starts(p, K) == {k \in K : IsPrefix(p, k)}

\* Where the nodes of the tree of K sit: the root, the keys, the branchings.
Spots(K) == {<<>>} \cup K \cup
    {p \in UNION {{SubSeq(k, 1, i) : i \in 0..Len(k)} : k \in K} :
       Cardinality({k[Len(p) + 1] : k \in Starts(p, K) \ {p}}) > 1}

Shortest(S) == CHOOSE p \in S : \A q \in S : Len(p) <= Len(q)
Longest(S)  == CHOOSE p \in S : \A q \in S : Len(p) >= Len(q)

\* Its nodes, the root first.  A key's value is its place in Keys.
TreeOf(K, Keys) ==
    LET at == FoldSet(LAMBDA p, s : Append(s, p), <<<<>>>>, Spots(K) \ {<<>>})
        Id(p) == CHOOSE i \in DOMAIN at : at[i] = p
        Above(p) == IF p = <<>> THEN <<>>
                    ELSE Longest({q \in Spots(K) : IsStrictPrefix(q, p)})
        Under(p, b) == Starts(Append(p, b), Spots(K))
    IN  [i \in DOMAIN at |->
           LET p == at[i] IN
           Loaded(SubSeq(p, Len(Above(p)) + 1, Len(p)),
                  IF p \in K THEN CHOOSE v \in DOMAIN Keys : Keys[v] = p
                             ELSE NoVal,
                  [b \in {c \in Byte : Under(p, c) # {}} |->
                      Id(Shortest(Under(p, b)))],
                  Class(Cardinality({c \in Byte : Under(p, c) # {}})))]

KeyList == <<<<1>>, <<1, 1>>, <<1, 1, 1>>, <<1, 1, 2>>, <<1, 2>>, <<2>>,
             <<2, 1>>, <<>>>>
Keys8 == ToSet(KeyList)
Deep == {<<1>>, <<1, 1>>, <<1, 1, 1>>, <<1, 1, 2>>, <<2>>}
Keys3 == {<<1>>, <<1, 1>>, <<1, 2>>}

\* One tree that never changes, and it is any of them.
TreesInit ==
    /\ \E K \in SUBSET Key : heap = TreeOf(K, KeyList)
    /\ leaves = <<"sealed">> /\ epochCounter = 1
    /\ txn = [w \in Writer |-> NoTxn] /\ op = [w \in Writer |-> IdleOp]
    /\ notifier = NoNotifier
    /\ current = 1 /\ trees = {1} /\ lineage = {1} /\ pend = {}
    /\ rd = [r \in Reader |-> IdleRd]
    /\ ops = 0 /\ txns = 0 /\ watches = 0
    /\ it = [c \in Cursors |-> IdleIt] /\ seeks = 0

TreesSpec == TreesInit /\ [][IterNext]_allvars /\ IterFairness
=============================================================================
