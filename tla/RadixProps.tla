------------------------------ MODULE RadixProps ------------------------------
(***************************************************************************)
(* What the users of the trees of RadixTxn see: lookups, and the watches   *)
(* they are told through.  The definitions follow keys down trees          *)
(* recursively and are evaluated by TLC only.                              *)
(***************************************************************************)
EXTENDS RadixTrees

RECURSIVE GetFrom(_, _), Held(_, _)

\* Tree.Get, from node n on.
GetFrom(n, search) ==
    IF search = <<>> THEN heap[n].val
    ELSE LET c == Kid(n, Head(search))
         IN  IF c = Nil \/ ~HasPrefix(c, search) THEN NoVal
             ELSE GetFrom(c, Drop(search, Len(heap[c].prefix)))

Get(root, k) == GetFrom(root, k)

\* The tree as a map, the way its users see it.
Contents(root) == [k \in Key |-> Get(root, k)]

\* The pairs <<key, value>> stored at and below n, which sits at path.
Held(n, path) ==
    (IF heap[n].val = NoVal THEN {} ELSE {<<path, heap[n].val>>})
    \cup UNION {Held(Kid(n, b), path \o heap[Kid(n, b)].prefix) : b \in Labels(n)}

-----------------------------------------------------------------------------
(* Contents *)

\* The trees of RadixTxn, seen through Get, are the maps of TreeStore.  A
\* call's steps change nothing that can be seen, except one.
Store == INSTANCE TreeStore WITH
    Val <- 1..MaxOps,
    tree <- [t \in trees |-> Contents(t)],
    open <- [w \in Writer |-> IF txn[w].root = Nil THEN <<>>
                              ELSE Contents(txn[w].root)],
    call <- [w \in Writer |->
               [name |-> op[w].call, key |-> op[w].key,
                val |-> IF op[w].call = "Insert" THEN op[w].val ELSE NoVal]],
    ret <- [w \in Writer |-> op[w].ret]

\* Published trees never change, transactions are isolated from each other,
\* and every call has the effect and the result it has on a map -- across
\* copies, splits, merges, subtree cuts and other writers' interleaved steps.
ImplementsStore == Store!Spec

-----------------------------------------------------------------------------
(* Readers *)

Fired(r) == /\ rd[r].pc = "watching"
            /\ IF rd[r].leaf = Nil THEN heap[rd[r].n].watch = "sealed"
                                   ELSE leaves[rd[r].leaf] = "sealed"

\* What the reader's lookup returned, and what it would return now.
Saw(r) == Get(rd[r].tree, rd[r].key)
Now(r) == Get(current, rd[r].key)

\* The content below a prefix.
Below(root, p) == {kv \in Held(root, <<>>) :
                     Len(p) <= Len(kv[1]) /\ SubSeq(kv[1], 1, Len(p)) = p}

Changed(r) ==
    /\ rd[r].pc # "idle"
    /\ IF rd[r].kind = "key" THEN Saw(r) # Now(r)
       ELSE Below(rd[r].tree, rd[r].key) # Below(current, rd[r].key)

\* No lost wake-up: when Notify has returned, a watcher on a tree of Main's
\* line whose key (present or missing), or the keys below whose prefix, are not
\* what they were when it looked has been fired, wherever it got its channel.
NoLostWakeup ==
    Settled => \A r \in Reader :
                 rd[r].pc = "watching" /\ rd[r].tree \in lineage /\ Changed(r)
                    => Fired(r)

\* No false alarm: a watch on a present key fires only once the published tree
\* holds something else, so the woken reader finds the change when it looks
\* again (the tree is published before Notify).
WokenSeesChange ==
    \A r \in Reader :
       Fired(r) /\ rd[r].leaf # Nil /\ rd[r].tree \in lineage => Saw(r) # Now(r)

\* Every watcher of a key that has changed is woken eventually.
EventuallyWoken ==
    \A r \in Reader :
       (rd[r].pc = "watching" /\ rd[r].tree \in lineage /\ Changed(r))
          ~> (Fired(r) \/ ~Changed(r))

\* Every call returns.
CallsReturn == \A w \in Writer : op[w].pc # "idle" ~> op[w].pc = "idle"
=============================================================================
