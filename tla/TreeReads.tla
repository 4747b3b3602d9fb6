------------------------------ MODULE TreeReads ------------------------------
(***************************************************************************)
(* The reads of Tree that are one function of one immutable tree (tree.go, *)
(* node.go), against what they promise of its contents.  For TLC only.     *)
(***************************************************************************)
EXTENDS IterProps

NotFound == <<>>
Hit(v) == <<v>>

RECURSIVE LongestFrom(_, _, _), seekFrom(_, _), minNode(_), maxNode(_),
          countLeaves(_)

\* Mutant: the key is looked at first, then the node it ends at.
LastSeenLate(n, search, last) ==
    IF heap[n].val # NoVal /\ search # <<>> THEN Hit(heap[n].val) ELSE last
LastSeen(n, search, last) ==
    IF heap[n].val # NoVal THEN Hit(heap[n].val) ELSE last
\* Tree.LongestPrefix, from node n on; last is the last value passed.
LongestFrom(n, search, last) ==
    LET seen == LastSeen(n, search, last)
        c == Kid(n, Head(search))
    IN  IF search = <<>> THEN seen
        ELSE IF c = Nil \/ ~HasPrefix(c, search) THEN seen
        ELSE LongestFrom(c, Drop(search, Len(heap[c].prefix)), seen)
LongestPrefix(root, k) == LongestFrom(root, k, NotFound)

\* The node that seekPrefix finds, Nil if there is none.
seekFrom(n, search) ==
    LET c == Kid(n, Head(search))
    IN  CASE search = <<>> -> n
          [] search # <<>> /\ c = Nil -> Nil
          [] search # <<>> /\ c # Nil /\ HasPrefix(c, search) ->
               seekFrom(c, Drop(search, Len(heap[c].prefix)))
          [] search # <<>> /\ c # Nil /\ ~HasPrefix(c, search) ->
               IF EndsInside(c, search) THEN c ELSE Nil
seekPrefix(root, prefix) == seekFrom(root, prefix)

\* Nil only for an empty root.
minNode(n) == CASE heap[n].val # NoVal -> n
                [] heap[n].val = NoVal /\ Childless(n) -> Nil
                [] heap[n].val = NoVal /\ ~Childless(n) -> minNode(kid(n, 0))
maxNode(n) == CASE ~Childless(n) -> maxNode(kid(n, KidCount(n) - 1))
                [] Childless(n) -> IF heap[n].val # NoVal THEN n ELSE Nil

Value(n) == IF n = Nil THEN NotFound ELSE Hit(heap[n].val)
\* Mutant: the least key is looked for below the node only.
FirstPrefixBelow(root, prefix) ==
    LET n == seekPrefix(root, prefix)
    IN  IF n = Nil \/ Childless(n) THEN NotFound ELSE Value(minNode(kid(n, 0)))
FirstPrefix(root, prefix) ==
    LET n == seekPrefix(root, prefix)
    IN  IF n = Nil THEN NotFound ELSE Value(minNode(n))
LastPrefix(root, prefix) ==
    LET n == seekPrefix(root, prefix)
    IN  IF n = Nil THEN NotFound ELSE Value(maxNode(n))

\* A sum over the children; labels stand for them.
countLeaves(n) ==
    LET below[i \in 0..KidCount(n)] ==
          IF i = 0 THEN 0 ELSE below[i - 1] + countLeaves(kid(n, i - 1))
    IN  below[KidCount(n)] + IF heap[n].val # NoVal THEN 1 ELSE 0

-----------------------------------------------------------------------------

Stored(root) == {k \in Key : Get(root, k) # NoVal}
Extends(p, k) == Len(p) <= Len(k) /\ SubSeq(k, 1, Len(p)) = p

\* What r should be if K are the keys to choose from and First(a, b) says that
\* a is to be preferred to b.
Best(root, K, First(_, _), r) ==
    IF K = {} THEN r = NotFound
    ELSE \E k \in K : /\ \A x \in K \ {k} : First(k, x)
                      /\ r = Hit(Get(root, k))

\* LongestPrefix returns the value of the longest stored key that k begins
\* with, k itself and the empty key included, wherever the search for k ends:
\* at a node, inside a segment that agrees or parts, at a missing label.
LongestIsLongest ==
    \A t \in trees, k \in Key :
       Best(t, {x \in Stored(t) : Extends(x, k)}, LAMBDA a, b : Len(a) > Len(b),
            LongestPrefix(t, k))

\* FirstPrefix and LastPrefix return the least and the greatest stored key with
\* a prefix, which are the first results of the iterators; and Len counts all.
EndsOfPrefix ==
    \A t \in trees, p \in Key :
       LET K == {x \in Stored(t) : Extends(p, x)}
       IN  /\ Best(t, K, LAMBDA a, b : C0!Less(a, b), FirstPrefix(t, p))
           /\ Best(t, K, LAMBDA a, b : C0!Less(b, a), LastPrefix(t, p))
           /\ p = <<>> => countLeaves(t) = Cardinality(K)
=============================================================================
