------------------------------- MODULE Cursor -------------------------------
(***************************************************************************)
(* What an iterator promises (iter.go, doc.go), without a stack: it is     *)
(* positioned on a range of the keys of one published tree and hands out   *)
(* their values, each once, in ascending or descending order of the keys,  *)
(* whatever is published in the meantime.                                  *)
(***************************************************************************)
EXTENDS Naturals, Sequences

CONSTANTS
    Key,   \* keys
    Iter   \* iterators

VARIABLES
    tree,  \* the published trees: a function from handles to maps
    on,    \* per iterator: the tree it was positioned on
    dir,   \* per iterator: "up" (Next) or "down" (Previous)
    left,  \* per iterator: the keys still to come
    ret    \* per iterator: the value returned last; <<>> when there was none

vars == <<tree, on, dir, left, ret>>

NoVal == 0

Extends(p, k) == Len(p) <= Len(k) /\ SubSeq(k, 1, Len(p)) = p

\* a sorts before b.
Less(a, b) ==
    \/ Extends(a, b) /\ a # b
    \/ \E i \in 1..Len(a) : /\ i <= Len(b) /\ a[i] < b[i]
                            /\ \A j \in 1..(i - 1) : a[j] = b[j]

\* The keys of tree t that a seek in direction d selects.
InRange(t, d, kind, k) ==
    {x \in Key : /\ tree[t][x] # NoVal
                 /\ CASE kind = "prefix" -> Extends(k, x)
                      [] kind = "bound" /\ d = "up" -> ~Less(x, k)
                      [] kind = "bound" /\ d = "down" -> ~Less(k, x)}

Init ==
    /\ on = [i \in Iter |-> 0]
    /\ dir = [i \in Iter |-> "up"]
    /\ left = [i \in Iter |-> {}]
    /\ ret = [i \in Iter |-> <<>>]

\* SeekPrefixWatch, SeekLowerBound, SeekReverseLowerBound.
Seek(i, t, d, kind, k) ==
    /\ on' = [on EXCEPT ![i] = t]
    /\ dir' = [dir EXCEPT ![i] = d]
    /\ left' = [left EXCEPT ![i] = InRange(t, d, kind, k)]
    /\ ret' = [ret EXCEPT ![i] = <<>>]
    /\ UNCHANGED tree

\* Next and Previous.
Advance(i) ==
    /\ \/ \E k \in left[i] :
             /\ \A x \in left[i] \ {k} : IF dir[i] = "up" THEN Less(k, x)
                                                          ELSE Less(x, k)
             /\ left' = [left EXCEPT ![i] = @ \ {k}]
             /\ ret' = [ret EXCEPT ![i] = <<tree[on[i]][k]>>]
       \/ /\ left[i] = {}
          /\ ret' = [ret EXCEPT ![i] = <<>>]
          /\ UNCHANGED left
    /\ UNCHANGED <<tree, on, dir>>

\* Writers publish trees, and never change one.
Publish ==
    /\ \A t \in DOMAIN tree : t \in DOMAIN tree' /\ tree'[t] = tree[t]
    /\ UNCHANGED <<on, dir, left, ret>>

Next ==
    \/ Publish
    \/ \E i \in Iter :
          \/ Advance(i)
          \/ \E t \in DOMAIN tree, d \in {"up", "down"},
                kind \in {"prefix", "bound"}, k \in Key : Seek(i, t, d, kind, k)

Spec == Init /\ [][Next]_vars
=============================================================================
