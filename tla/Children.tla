------------------------------ MODULE Children ------------------------------
(***************************************************************************)
(* The children of one owned node, as Insert and Delete change them:       *)
(* addKid at the place rank gave, delKid, in an array with room for a      *)
(* number of children (node.go, setKidCount).  A child is its label.       *)
(***************************************************************************)
EXTENDS Rank

CONSTANT Room   \* the capacity of the array, at most 256 in the code

ASSUME RoomAssumption == Room \in Nat

VARIABLES bitmap, kids, nkids

vars == <<bitmap, kids, nkids>>

None == -1

Init == bitmap = NoLabels /\ kids = [i \in 0..(Room - 1) |-> None] /\ nkids = 0

\* Insert found no child under the label and the node has room (own).
addKid(l) ==
    /\ ~ok(bitmap, l) /\ nkids < Room
    /\ kids' = insertAt(kids, nkids, idx(bitmap, l), l)
    /\ bitmap' = SetBit(bitmap, l)
    /\ nkids' = nkids + 1

\* Delete found the child at a place; its label is the child's first byte.
delKid(l) ==
    /\ ok(bitmap, l)
    /\ LET i == idx(bitmap, l)
       IN  /\ bitmap' = ClearBit(bitmap, kids[i])
           /\ kids' = deleteAt(kids, nkids, i, None)
    /\ nkids' = nkids - 1

Next == \E l \in Label : addKid(l) \/ delKid(l)

Spec == Init /\ [][Next]_vars

-----------------------------------------------------------------------------

\* The bitmap and the array, which every lookup reads one after the other, say
\* the same after any sequence of addKid and delKid: rank finds a label's own
\* child, and for a label that is missing the place where its child belongs.
RankFinds ==
    \A l \in Label :
       /\ ok(bitmap, l) => /\ idx(bitmap, l) < nkids
                           /\ kids[idx(bitmap, l)] = l
       /\ ~ok(bitmap, l) =>
             \A i \in 0..(nkids - 1) : /\ i < idx(bitmap, l) => kids[i] < l
                                       /\ i >= idx(bitmap, l) => kids[i] > l

\* Insert adds the label it was called with and Delete takes away its own, and
\* neither loses or moves another: the array is shifted, the place is counted.
Labels == {kids[i] : i \in 0..(nkids - 1)}
OwnLabelOnly ==
    [][\A l \in Label : /\ addKid(l) => Labels' = Labels \cup {l}
                        /\ delKid(l) => Labels' = Labels \ {l}]_vars

\* The strengthening: a sorted array of exactly the bitmap's labels.
TypeOK == /\ bitmap \in Bitmap /\ nkids \in 0..Room
          /\ kids \in [0..(Room - 1) -> Label \cup {None}]
Sorted == \A i, j \in 0..(nkids - 1) : i < j => kids[i] < kids[j]
Match  == /\ \A i \in 0..(nkids - 1) : kids[i] \in Label
          /\ Present(bitmap) = Labels
IInv   == TypeOK /\ Sorted /\ Match
=============================================================================
