-------------------------------- MODULE Rank --------------------------------
(***************************************************************************)
(* The index of a node's children: a bitmap of the labels present, in four *)
(* words, and a dense array in the order of the labels.  A child's place   *)
(* is the number of bits set below its label, which rank counts with two   *)
(* shifts and no branch on the label (node.go).                            *)
(*                                                                         *)
(* A word is the set of the positions of its one bits.  The width is a     *)
(* parameter, 64 in the code, and a label a number below four widths.      *)
(***************************************************************************)
EXTENDS Integers, FiniteSets

CONSTANT W   \* bits of a word

ASSUME WAssumption == W \in Nat /\ W >= 3

Bit    == 0..(W - 1)
Word   == SUBSET Bit
Label  == 0..(4 * W - 1)     \* a byte
Bitmap == [0..3 -> Word]

NoLabels == [v \in 0..3 |-> {}]

\* Go's shift: what leaves the word is gone, a shift by the width clears it.
Shl(x, s) == {p + s : p \in x} \cap Bit
Ones(x) == Cardinality(x)

\* The byte (w - 1) & W: W is a single bit of it, and w = 0 wraps around.
Mask(w) == W * ((((w - 1) % (4 * W)) \div W) % 2)

\* The label's own word, its bit on top and the ones above shifted out.
OnTop(bm, label) == Shl(bm[label \div W], W - 1 - (label % W))

\* Mutant: the first word is not shifted away.
idxFirstWord(bm, label) ==
    LET w == label \div W
    IN  Ones(Shl(OnTop(bm, label), 1)) + Ones(bm[0])
        + (IF w > 1 THEN Ones(bm[w - 1]) ELSE 0)
        + (IF w > 2 THEN Ones(bm[w - 2]) ELSE 0)
\* rank's two results; its loop over the words between runs at most twice.
idx(bm, label) ==
    LET w == label \div W
    IN  Ones(Shl(OnTop(bm, label), 1)) + Ones(Shl(bm[0], Mask(w)))
        + (IF w > 1 THEN Ones(bm[w - 1]) ELSE 0)
        + (IF w > 2 THEN Ones(bm[w - 2]) ELSE 0)
ok(bm, label) == W - 1 \in OnTop(bm, label)

SetBit(bm, l)   == [bm EXCEPT ![l \div W] = @ \cup {l % W}]
ClearBit(bm, l) == [bm EXCEPT ![l \div W] = @ \ {l % W}]

\* addKid and delKid on the array: count children, indexes from 0.
insertAt(kids, count, i, c) ==
    [j \in DOMAIN kids |-> IF j = i THEN c
                           ELSE IF i < j /\ j <= count THEN kids[j - 1]
                           ELSE kids[j]]
\* Mutant: the last child goes to the free place.
deleteSwap(kids, count, i, none) ==
    [[kids EXCEPT ![i] = kids[count - 1]] EXCEPT ![count - 1] = none]
deleteAt(kids, count, i, none) ==
    [j \in DOMAIN kids |-> IF j = count - 1 THEN none
                           ELSE IF i <= j /\ j < count - 1 THEN kids[j + 1]
                           ELSE kids[j]]

-----------------------------------------------------------------------------
(* What rank means *)

Present(bm) == {l \in Label : l % W \in bm[l \div W]}

RankOK(bm, label) ==
    /\ ok(bm, label) <=> label \in Present(bm)
    /\ idx(bm, label) = Cardinality({l \in Present(bm) : l < label})
=============================================================================
