--------------------------- MODULE Children_proofs ---------------------------
(***************************************************************************)
(* rank, addKid and delKid (node.go) for words of any width of at least    *)
(* three bits, so of 64, and child arrays of any size: rank counts what it *)
(* is meant to count, and after any sequence of addKid and delKid the      *)
(* bitmap and the array agree.                                             *)
(***************************************************************************)
EXTENDS Children, FiniteSetTheorems, FunctionTheorems, TLAPS

\* A label is the number of its word and a position in it, as rank's label >> 6
\* and label & 63 take it apart.
LEMMA LabelParts ==
    ASSUME NEW l \in Label
    PROVE  /\ l \div W \in 0..3 /\ l % W \in Bit
           /\ l = W * (l \div W) + (l % W)
<1> DEFINE q == l \div W
           r == l % W
<1>1. W \in Nat /\ W > 0 BY WAssumption
<1>2. l \in Nat /\ l < 4 * W BY <1>1 DEF Label
<1>3. q \in Int /\ r \in 0..(W - 1) /\ l = W * q + r
  BY <1>1, <1>2
<1>4. q >= 0 BY <1>1, <1>2, <1>3
<1>5. ~(q >= 4)
  <2>1. SUFFICES ASSUME q >= 4 PROVE FALSE OBVIOUS
  <2>2. PICK d \in Nat : q = 4 + d BY <1>3, <2>1
  <2>3. W * d >= 0 BY <1>1
  <2>4. W * q = 4 * W + W * d BY <1>1, <2>2
  <2> QED BY <1>1, <1>2, <1>3, <2>3, <2>4
<1> QED BY <1>3, <1>4, <1>5 DEF Bit

\* ... and back: a word and a position are one label's.
LEMMA PartsOf ==
    ASSUME NEW q \in 0..3, NEW r \in Bit
    PROVE  /\ W * q + r \in Label
           /\ (W * q + r) \div W = q
           /\ (W * q + r) % W = r
<1>1. W \in Nat /\ W > 0 /\ r \in Nat /\ r < W BY WAssumption DEF Bit
<1>2. W * q \in {0, W, 2 * W, 3 * W} BY <1>1
<1> QED BY <1>1, <1>2 DEF Label

\* rank's (w - 1) & 64 is 64 for the first word and 0 for the others.
LEMMA MaskValues == Mask(0) = W /\ Mask(1) = 0 /\ Mask(2) = 0 /\ Mask(3) = 0
<1>1. W \in Nat /\ W >= 3 BY WAssumption
<1>2. (0 - 1) % (4 * W) = 4 * W - 1 BY <1>1
<1>3. (1 - 1) % (4 * W) = 0 /\ (2 - 1) % (4 * W) = 1 /\ (3 - 1) % (4 * W) = 2 BY <1>1
<1>4. (4 * W - 1) \div W = 3 BY <1>1
<1>5. 0 \div W = 0 /\ 1 \div W = 0 /\ 2 \div W = 0 BY <1>1
<1> QED BY <1>1, <1>2, <1>3, <1>4, <1>5 DEF Mask

\* A word of a node's bitmap is a finite set of positions.
LEMMA BitmapValues ==
    ASSUME NEW bm \in Bitmap, NEW v \in 0..3
    PROVE  /\ bm[v] \subseteq Bit
           /\ IsFiniteSet(bm[v])
           /\ Ones(bm[v]) \in Nat
<1>1. bm[v] \subseteq Bit BY DEF Bitmap, Word
<1>2. IsFiniteSet(Bit) BY WAssumption, FS_Interval DEF Bit
<1>3. IsFiniteSet(bm[v]) BY <1>1, <1>2, FS_Subset
<1> QED BY <1>1, <1>3, FS_CardinalityType DEF Ones

\* Labels are ordered by their words first, which rank relies on when it adds up
\* whole words.
LEMMA InOrder ==
    ASSUME NEW x \in Label, NEW l \in Label
    PROVE  /\ x \div W < l \div W => x < l
           /\ x < l => x \div W <= l \div W
<1> DEFINE u == x \div W
           v == l \div W
           a == x % W
           b == l % W
<1>1. /\ u \in 0..3 /\ v \in 0..3
      /\ a \in 0..(W - 1) /\ b \in 0..(W - 1)
      /\ x = W * u + a /\ l = W * v + b
  BY LabelParts DEF Bit
<1>2. W \in Nat /\ W > 0 BY WAssumption
<1>3. /\ u \in {0, 1, 2, 3} /\ v \in {0, 1, 2, 3} BY <1>1
<1> HIDE DEF u, v, a, b
<1>4. (u < v => x < l) /\ (x < l => u <= v)
  BY <1>1, <1>2, <1>3
<1> QED BY <1>4 DEF u, v

\* The labels present in word v, those below a label, those of its own word.
In(bm, v) == {x \in Present(bm) : x \div W = v}
Lower(bm, l) == {x \in Present(bm) : x < l}
Beside(bm, l) == {x \in Lower(bm, l) : x \div W = l \div W}

\* The count of a word's one bits is the number of labels present in it.
LEMMA InCard ==
    ASSUME NEW bm \in Bitmap, NEW v \in 0..3
    PROVE  IsFiniteSet(In(bm, v)) /\ Cardinality(In(bm, v)) = Ones(bm[v])
<1> DEFINE f == [p \in bm[v] |-> W * v + p]
<1>1. bm[v] \subseteq Bit /\ IsFiniteSet(bm[v]) BY BitmapValues
<1>2. W \in Nat /\ W * v \in Int BY WAssumption
<1>3. ASSUME NEW p \in bm[v] PROVE W * v + p \in In(bm, v)
  BY <1>1, PartsOf DEF In, Present
<1>4. ASSUME NEW x \in In(bm, v) PROVE \E p \in bm[v] : W * v + p = x
  <2>1. x \in Label /\ x \div W = v /\ x % W \in bm[v] BY DEF In, Present
  <2>2. x = W * v + (x % W) BY <2>1, LabelParts
  <2> QED BY <2>1, <2>2
<1>5. \A p, r \in bm[v] : W * v + p = W * v + r => p = r BY <1>1, <1>2 DEF Bit
<1>6. f \in Bijection(bm[v], In(bm, v)) BY <1>3, <1>4, <1>5, Fun_IsBij
<1> QED BY <1>1, <1>6, FS_Bijection DEF ExistsBijection, Ones

\* What is left of the label's own word after rank's two shifts are the labels
\* of that word below it.
LEMMA BesideCard ==
    ASSUME NEW bm \in Bitmap, NEW l \in Label
    PROVE  /\ IsFiniteSet(Beside(bm, l))
           /\ Cardinality(Beside(bm, l)) = Ones(Shl(OnTop(bm, l), 1))
<1> DEFINE q == l \div W
           r == l % W
           S == Shl(OnTop(bm, l), 1)
           f == [x \in S |-> (x - W) + l]
<1>1. q \in 0..3 /\ r \in 0..(W - 1) /\ l = W * q + r /\ l \in Int
  BY LabelParts, WAssumption DEF Bit, Label
<1>2. bm[q] \subseteq 0..(W - 1) BY <1>1, BitmapValues DEF Bit
<1>3. W \in Nat /\ W > 0 BY WAssumption
<1>4. \A x : x \in S <=> \E p \in bm[q] : p < r /\ x = (p + W) - r
  <2>1. ASSUME NEW x \in S
        PROVE  \E p \in bm[q] : p < r /\ x = (p + W) - r
    <3>1. PICK y \in OnTop(bm, l) : x = y + 1 /\ x \in Bit BY DEF Shl
    <3>2. PICK p \in bm[q] : y = p + ((W - 1) - r) BY <3>1 DEF OnTop, Shl
    <3>3. p < r /\ x = (p + W) - r BY <1>1, <1>2, <1>3, <3>1, <3>2 DEF Bit
    <3> QED BY <3>3
  <2>2. ASSUME NEW p \in bm[q], p < r
        PROVE  (p + W) - r \in S
    <3>1. /\ p + ((W - 1) - r) \in Bit
          /\ (p + ((W - 1) - r)) + 1 = (p + W) - r
          /\ (p + W) - r \in Bit
      BY <1>1, <1>2, <1>3, <2>2 DEF Bit
    <3>2. p + ((W - 1) - r) \in OnTop(bm, l) BY <3>1 DEF OnTop, Shl
    <3> QED BY <3>1, <3>2 DEF Shl
  <2> QED BY <2>1, <2>2
<1>5. \A x : x \in Beside(bm, l) <=> \E p \in bm[q] : p < r /\ x = W * q + p
  <2>1. ASSUME NEW x \in Beside(bm, l)
        PROVE  \E p \in bm[q] : p < r /\ x = W * q + p
    <3>1. x \in Label /\ x \div W = q /\ x % W \in bm[q] /\ x < l
      BY DEF Beside, Lower, Present
    <3>2. x = W * q + (x % W) BY <3>1, LabelParts
    <3>3. W * q \in Int BY <1>1, <1>3
    <3>4. x % W < r BY <1>1, <1>2, <3>1, <3>2, <3>3
    <3> QED BY <3>1, <3>2, <3>4
  <2>2. ASSUME NEW p \in bm[q], p < r
        PROVE  W * q + p \in Beside(bm, l)
    <3>1. p \in Bit BY <1>2 DEF Bit
    <3>2. /\ W * q + p \in Label /\ (W * q + p) \div W = q
          /\ (W * q + p) % W = p
      BY <1>1, <3>1, PartsOf
    <3>3. W * q + p < l BY <1>1, <1>2, <1>3, <2>2
    <3> QED BY <3>2, <3>3 DEF Beside, Lower, Present
  <2> QED BY <2>1, <2>2
<1>6. W * q \in Int BY <1>1, <1>3
<1> HIDE DEF q, r, S
<1>7. ASSUME NEW x \in S PROVE (x - W) + l \in Beside(bm, l)
  <2>1. PICK p \in bm[q] : p < r /\ x = (p + W) - r BY <1>4
  <2>2. (x - W) + l = W * q + p BY <1>1, <1>2, <1>3, <1>6, <2>1
  <2> QED BY <1>5, <2>1, <2>2
<1>8. ASSUME NEW y \in Beside(bm, l) PROVE \E x \in S : (x - W) + l = y
  <2>1. PICK p \in bm[q] : p < r /\ y = W * q + p BY <1>5
  <2>2. (((p + W) - r) - W) + l = y BY <1>1, <1>2, <1>3, <1>6, <2>1
  <2>3. (p + W) - r \in S BY <1>4, <2>1
  <2> QED BY <2>2, <2>3
<1>9. S \subseteq Bit BY DEF S, Shl
<1>10. \A x, y \in S : (x - W) + l = (y - W) + l => x = y
  BY <1>1, <1>3, <1>9 DEF Bit
<1>11. f \in Bijection(S, Beside(bm, l)) BY <1>7, <1>8, <1>10, Fun_IsBij
<1>12. IsFiniteSet(S)
  <2>1. IsFiniteSet(Bit) BY <1>3, FS_Interval DEF Bit
  <2> QED BY <1>9, <2>1, FS_Subset
<1> QED BY <1>11, <1>12, FS_Bijection DEF ExistsBijection, Ones, S

\* Cardinalities of disjoint sets add up.
LEMMA Disjoint ==
    ASSUME NEW S, NEW T, IsFiniteSet(S), IsFiniteSet(T), S \cap T = {}
    PROVE  /\ IsFiniteSet(S \cup T)
           /\ Cardinality(S \cup T) = Cardinality(S) + Cardinality(T)
<1>1. Cardinality(S) \in Nat /\ Cardinality(T) \in Nat BY FS_CardinalityType
<1>2. Cardinality(S \cap T) = 0 BY FS_EmptySet
<1>3. /\ IsFiniteSet(S \cup T)
      /\ Cardinality(S \cup T) =
            Cardinality(S) + Cardinality(T) - Cardinality(S \cap T)
  BY FS_Union
<1> QED BY <1>1, <1>2, <1>3

\* The words below the label's, which rank adds up.
Words(bm, q) == CASE q = 0 -> {}
                  [] q = 1 -> In(bm, 0)
                  [] q = 2 -> In(bm, 0) \cup In(bm, 1)
                  [] q = 3 -> (In(bm, 0) \cup In(bm, 2)) \cup In(bm, 1)

\* A shift by the width clears the first word, a shift by 0 keeps it.
LEMMA FirstWord ==
    ASSUME NEW bm \in Bitmap
    PROVE  /\ Ones(Shl(bm[0], W)) = 0
           /\ Shl(bm[0], 0) = bm[0]
<1>1. bm[0] \subseteq Bit BY BitmapValues
<1>2. W \in Nat BY WAssumption
<1>3. Shl(bm[0], W) = {} BY <1>1, <1>2 DEF Shl, Bit
<1>4. Shl(bm[0], 0) = bm[0]
  <2>1. \A p \in bm[0] : p + 0 = p BY <1>1, <1>2 DEF Bit
  <2> QED BY <1>1, <2>1 DEF Shl
<1> QED BY <1>3, <1>4, FS_EmptySet DEF Ones

\* rank's remaining terms count the labels in the words below the label's.
LEMMA WordsCard ==
    ASSUME NEW bm \in Bitmap, NEW q \in 0..3
    PROVE  /\ IsFiniteSet(Words(bm, q))
           /\ Cardinality(Words(bm, q)) =
                 Ones(Shl(bm[0], Mask(q))) + (IF q > 1 THEN Ones(bm[q - 1]) ELSE 0)
                 + (IF q > 2 THEN Ones(bm[q - 2]) ELSE 0)
<1> DEFINE n(v) == Ones(bm[v])
<1>1. \A v \in 0..3 : /\ IsFiniteSet(In(bm, v)) /\ Cardinality(In(bm, v)) = n(v)
                      /\ n(v) \in Nat
  BY InCard, BitmapValues
<1>2. \A u, v \in 0..3 : u # v => In(bm, u) \cap In(bm, v) = {} BY DEF In
<1>3. /\ Ones(Shl(bm[0], Mask(0))) = 0
      /\ \A v \in 1..3 : Ones(Shl(bm[0], Mask(v))) = n(0)
  <2>1. \A v \in 1..3 : Mask(v) = 0
    <3>1. \A v \in 1..3 : v = 1 \/ v = 2 \/ v = 3 OBVIOUS
    <3> QED BY <3>1, MaskValues
  <2> QED BY <2>1, MaskValues, FirstWord
<1>4. CASE q = 0
  <2>1. Words(bm, q) = {} BY <1>4 DEF Words
  <2> QED BY <1>3, <1>4, <2>1, FS_EmptySet
<1>5. CASE q = 1
  <2>1. Words(bm, q) = In(bm, 0) BY <1>5 DEF Words
  <2> QED BY <1>1, <1>3, <1>5, <2>1
<1>6. CASE q = 2
  <2>1. Words(bm, q) = In(bm, 0) \cup In(bm, 1) BY <1>6 DEF Words
  <2>2. In(bm, 0) \cap In(bm, 1) = {} BY <1>2
  <2>3. /\ IsFiniteSet(Words(bm, q)) /\ Cardinality(Words(bm, q)) = n(0) + n(1)
    BY <1>1, <2>1, <2>2, Disjoint
  <2>4. bm[q - 1] = bm[1] BY <1>6
  <2> QED BY <1>1, <1>3, <1>6, <2>3, <2>4
<1>7. CASE q = 3
  <2>1. Words(bm, q) = (In(bm, 0) \cup In(bm, 2)) \cup In(bm, 1)
    BY <1>7 DEF Words
  <2>2. /\ IsFiniteSet(In(bm, 0) \cup In(bm, 2))
        /\ Cardinality(In(bm, 0) \cup In(bm, 2)) = n(0) + n(2)
    <3>1. In(bm, 0) \cap In(bm, 2) = {} BY <1>2
    <3>2. /\ IsFiniteSet(In(bm, 0)) /\ IsFiniteSet(In(bm, 2))
          /\ Cardinality(In(bm, 0)) = n(0) /\ Cardinality(In(bm, 2)) = n(2)
      BY <1>1
    <3>3. /\ IsFiniteSet(In(bm, 0) \cup In(bm, 2))
          /\ Cardinality(In(bm, 0) \cup In(bm, 2)) =
                Cardinality(In(bm, 0)) + Cardinality(In(bm, 2))
      BY <3>1, <3>2, Disjoint
    <3> QED BY <3>2, <3>3
  <2>3. (In(bm, 0) \cup In(bm, 2)) \cap In(bm, 1) = {} BY <1>2
  <2>4. /\ IsFiniteSet(Words(bm, q))
        /\ Cardinality(Words(bm, q)) = (n(0) + n(2)) + n(1)
    <3>1. IsFiniteSet(In(bm, 1)) /\ Cardinality(In(bm, 1)) = n(1) BY <1>1
    <3>2. /\ IsFiniteSet((In(bm, 0) \cup In(bm, 2)) \cup In(bm, 1))
          /\ Cardinality((In(bm, 0) \cup In(bm, 2)) \cup In(bm, 1)) =
                Cardinality(In(bm, 0) \cup In(bm, 2)) + Cardinality(In(bm, 1))
      BY <2>2, <2>3, <3>1, Disjoint
    <3> QED BY <2>1, <2>2, <3>1, <3>2
  <2>5. bm[q - 1] = bm[2] /\ bm[q - 2] = bm[1] BY <1>7
  <2> QED BY <1>1, <1>3, <1>7, <2>4, <2>5
<1>8. q = 0 \/ q = 1 \/ q = 2 \/ q = 3 OBVIOUS
<1> QED BY <1>4, <1>5, <1>6, <1>7, <1>8

\* The labels below a label are those of its own word and of the words below.
LEMMA LowerParts ==
    ASSUME NEW bm \in Bitmap, NEW l \in Label
    PROVE  /\ Lower(bm, l) = Beside(bm, l) \cup Words(bm, l \div W)
           /\ Beside(bm, l) \cap Words(bm, l \div W) = {}
<1> DEFINE q == l \div W
<1>1. q \in 0..3 BY LabelParts
<1>2. \A x : x \in Words(bm, q) <=> x \in Present(bm) /\ x \div W < q
  <2>1. ASSUME NEW x \in Present(bm) PROVE x \div W \in 0..3
    BY LabelParts DEF Present
  <2>2. q = 0 \/ q = 1 \/ q = 2 \/ q = 3 BY <1>1
  <2> QED BY <2>1, <2>2 DEF Words, In
<1>3. \A x \in Present(bm) :
         x < l <=> x \div W < q \/ (x \div W = q /\ x < l)
  <2>1. ASSUME NEW x \in Present(bm)
        PROVE  /\ x \div W \in Int /\ (x \div W < q => x < l)
               /\ (x < l => x \div W <= q)
    BY InOrder, LabelParts DEF Present
  <2> QED BY <1>1, <2>1
<1> HIDE DEF q
<1>4. \A x : x \in Beside(bm, l) <=> x \in Present(bm) /\ x < l /\ x \div W = q
  BY DEF Beside, Lower, q
<1>5. Lower(bm, l) = Beside(bm, l) \cup Words(bm, q)
  BY <1>2, <1>3, <1>4 DEF Lower
<1>6. Beside(bm, l) \cap Words(bm, q) = {} BY <1>1, <1>2, <1>4
<1> QED BY <1>5, <1>6 DEF q

\* rank(label) returns the number of labels present below it, and whether it is
\* present itself, for every bitmap: at 63, 64, 127, 128 and 255 as elsewhere.
THEOREM RankCounts ==
    ASSUME NEW bm \in Bitmap, NEW l \in Label
    PROVE  RankOK(bm, l) /\ IsFiniteSet(Lower(bm, l))
<1> DEFINE q == l \div W
           r == l % W
<1>1. q \in 0..3 /\ r \in 0..(W - 1) BY LabelParts DEF Bit
<1>2. W \in Nat /\ W > 0 BY WAssumption
<1>3. bm[q] \subseteq 0..(W - 1) BY <1>1, BitmapValues DEF Bit
<1>4. ok(bm, l) <=> l \in Present(bm)
  <2>1. W - 1 \in OnTop(bm, l) <=> \E p \in bm[q] : W - 1 = p + ((W - 1) - r)
    BY <1>1, <1>2 DEF OnTop, Shl, Bit
  <2>2. (\E p \in bm[q] : W - 1 = p + ((W - 1) - r)) <=> r \in bm[q]
    BY <1>1, <1>2, <1>3
  <2> QED BY <2>1, <2>2 DEF ok, Present
<1>5. /\ IsFiniteSet(Beside(bm, l)) /\ IsFiniteSet(Words(bm, q))
      /\ IsFiniteSet(Lower(bm, l))
      /\ Cardinality(Lower(bm, l)) =
            Cardinality(Beside(bm, l)) + Cardinality(Words(bm, q))
  <2>1. IsFiniteSet(Beside(bm, l)) BY BesideCard
  <2>2. IsFiniteSet(Words(bm, q)) BY <1>1, WordsCard
  <2>3. /\ Lower(bm, l) = Beside(bm, l) \cup Words(bm, q)
        /\ Beside(bm, l) \cap Words(bm, q) = {}
    BY LowerParts
  <2> QED BY <2>1, <2>2, <2>3, Disjoint
<1>6. idx(bm, l) = Cardinality(Lower(bm, l))
  <2> DEFINE a == Ones(Shl(OnTop(bm, l), 1))
             b == Ones(Shl(bm[0], Mask(q)))
             c == IF q > 1 THEN Ones(bm[q - 1]) ELSE 0
             d == IF q > 2 THEN Ones(bm[q - 2]) ELSE 0
  <2>1. idx(bm, l) = ((a + b) + c) + d BY DEF idx
  <2>2. Cardinality(Beside(bm, l)) = a BY BesideCard
  <2>3. Cardinality(Words(bm, q)) = (b + c) + d BY <1>1, WordsCard
  <2>4. a \in Nat BY <1>5, <2>2, FS_CardinalityType
  <2>5. b \in Nat
    <3>1. b = 0 \/ b = Ones(bm[0])
      <4>1. Mask(q) = W \/ Mask(q) = 0
        <5>1. q = 0 \/ q = 1 \/ q = 2 \/ q = 3 BY <1>1
        <5> QED BY <5>1, MaskValues
      <4> QED BY <4>1, FirstWord
    <3> QED BY <3>1, BitmapValues
  <2>6. c \in Nat /\ d \in Nat
    <3>1. (q > 1 => q - 1 \in 0..3) /\ (q > 2 => q - 2 \in 0..3) BY <1>1
    <3> QED BY <3>1, BitmapValues
  <2> HIDE DEF a, b, c, d
  <2> QED BY <1>5, <2>1, <2>2, <2>3, <2>4, <2>5, <2>6
<1> QED BY <1>4, <1>5, <1>6 DEF RankOK, Lower

-----------------------------------------------------------------------------
(* Bitmap and array together *)

\* In a sorted array of the bitmap's labels, the children below a label are
\* those whose place is below what rank returns.
LEMMA Places ==
    ASSUME IInv, NEW l \in Label
    PROVE  /\ idx(bitmap, l) \in 0..nkids
           /\ \A i \in 0..(nkids - 1) : kids[i] < l <=> i < idx(bitmap, l)
           /\ ok(bitmap, l) <=> l \in Labels
<1> DEFINE m == idx(bitmap, l)
           I == 0..(nkids - 1)
           S == {i \in I : kids[i] < l}
           f == [i \in S |-> kids[i]]
<1>1. /\ nkids \in Nat /\ bitmap \in Bitmap
      /\ \A i \in I : kids[i] \in Label
      /\ \A i, j \in I : i < j => kids[i] < kids[j]
      /\ Present(bitmap) = {kids[i] : i \in I}
  BY RoomAssumption DEF IInv, TypeOK, Sorted, Match, Labels
<1>2. l \in Int /\ \A i \in I : kids[i] \in Int
  BY <1>1, WAssumption DEF Label
<1>3. /\ ok(bitmap, l) <=> l \in Present(bitmap)
      /\ m = Cardinality(Lower(bitmap, l)) /\ IsFiniteSet(Lower(bitmap, l))
  BY <1>1, RankCounts DEF RankOK, Lower
<1>4. IsFiniteSet(I) /\ Cardinality(I) = nkids
  BY <1>1, FS_Interval
<1>5. /\ IsFiniteSet(S) /\ Cardinality(S) \in Nat /\ Cardinality(S) <= nkids
  BY <1>4, FS_Subset, FS_CardinalityType
<1>6. f \in Bijection(S, Lower(bitmap, l))
  <2>1. \A i \in S : kids[i] \in Lower(bitmap, l) BY <1>1 DEF Lower
  <2>2. \A x \in Lower(bitmap, l) : \E i \in S : kids[i] = x BY <1>1 DEF Lower
  <2>3. \A i, j \in S : kids[i] = kids[j] => i = j
    <3>1. \A i, j \in I : i < j \/ i = j \/ j < i BY <1>1
    <3>2. \A i, j \in I : kids[i] = kids[j] => ~(i < j) /\ ~(j < i)
      BY <1>1, <1>2
    <3> QED BY <3>1, <3>2
  <2> QED BY <2>1, <2>2, <2>3, Fun_IsBij
<1>7. m = Cardinality(S) BY <1>3, <1>5, <1>6, FS_Bijection DEF ExistsBijection
<1>8. m \in 0..nkids BY <1>1, <1>5, <1>7
<1>9. S \subseteq 0..(m - 1)
  <2>1. SUFFICES ASSUME NEW i \in S PROVE i \in 0..(m - 1) OBVIOUS
  <2>2. i \in Nat BY <1>1
  <2>3. 0..i \subseteq S
    <3>1. ASSUME NEW j \in 0..i PROVE j \in S
      <4>1. j \in I /\ (j = i \/ j < i) BY <1>1, <2>2
      <4>2. kids[j] = kids[i] \/ kids[j] < kids[i] BY <1>1, <4>1
      <4>3. kids[i] < l /\ i \in I OBVIOUS
      <4>4. kids[j] < l BY <1>2, <4>1, <4>2, <4>3
      <4> QED BY <4>1, <4>4
    <3> QED BY <3>1
  <2>4. Cardinality(0..i) = i + 1 BY <2>2, FS_Interval
  <2>5. Cardinality(0..i) <= Cardinality(S) BY <1>5, <2>3, FS_Subset
  <2> QED BY <1>7, <1>8, <2>2, <2>4, <2>5
<1>10. S = 0..(m - 1)
  <2>1. IsFiniteSet(0..(m - 1)) /\ Cardinality(0..(m - 1)) = m
    <3>1. m \in Nat /\ m - 1 \in Int /\ 0 \in Int BY <1>1, <1>8
    <3>2. /\ IsFiniteSet(0..(m - 1))
          /\ Cardinality(0..(m - 1)) =
                IF 0 > m - 1 THEN 0 ELSE (m - 1) - 0 + 1
      BY <3>1, FS_Interval
    <3> QED BY <3>1, <3>2
  <2> QED BY <1>7, <1>9, <2>1, FS_Subset
<1>11. \A i \in I : kids[i] < l <=> i < m
  BY <1>1, <1>8, <1>10
<1> QED BY <1>1, <1>3, <1>8, <1>11 DEF Labels

\* So rank finds a label's own child, or the place of a missing one.
LEMMA Finds == IInv => RankFinds
<1> SUFFICES ASSUME IInv, NEW l \in Label
             PROVE  /\ ok(bitmap, l) => /\ idx(bitmap, l) < nkids
                                        /\ kids[idx(bitmap, l)] = l
                    /\ ~ok(bitmap, l) =>
                          \A i \in 0..(nkids - 1) :
                             /\ i < idx(bitmap, l) => kids[i] < l
                             /\ i >= idx(bitmap, l) => kids[i] > l
  BY DEF RankFinds
<1> DEFINE m == idx(bitmap, l)
<1>1. /\ m \in 0..nkids
      /\ \A i \in 0..(nkids - 1) : kids[i] < l <=> i < m
      /\ ok(bitmap, l) <=> l \in Labels
  BY Places
<1>2. /\ nkids \in Nat
      /\ \A i \in 0..(nkids - 1) : kids[i] \in Int
      /\ \A i, j \in 0..(nkids - 1) : i < j => kids[i] < kids[j]
      /\ l \in Int
  BY RoomAssumption, WAssumption DEF IInv, TypeOK, Sorted, Match, Label
<1> HIDE DEF m
<1>3. ASSUME l \in Labels PROVE m < nkids /\ kids[m] = l
  <2>1. PICK j \in 0..(nkids - 1) : kids[j] = l BY <1>3 DEF Labels
  <2>2. ~(j < m) BY <1>1, <1>2, <2>1
  <2>3. ~(m < j) BY <1>1, <1>2, <2>1
  <2>4. j = m BY <1>1, <1>2, <2>2, <2>3
  <2> QED BY <1>2, <2>1, <2>4
<1>4. ASSUME l \notin Labels, NEW i \in 0..(nkids - 1)
      PROVE  (i < m => kids[i] < l) /\ (i >= m => kids[i] > l)
  <2>1. kids[i] # l BY <1>4 DEF Labels
  <2> QED BY <1>1, <1>2, <2>1
<1> QED BY <1>1, <1>3, <1>4 DEF m

\* addKid's and delKid's bit operations change the presence of one label.
LEMMA SetsOwnBit ==
    ASSUME NEW bm \in Bitmap, NEW l \in Label
    PROVE  /\ SetBit(bm, l) \in Bitmap /\ ClearBit(bm, l) \in Bitmap
           /\ Present(SetBit(bm, l)) = Present(bm) \cup {l}
           /\ Present(ClearBit(bm, l)) = Present(bm) \ {l}
<1>1. l \div W \in 0..3 /\ l % W \in Bit BY LabelParts
<1>2. \A x \in Label : /\ x \div W \in 0..3
                       /\ x \div W = l \div W /\ x % W = l % W => x = l
  BY LabelParts
<1>3. SetBit(bm, l) \in Bitmap /\ ClearBit(bm, l) \in Bitmap
  BY <1>1 DEF SetBit, ClearBit, Bitmap, Word
<1>4. \A v \in 0..3 :
         /\ SetBit(bm, l)[v] = IF v = l \div W THEN bm[v] \cup {l % W} ELSE bm[v]
         /\ ClearBit(bm, l)[v] = IF v = l \div W THEN bm[v] \ {l % W} ELSE bm[v]
  BY <1>1 DEF SetBit, ClearBit, Bitmap
<1>5. \A x \in Label :
         /\ x % W \in SetBit(bm, l)[x \div W] <=>
               x % W \in bm[x \div W] \/ x = l
         /\ x % W \in ClearBit(bm, l)[x \div W] <=>
               x % W \in bm[x \div W] /\ x # l
  BY <1>2, <1>4
<1>6. Present(SetBit(bm, l)) = Present(bm) \cup {l}
  BY <1>5 DEF Present
<1>7. Present(ClearBit(bm, l)) = Present(bm) \ {l}
  BY <1>5 DEF Present
<1> QED BY <1>3, <1>6, <1>7

\* What IInv says, with the arithmetic the steps need.
LEMMA Unfolded ==
    ASSUME IInv
    PROVE  /\ nkids \in Nat /\ nkids <= Room /\ Room \in Nat
           /\ bitmap \in Bitmap
           /\ kids \in [0..(Room - 1) -> Label \cup {None}]
           /\ \A i \in 0..(nkids - 1) : kids[i] \in Label /\ kids[i] \in Int
           /\ \A i, j \in 0..(nkids - 1) : i < j => kids[i] < kids[j]
           /\ Present(bitmap) = Labels
<1>1. Label \subseteq Int BY WAssumption DEF Label
<1>2. Room \in Nat /\ nkids \in 0..Room BY RoomAssumption DEF IInv, TypeOK
<1>3. nkids \in Nat /\ nkids <= Room BY <1>2
<1>4. \A i \in 0..(nkids - 1) : kids[i] \in Label BY DEF IInv, Match
<1> QED BY <1>1, <1>2, <1>3, <1>4 DEF IInv, TypeOK, Sorted, Match

\* addKid keeps the array sorted and in step with the bitmap, and adds its label.
LEMMA AddStep ==
    ASSUME IInv, NEW l \in Label, addKid(l)
    PROVE  IInv' /\ Labels' = Labels \cup {l}
<1> DEFINE m == idx(bitmap, l)
<1>1. /\ nkids \in Nat /\ Room \in Nat /\ bitmap \in Bitmap
      /\ kids \in [0..(Room - 1) -> Label \cup {None}]
      /\ \A i \in 0..(nkids - 1) : kids[i] \in Label /\ kids[i] \in Int
      /\ \A i, j \in 0..(nkids - 1) : i < j => kids[i] < kids[j]
      /\ Present(bitmap) = Labels
  BY Unfolded
<1>2. l \in Int BY WAssumption DEF Label
<1>3. /\ m \in 0..nkids
      /\ \A i \in 0..(nkids - 1) : /\ i < m => kids[i] < l
                                   /\ i >= m => kids[i] > l
  BY Places, Finds DEF addKid, RankFinds
<1>4. /\ nkids < Room /\ nkids' = nkids + 1 /\ nkids' - 1 = nkids
      /\ kids' = insertAt(kids, nkids, m, l) /\ bitmap' = SetBit(bitmap, l)
  BY <1>1 DEF addKid
<1> HIDE DEF m
<1>5. /\ kids' \in [0..(Room - 1) -> Label \cup {None}]
      /\ \A j \in 0..nkids : kids'[j] = IF j = m THEN l
                                        ELSE IF m < j THEN kids[j - 1]
                                        ELSE kids[j]
  <2>1. \A j \in 0..(Room - 1) : m < j => j - 1 \in 0..(Room - 1) BY <1>1, <1>3
  <2>2. kids' \in [0..(Room - 1) -> Label \cup {None}]
    BY <1>1, <1>4, <2>1 DEF insertAt
  <2>3. \A j \in 0..nkids : j \in 0..(Room - 1) /\ j <= nkids BY <1>1, <1>4
  <2> QED BY <1>1, <1>4, <2>2, <2>3 DEF insertAt
<1>6. TypeOK'
  <2>1. bitmap' \in Bitmap BY <1>1, <1>4, SetsOwnBit
  <2>2. nkids' \in 0..Room BY <1>1, <1>4
  <2> QED BY <1>5, <2>1, <2>2 DEF TypeOK
<1>7. Sorted'
  <2>1. SUFFICES ASSUME NEW i \in 0..nkids, NEW j \in 0..nkids, i < j
                 PROVE  kids'[i] < kids'[j]
    BY <1>4 DEF Sorted
  <2>2. CASE j < m
    <3>1. i \in 0..(nkids - 1) /\ j \in 0..(nkids - 1) /\ i < m
      BY <1>1, <1>3, <2>1, <2>2
    <3>2. kids'[i] = kids[i] /\ kids'[j] = kids[j] BY <1>3, <1>5, <2>2, <3>1
    <3> QED BY <1>1, <2>1, <3>1, <3>2
  <2>3. CASE j = m
    <3>1. i \in 0..(nkids - 1) /\ i < m BY <1>1, <1>3, <2>1, <2>3
    <3>2. kids'[i] = kids[i] /\ kids'[j] = l BY <1>3, <1>5, <2>3, <3>1
    <3> QED BY <1>3, <3>1, <3>2
  <2>4. CASE m < j /\ i < m
    <3>1. i \in 0..(nkids - 1) /\ j - 1 \in 0..(nkids - 1) /\ i < j - 1
      BY <1>1, <1>3, <2>1, <2>4
    <3>2. kids'[i] = kids[i] /\ kids'[j] = kids[j - 1] BY <1>3, <1>5, <2>4
    <3> QED BY <1>1, <3>1, <3>2
  <2>5. CASE m < j /\ i = m
    <3>1. j - 1 \in 0..(nkids - 1) /\ j - 1 >= m BY <1>1, <1>3, <2>5
    <3>2. kids'[i] = l /\ kids'[j] = kids[j - 1] BY <1>3, <1>5, <2>5
    <3>3. kids[j - 1] > l BY <1>3, <3>1
    <3> QED BY <1>1, <1>2, <3>1, <3>2, <3>3
  <2>6. CASE m < i
    <3>1. /\ i - 1 \in 0..(nkids - 1) /\ j - 1 \in 0..(nkids - 1)
          /\ i - 1 < j - 1 /\ m < j
      BY <1>1, <1>3, <2>1, <2>6
    <3>2. kids'[i] = kids[i - 1] /\ kids'[j] = kids[j - 1]
      BY <1>3, <1>5, <2>6, <3>1
    <3> QED BY <1>1, <3>1, <3>2
  <2> QED BY <1>1, <1>3, <2>2, <2>3, <2>4, <2>5, <2>6
<1>8. Labels' = Labels \cup {l}
  <2>1. Labels' = {kids'[j] : j \in 0..nkids} BY <1>4 DEF Labels
  <2>2. ASSUME NEW j \in 0..nkids PROVE kids'[j] \in Labels \cup {l}
    <3>1. CASE j = m BY <1>5, <3>1
    <3>2. CASE m < j
      <4>1. j - 1 \in 0..(nkids - 1) BY <1>1, <1>3, <3>2
      <4> QED BY <1>3, <1>5, <3>2, <4>1 DEF Labels
    <3>3. CASE j < m
      <4>1. j \in 0..(nkids - 1) BY <1>1, <1>3, <3>3
      <4> QED BY <1>3, <1>5, <3>3, <4>1 DEF Labels
    <3> QED BY <1>3, <3>1, <3>2, <3>3
  <2>3. ASSUME NEW i \in 0..(nkids - 1)
        PROVE  \E j \in 0..nkids : kids'[j] = kids[i]
    <3>1. CASE i < m
      <4>1. i \in 0..nkids BY <1>1
      <4> QED BY <1>3, <1>5, <3>1, <4>1
    <3>2. CASE ~(i < m)
      <4>1. i + 1 \in 0..nkids /\ m < i + 1 /\ (i + 1) - 1 = i
        BY <1>1, <1>3, <3>2
      <4> QED BY <1>3, <1>5, <4>1
    <3> QED BY <3>1, <3>2
  <2>4. kids'[m] = l /\ m \in 0..nkids BY <1>3, <1>5
  <2>5. Labels \subseteq Labels' BY <2>1, <2>3 DEF Labels
  <2> QED BY <2>1, <2>2, <2>4, <2>5
<1>9. Match'
  <2>1. Present(bitmap') = Present(bitmap) \cup {l} BY <1>1, <1>4, SetsOwnBit
  <2>2. Present(bitmap)' = Labels' BY <1>1, <1>8, <2>1
  <2>3. Labels \subseteq Label BY <1>1 DEF Labels
  <2>4. \A j \in 0..nkids : kids'[j] \in Labels' BY <1>4 DEF Labels
  <2>5. \A j \in 0..nkids : kids'[j] \in Label BY <1>8, <2>3, <2>4
  <2> QED BY <1>4, <2>2, <2>5 DEF Match
<1> QED BY <1>6, <1>7, <1>8, <1>9 DEF IInv

\* delKid likewise, and takes its label away.
LEMMA DelStep ==
    ASSUME IInv, NEW l \in Label, delKid(l)
    PROVE  IInv' /\ Labels' = Labels \ {l}
<1> DEFINE m == idx(bitmap, l)
<1>1. /\ nkids \in Nat /\ nkids <= Room /\ Room \in Nat /\ bitmap \in Bitmap
      /\ kids \in [0..(Room - 1) -> Label \cup {None}]
      /\ \A i \in 0..(nkids - 1) : kids[i] \in Label /\ kids[i] \in Int
      /\ \A i, j \in 0..(nkids - 1) : i < j => kids[i] < kids[j]
      /\ Present(bitmap) = Labels
  BY Unfolded
<1>2. l \in Int BY WAssumption DEF Label
<1>3. m \in 0..(nkids - 1) /\ kids[m] = l
  <2>1. m \in 0..nkids /\ m < nkids /\ kids[m] = l
    BY Places, Finds DEF delKid, RankFinds
  <2> QED BY <1>1, <2>1
<1>4. /\ nkids' = nkids - 1
      /\ kids' = deleteAt(kids, nkids, m, None) /\ bitmap' = ClearBit(bitmap, l)
  BY <1>3 DEF delKid
<1> HIDE DEF m
<1>5. /\ kids' \in [0..(Room - 1) -> Label \cup {None}]
      /\ \A j \in 0..(nkids - 2) : kids'[j] = IF m <= j THEN kids[j + 1]
                                              ELSE kids[j]
  <2>1. \A j \in 0..(Room - 1) : j < nkids - 1 => j + 1 \in 0..(Room - 1)
    BY <1>1
  <2>2. kids' \in [0..(Room - 1) -> Label \cup {None}]
    BY <1>1, <1>4, <2>1 DEF deleteAt
  <2>3. \A j \in 0..(nkids - 2) : j \in 0..(Room - 1) /\ j < nkids - 1
    BY <1>1
  <2> QED BY <1>1, <1>4, <2>2, <2>3 DEF deleteAt
<1>6. TypeOK'
  <2>1. bitmap' \in Bitmap BY <1>1, <1>4, SetsOwnBit
  <2>2. nkids' \in 0..Room BY <1>1, <1>3, <1>4
  <2> QED BY <1>5, <2>1, <2>2 DEF TypeOK
<1>7. nkids' - 1 = nkids - 2 BY <1>1, <1>4
<1>8. Sorted'
  <2>1. SUFFICES ASSUME NEW i \in 0..(nkids - 2), NEW j \in 0..(nkids - 2), i < j
                 PROVE  kids'[i] < kids'[j]
    BY <1>7 DEF Sorted
  <2>2. /\ i \in 0..(nkids - 1) /\ i + 1 \in 0..(nkids - 1)
        /\ j \in 0..(nkids - 1) /\ j + 1 \in 0..(nkids - 1)
        /\ i < j + 1 /\ i + 1 < j + 1 /\ (m <= i => m <= j)
    BY <1>1, <1>3, <2>1
  <2>3. /\ kids'[i] = IF m <= i THEN kids[i + 1] ELSE kids[i]
        /\ kids'[j] = IF m <= j THEN kids[j + 1] ELSE kids[j]
    BY <1>5
  <2> QED BY <1>1, <2>1, <2>2, <2>3
<1>9. Labels' = Labels \ {l}
  <2>1. Labels' = {kids'[j] : j \in 0..(nkids - 2)} BY <1>7 DEF Labels
  <2>2. \A i \in 0..(nkids - 1) : kids[i] = l => i = m
    <3>1. \A i \in 0..(nkids - 1) : i < m \/ i = m \/ m < i BY <1>1, <1>3
    <3>2. \A i \in 0..(nkids - 1) : kids[i] = l => ~(i < m) /\ ~(m < i)
      BY <1>1, <1>2, <1>3
    <3> QED BY <3>1, <3>2
  <2>3. ASSUME NEW j \in 0..(nkids - 2) PROVE kids'[j] \in Labels \ {l}
    <3>1. CASE m <= j
      <4>1. j + 1 \in 0..(nkids - 1) /\ j + 1 # m BY <1>1, <1>3, <3>1
      <4> QED BY <1>5, <2>2, <3>1, <4>1 DEF Labels
    <3>2. CASE ~(m <= j)
      <4>1. j \in 0..(nkids - 1) /\ j # m BY <1>1, <1>3, <3>2
      <4> QED BY <1>5, <2>2, <3>2, <4>1 DEF Labels
    <3> QED BY <3>1, <3>2
  <2>4. ASSUME NEW i \in 0..(nkids - 1), kids[i] # l
        PROVE  \E j \in 0..(nkids - 2) : kids'[j] = kids[i]
    <3>1. CASE i < m
      <4>1. i \in 0..(nkids - 2) /\ ~(m <= i) BY <1>1, <1>3, <3>1
      <4> QED BY <1>5, <4>1
    <3>2. CASE m < i
      <4>1. i - 1 \in 0..(nkids - 2) /\ m <= i - 1 /\ (i - 1) + 1 = i
        BY <1>1, <1>3, <3>2
      <4> QED BY <1>5, <4>1
    <3>3. i # m BY <1>3, <2>4
    <3> QED BY <1>1, <1>3, <3>1, <3>2, <3>3
  <2>5. Labels \ {l} \subseteq Labels' BY <2>1, <2>4 DEF Labels
  <2> QED BY <2>1, <2>3, <2>5
<1>10. Match'
  <2>1. Present(bitmap') = Present(bitmap) \ {l} BY <1>1, <1>4, SetsOwnBit
  <2>2. Present(bitmap)' = Labels' BY <1>1, <1>9, <2>1
  <2>3. Labels \subseteq Label BY <1>1 DEF Labels
  <2>4. \A j \in 0..(nkids - 2) : kids'[j] \in Labels' BY <1>7 DEF Labels
  <2>5. \A j \in 0..(nkids - 2) : kids'[j] \in Label BY <1>9, <2>3, <2>4
  <2> QED BY <1>7, <2>2, <2>5 DEF Match
<1> QED BY <1>6, <1>8, <1>9, <1>10 DEF IInv

\* newNode's empty bitmap and array agree.
LEMMA InitInv == Init => IInv
<1> SUFFICES ASSUME Init PROVE IInv OBVIOUS
<1>1. bitmap \in Bitmap BY DEF Init, NoLabels, Bitmap, Word
<1>2. nkids = 0 /\ nkids \in 0..Room BY RoomAssumption DEF Init
<1>3. kids \in [0..(Room - 1) -> Label \cup {None}] BY DEF Init
<1>4. 0..(nkids - 1) = {} BY <1>2
<1>5. Present(bitmap) = {}
  <2>1. \A l \in Label : l \div W \in 0..3 BY LabelParts
  <2> QED BY <2>1 DEF Init, NoLabels, Present
<1>6. Labels = {} BY <1>4 DEF Labels
<1> QED BY <1>1, <1>2, <1>3, <1>4, <1>5, <1>6 DEF IInv, TypeOK, Sorted, Match

\* Every step of the specification preserves the invariant.
LEMMA StepInv == IInv /\ [Next]_vars => IInv'
<1> SUFFICES ASSUME IInv, [Next]_vars PROVE IInv' OBVIOUS
<1>1. ASSUME NEW l \in Label, addKid(l) PROVE IInv' BY <1>1, AddStep
<1>2. ASSUME NEW l \in Label, delKid(l) PROVE IInv' BY <1>2, DelStep
<1>3. CASE UNCHANGED vars
  BY <1>3 DEF vars, IInv, TypeOK, Sorted, Match, Labels, Present
<1> QED BY <1>1, <1>2, <1>3 DEF Next

\* The array and the bitmap agree after any sequence of addKid and delKid.
THEOREM ArrayMatchesBitmap == Spec => []IInv
<1> QED BY InitInv, StepInv, PTL DEF Spec

\* rank answers right, for any width of the words and any room in the array.
THEOREM RankFindsKids == Spec => []RankFinds
<1> QED BY ArrayMatchesBitmap, Finds, PTL

\* Each operation changes the membership of its own label only.
THEOREM LabelsChangeAlone == Spec => OwnLabelOnly
<1>1. IInv /\ [Next]_vars =>
         [\A l \in Label : /\ addKid(l) => Labels' = Labels \cup {l}
                           /\ delKid(l) => Labels' = Labels \ {l}]_vars
  BY AddStep, DelStep
<1> QED BY <1>1, ArrayMatchesBitmap, PTL DEF Spec, OwnLabelOnly
=============================================================================
