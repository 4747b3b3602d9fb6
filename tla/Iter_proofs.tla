----------------------------- MODULE Iter_proofs -----------------------------
(***************************************************************************)
(* An iterator stands on frozen nodes and its stack is well formed, for    *)
(* any number of iterators, writers and readers and any inline stack.      *)
(***************************************************************************)
EXTENDS Iter, RadixTxn_proofs, FunctionTheorems

-----------------------------------------------------------------------------
(* The stack *)

FrameType == [n : Nat, i : Int]
StackType == [depth : Nat, inline : [1..InlineFrames -> FrameType],
              spill : Seq(FrameType)]

\* The spilled frames reach as far as the depth says.
Reaches(s) == s \in StackType /\ Len(s.spill) >= s.depth - InlineFrames

\* push puts one frame on top and leaves those below alone.
LEMMA PushFrames ==
    ASSUME NEW s, Reaches(s), NEW n \in Nat, NEW i \in Int
    PROVE  /\ Reaches(push(s, n, i))
           /\ push(s, n, i).depth = s.depth + 1
           /\ FrameAt(push(s, n, i), s.depth + 1) = [n |-> n, i |-> i]
           /\ \A d \in 1..s.depth : FrameAt(push(s, n, i), d) = FrameAt(s, d)
  <1> DEFINE f == [n |-> n, i |-> i]
  <1>1. InlineFrames \in Nat \ {0} /\ s.depth \in Nat /\ f \in FrameType
    BY InlineFramesAssumption DEF Reaches, StackType, FrameType
  <1>2. CASE s.depth < InlineFrames
    <2> DEFINE q == [s.inline EXCEPT ![s.depth + 1] = f]
    <2>1. s.depth + 1 \in 1..InlineFrames /\ s.inline \in [1..InlineFrames -> FrameType]
      BY <1>1, <1>2 DEF Reaches, StackType
    <2>2. push(s, n, i) = [depth |-> s.depth + 1, inline |-> q, spill |-> s.spill]
      BY <1>2 DEF push, Reaches, StackType
    <2> HIDE DEF f
    <2>3. /\ q \in [1..InlineFrames -> FrameType] /\ q[s.depth + 1] = f
          /\ \A d \in 1..InlineFrames : d # s.depth + 1 => q[d] = s.inline[d]
      BY <1>1, <2>1
    <2> HIDE DEF q
    <2>4. Reaches(push(s, n, i))
      BY <1>1, <1>2, <2>2, <2>3 DEF Reaches, StackType
    <2>5. FrameAt(push(s, n, i), s.depth + 1) = f
      BY <2>1, <2>2, <2>3 DEF FrameAt
    <2>6. \A d \in 1..s.depth : FrameAt(push(s, n, i), d) = FrameAt(s, d)
      BY <1>1, <1>2, <2>2, <2>3 DEF FrameAt
    <2> QED BY <2>2, <2>4, <2>5, <2>6 DEF f
  <1>3. CASE ~(s.depth < InlineFrames)
    <2> DEFINE k == s.depth - InlineFrames
               p == SubSeq(s.spill, 1, k)
               q == Append(p, f)
    <2>1. k \in Nat /\ k <= Len(s.spill) /\ s.spill \in Seq(FrameType)
      BY <1>1, <1>3 DEF Reaches, StackType
    <2>2. push(s, n, i) = [depth |-> s.depth + 1, inline |-> s.inline, spill |-> q]
      BY <1>3 DEF push, Reaches, StackType
    <2>3. p \in Seq(FrameType) /\ Len(p) = k /\ \A d \in 1..k : p[d] = s.spill[d]
      BY <2>1
    <2> HIDE DEF p, f
    <2>4. /\ q \in Seq(FrameType) /\ Len(q) = k + 1 /\ q[k + 1] = f
          /\ \A d \in 1..k : q[d] = s.spill[d]
      BY <1>1, <2>1, <2>3
    <2> HIDE DEF q
    <2>5. Reaches(push(s, n, i))
      BY <1>1, <2>2, <2>4 DEF Reaches, StackType
    <2>6. FrameAt(push(s, n, i), s.depth + 1) = f
      <3>1. ~(s.depth + 1 <= InlineFrames) /\ s.depth + 1 - InlineFrames = k + 1
        BY <1>1, <1>3
      <3> QED BY <1>1, <2>2, <2>4, <3>1 DEF FrameAt
    <2>7. ASSUME NEW d \in 1..s.depth
          PROVE  FrameAt(push(s, n, i), d) = FrameAt(s, d)
      <3>1. ~(d <= InlineFrames) => d - InlineFrames \in 1..k
        BY <1>1
      <3> QED BY <2>2, <2>4, <3>1 DEF FrameAt
    <2> QED BY <2>2, <2>5, <2>6, <2>7 DEF f
  <1> QED BY <1>2, <1>3

\* pop forgets the frame on top and leaves those below alone.
LEMMA PopFrames ==
    ASSUME NEW s, Reaches(s), s.depth > 0
    PROVE  /\ Reaches(pop(s)) /\ pop(s).depth = s.depth - 1
           /\ \A d \in 1..(s.depth - 1) : FrameAt(pop(s), d) = FrameAt(s, d)
  <1>1. /\ pop(s).depth = s.depth - 1 /\ pop(s).inline = s.inline
        /\ pop(s).spill = s.spill /\ pop(s) \in StackType
    BY DEF pop, Reaches, StackType
  <1>2. InlineFrames \in Nat /\ s.depth \in Nat /\ Len(s.spill) \in Nat
    BY InlineFramesAssumption DEF Reaches, StackType
  <1> QED BY <1>1, <1>2 DEF Reaches, FrameAt

\* The store through top's pointer moves the frame on top and no other, where
\* ever that frame is kept.
LEMMA SetPosFrames ==
    ASSUME NEW s, Reaches(s), s.depth > 0, NEW i \in Int
    PROVE  /\ Reaches(SetPos(s, i)) /\ SetPos(s, i).depth = s.depth
           /\ FrameAt(SetPos(s, i), s.depth) = [n |-> top(s).n, i |-> i]
           /\ \A d \in 1..(s.depth - 1) :
                 FrameAt(SetPos(s, i), d) = FrameAt(s, d)
  <1>1. InlineFrames \in Nat \ {0} /\ s.depth \in Nat /\ Len(s.spill) \in Nat
    BY InlineFramesAssumption DEF Reaches, StackType
  <1>2. CASE s.depth <= InlineFrames
    <2>1. s.depth \in 1..InlineFrames /\ s.inline[s.depth] \in FrameType
      BY <1>1, <1>2 DEF Reaches, StackType
    <2>2. top(s) = s.inline[s.depth]
      BY <1>2 DEF top, FrameAt
    <2> DEFINE g == [s.inline[s.depth] EXCEPT !.i = i]
    <2>3. g = [n |-> top(s).n, i |-> i] /\ g \in FrameType
      BY <2>1, <2>2 DEF FrameType
    <2>4. SetPos(s, i) = [s EXCEPT !.inline = [@ EXCEPT ![s.depth] = g]]
      BY <1>2, <2>1 DEF SetPos, Reaches, StackType
    <2> HIDE DEF g
    <2>5. /\ SetPos(s, i).inline = [s.inline EXCEPT ![s.depth] = g]
          /\ SetPos(s, i).depth = s.depth /\ SetPos(s, i).spill = s.spill
          /\ SetPos(s, i) \in StackType
      <3> DEFINE a == [s.inline EXCEPT ![s.depth] = g]
      <3>1. s = [depth |-> s.depth, inline |-> s.inline, spill |-> s.spill]
            /\ s.inline \in [1..InlineFrames -> FrameType]
            /\ s.spill \in Seq(FrameType) /\ s.depth \in Nat
        BY DEF Reaches, StackType
      <3>2. a \in [1..InlineFrames -> FrameType]
        BY <2>3, <3>1
      <3>3. SetPos(s, i) = [s EXCEPT !.inline = a]
        BY <2>4
      <3> HIDE DEF a
      <3>4. SetPos(s, i) = [depth |-> s.depth, inline |-> a, spill |-> s.spill]
        BY <3>1, <3>3
      <3>5. SetPos(s, i) \in StackType
        BY <3>1, <3>2, <3>4 DEF StackType
      <3> QED BY <3>4, <3>5 DEF a
    <2>6. FrameAt(SetPos(s, i), s.depth) = g
      BY <1>2, <2>1, <2>5 DEF FrameAt, Reaches, StackType
    <2>7. \A d \in 1..(s.depth - 1) : FrameAt(SetPos(s, i), d) = FrameAt(s, d)
      BY <1>1, <1>2, <2>1, <2>5 DEF FrameAt, Reaches, StackType
    <2> QED BY <2>3, <2>5, <2>6, <2>7 DEF Reaches
  <1>3. CASE ~(s.depth <= InlineFrames)
    <2> DEFINE k == s.depth - InlineFrames
    <2>1. k \in 1..Len(s.spill) /\ s.spill \in Seq(FrameType)
          /\ s.spill[k] \in FrameType
      BY <1>1, <1>3 DEF Reaches, StackType
    <2>2. top(s) = s.spill[k]
      BY <1>3 DEF top, FrameAt
    <2> DEFINE g == [s.spill[k] EXCEPT !.i = i]
               q == [s.spill EXCEPT ![k] = g]
    <2>3. g = [n |-> top(s).n, i |-> i] /\ g \in FrameType
      <3> DEFINE f == s.spill[k]
      <3>1. f \in FrameType /\ top(s) = f
        BY <2>1, <2>2
      <3> HIDE DEF f
      <3>2. [f EXCEPT !.i = i] = [n |-> top(s).n, i |-> i]
            /\ [f EXCEPT !.i = i] \in FrameType
        BY <3>1 DEF FrameType
      <3> QED BY <3>2 DEF f
    <2>4. SetPos(s, i) = [s EXCEPT !.spill = q]
      BY <1>3 DEF SetPos
    <2> HIDE DEF g
    <2>5. q \in Seq(FrameType) /\ Len(q) = Len(s.spill) /\ q[k] = g
          /\ \A d \in 1..(k - 1) : q[d] = s.spill[d]
      BY <1>1, <2>1, <2>3
    <2> HIDE DEF q
    <2>6. /\ SetPos(s, i).inline = s.inline /\ SetPos(s, i).depth = s.depth
          /\ SetPos(s, i).spill = q /\ SetPos(s, i) \in StackType
      BY <2>4, <2>5 DEF Reaches, StackType
    <2>7. FrameAt(SetPos(s, i), s.depth) = g
      BY <1>1, <1>3, <2>5, <2>6 DEF FrameAt
    <2>8. \A d \in 1..(s.depth - 1) : FrameAt(SetPos(s, i), d) = FrameAt(s, d)
      BY <1>1, <1>3, <2>5, <2>6 DEF FrameAt
    <2> QED BY <2>3, <2>5, <2>6, <2>7, <2>8 DEF Reaches
  <1> QED BY <1>2, <1>3

\* reset leaves an empty stack.
LEMMA ResetFrames ==
    ASSUME NEW s, Reaches(s)
    PROVE  Reaches(reset(s)) /\ reset(s).depth = 0
  <1>1. /\ reset(s).depth = 0 /\ reset(s).spill = <<>>
        /\ reset(s) \in StackType
    BY EmptySeq DEF reset, Reaches, StackType
  <1>2. Len(reset(s).spill) = 0 BY <1>1
  <1> QED BY <1>1, <1>2, InlineFramesAssumption DEF Reaches

-----------------------------------------------------------------------------
(* Positions *)

\* A label's rank is the position of a child, or the one past the last.
LEMMA RankRange ==
    ASSUME NEW n, NEW b \in Byte
    PROVE  /\ KidCount(n) \in Nat /\ rank(n, b) \in 0..KidCount(n)
           /\ b \in Labels(n) => rank(n, b) < KidCount(n)
           /\ KidCount(n) > 0 <=> ~Childless(n)
  <1> DEFINE L == {l \in Labels(n) : l < b}
  <1>1. IsFiniteSet(Labels(n))
    <2>1. Labels(n) \in SUBSET Byte BY DEF Labels
    <2> QED BY <2>1, ByteAssumption, FS_Subset
  <1>2. L \in SUBSET Labels(n)
    OBVIOUS
  <1>3. /\ IsFiniteSet(L) /\ Cardinality(L) <= Cardinality(Labels(n))
        /\ Cardinality(Labels(n)) = Cardinality(L) => Labels(n) = L
    BY <1>1, <1>2, FS_Subset
  <1>4. Cardinality(L) \in Nat /\ Cardinality(Labels(n)) \in Nat
    BY <1>1, <1>3, FS_CardinalityType
  <1>5. b \notin L
    BY ByteAssumption
  <1>6. Cardinality(Labels(n)) = 0 <=> Labels(n) = {}
    BY <1>1, FS_EmptySet
  <1>7. rank(n, b) = Cardinality(L)
    BY DEF rank
  <1> HIDE DEF L
  <1>8. rank(n, b) \in 0..KidCount(n) /\ (b \in Labels(n) => rank(n, b) < KidCount(n))
    BY <1>3, <1>4, <1>5, <1>7 DEF KidCount
  <1>9. KidCount(n) > 0 <=> ~Childless(n)
    BY <1>4, <1>6 DEF KidCount, Childless
  <1> QED BY <1>4, <1>8, <1>9 DEF KidCount

\* The ranks of a node's labels differ.
LEMMA RankIncreases ==
    ASSUME NEW n, NEW b \in Labels(n), NEW c \in Labels(n), b < c
    PROVE  rank(n, b) < rank(n, c)
  <1> DEFINE L == {l \in Labels(n) : l < b}
             M == {l \in Labels(n) : l < c}
  <1>1. b \in Byte /\ c \in Byte /\ Labels(n) \in SUBSET Byte
    BY DEF Labels
  <1>2. IsFiniteSet(M)
    <2>1. M \in SUBSET Byte BY <1>1
    <2> QED BY <2>1, ByteAssumption, FS_Subset
  <1>3. L \in SUBSET M
    <2>1. \A l \in Labels(n) : l \in Nat
      BY <1>1, ByteAssumption
    <2>2. \A l \in Labels(n) : l < b => l < c
      BY <2>1
    <2> QED BY <2>2
  <1>4. b \in M /\ b \notin L
    BY <1>1, ByteAssumption
  <1>5. /\ IsFiniteSet(L) /\ Cardinality(L) <= Cardinality(M)
        /\ Cardinality(M) = Cardinality(L) => M = L
    BY <1>2, <1>3, FS_Subset
  <1>6. Cardinality(L) \in Nat /\ Cardinality(M) \in Nat
    BY <1>2, <1>5, FS_CardinalityType
  <1>7. rank(n, b) = Cardinality(L) /\ rank(n, c) = Cardinality(M)
    BY DEF rank
  <1> HIDE DEF L, M
  <1> QED BY <1>4, <1>5, <1>6, <1>7

\* Every position below the number of children is the rank of some child, so
\* kid finds one.
LEMMA KidThere ==
    ASSUME NEW n, NEW i \in 0..(KidCount(n) - 1)
    PROVE  \E b \in Labels(n) : kid(n, i) = Kid(n, b)
  <1> DEFINE T == 0..(KidCount(n) - 1)
             f == [b \in Labels(n) |-> rank(n, b)]
  <1>1. Labels(n) \in SUBSET Byte
    BY DEF Labels
  <1>2. KidCount(n) \in Nat
    BY KidCountType
  <1>3. f \in [Labels(n) -> T]
    <2>1. \A b \in Labels(n) : rank(n, b) \in T
      BY <1>1, <1>2, RankRange
    <2> QED BY <2>1
  <1>4. \A b, c \in Labels(n) : f[b] = f[c] => b = c
    <2>1. SUFFICES ASSUME NEW b \in Labels(n), NEW c \in Labels(n), b # c
                   PROVE  rank(n, b) # rank(n, c)
      OBVIOUS
    <2>2. b \in Nat /\ c \in Nat
      BY <1>1, ByteAssumption
    <2>3. rank(n, b) \in Nat /\ rank(n, c) \in Nat
      BY <1>1, <1>2, RankRange
    <2>4. b < c \/ c < b
      BY <2>1, <2>2
    <2> QED BY <2>3, <2>4, RankIncreases
  <1>5. f \in Injection(Labels(n), T)
    BY <1>3, <1>4, Fun_IsInj
  <1>6. IsFiniteSet(T) /\ Cardinality(T) = KidCount(n)
    <2>1. 0 \in Int /\ KidCount(n) - 1 \in Int
      BY <1>2
    <2>2. IsFiniteSet(T)
          /\ Cardinality(T) = IF 0 > KidCount(n) - 1 THEN 0
                              ELSE KidCount(n) - 1 - 0 + 1
      BY <2>1, FS_Interval
    <2> QED BY <1>2, <2>2
  <1>7. f \in Surjection(Labels(n), T)
    <2>1. Cardinality(Labels(n)) = Cardinality(T)
      BY <1>6 DEF KidCount
    <2> HIDE DEF T, f
    <2> QED BY <1>5, <1>6, <2>1, FS_Injection
  <1>8. \E b \in Labels(n) : rank(n, b) = i
    BY <1>7 DEF Surjection
  <1> QED BY <1>8 DEF kid

-----------------------------------------------------------------------------
(* What an iterator stands on *)

\* What an iterator holds, and when it is in order.
ItType == [dir : {"up", "down"}, kind : {"prefix", "bound"}, tree : Nat,
           key : Seq(Byte), pc : {"ready", "seek", "next"}, n : Nat,
           search : Seq(Byte), s : StackType, ret : Seq(Nat)]

FrameOK(dir, f) ==
    /\ f.n \in Nodes /\ Frozen(f.n) /\ f.i <= KidCount(f.n)
    /\ IF dir = "up"
       THEN f.i >= leafOnly /\ (f.i # leafOnly <=> ~Childless(f.n))
       ELSE f.i >= -1 /\ f.i < KidCount(f.n)
FramesOK(dir, s) == Reaches(s) /\ \A d \in 1..s.depth : FrameOK(dir, FrameAt(s, d))

CursorOK(x) ==
    /\ x \in ItType /\ FramesOK(x.dir, x.s)
    /\ x.n # Nil => x.n \in Nodes /\ Frozen(x.n)
    /\ x.pc = "seek" => x.n # Nil

IterInv == /\ IInv /\ it \in [Cursors -> ItType]
           /\ \A c \in Cursors : CursorOK(it[c])

\* c's turn leaves it in order.
Moved(c) == \E x : CursorOK(x) /\ it' = [it EXCEPT ![c] = x]

\* What is read in a node: its children are nodes, and frozen if it is.
LEMMA FrozenNode ==
    ASSUME IInv, NEW n \in Nodes, Frozen(n)
    PROVE  /\ n \in Nat /\ n # Nil /\ heap[n].val \in Nat
           /\ heap[n].prefix \in Seq(Byte)
           /\ \A b \in Byte : Kid(n, b) # Nil =>
                 Kid(n, b) \in Nodes /\ Frozen(Kid(n, b))
  <1>1. HeapOK /\ OwnedBelowOwned
    BY DEF IInv, TypeOK, Ownership
  <1>2. n \in Nat /\ n # Nil /\ heap[n] \in NodeType
    BY <1>1 DEF HeapOK, Nodes, Nil
  <1>3. heap[n].val \in Nat /\ heap[n].prefix \in Seq(Byte)
    BY <1>2 DEF NodeType
  <1>4. ASSUME NEW b \in Byte, Kid(n, b) # Nil
        PROVE  Kid(n, b) \in Nodes /\ Frozen(Kid(n, b))
    <2>1. Kid(n, b) \in Nodes
      BY <1>1, <1>4 DEF HeapOK, Ref, Nodes, Kid, Nil
    <2>2. Frozen(Kid(n, b))
      BY <1>1, <1>4 DEF OwnedBelowOwned, Frozen, Kid
    <2> QED BY <2>1, <2>2
  <1> QED BY <1>2, <1>3, <1>4

\* The child at a position that is in range.
LEMMA FrozenKid ==
    ASSUME IInv, NEW n \in Nodes, Frozen(n), NEW i \in Int, 0 <= i, i < KidCount(n)
    PROVE  kid(n, i) \in Nodes /\ Frozen(kid(n, i))
  <1>1. i \in 0..(KidCount(n) - 1)
    BY KidCountType
  <1>2. PICK b \in Labels(n) : kid(n, i) = Kid(n, b)
    BY <1>1, KidThere
  <1> QED BY <1>2, FrozenNode DEF Labels

\* A frame that is in order can be pushed.
LEMMA PushGood ==
    ASSUME NEW dir, NEW s, FramesOK(dir, s), NEW n \in Nat, NEW i \in Int,
           FrameOK(dir, [n |-> n, i |-> i])
    PROVE  FramesOK(dir, push(s, n, i))
  <1>1. Reaches(s) /\ s.depth \in Nat
    BY DEF FramesOK, Reaches, StackType
  <1>2. \A d \in 1..(s.depth + 1) : d = s.depth + 1 \/ d \in 1..s.depth
    BY <1>1
  <1> QED BY <1>1, <1>2, PushFrames DEF FramesOK

\* A frame can be dropped.
LEMMA PopGood ==
    ASSUME NEW dir, NEW s, FramesOK(dir, s), s.depth > 0
    PROVE  FramesOK(dir, pop(s))
  <1>1. Reaches(s) /\ s.depth \in Nat
    BY DEF FramesOK, Reaches, StackType
  <1>2. \A d \in 1..(s.depth - 1) : d \in 1..s.depth
    BY <1>1
  <1> QED BY <1>1, <1>2, PopFrames DEF FramesOK

\* The frame on top can be moved to a position that is in order.
LEMMA SetPosGood ==
    ASSUME NEW dir, NEW s, FramesOK(dir, s), s.depth > 0, NEW i \in Int,
           FrameOK(dir, [n |-> top(s).n, i |-> i])
    PROVE  FramesOK(dir, SetPos(s, i)) /\ SetPos(s, i).depth > 0
  <1>1. Reaches(s) /\ s.depth \in Nat
    BY DEF FramesOK, Reaches, StackType
  <1>2. \A d \in 1..s.depth : d = s.depth \/ d \in 1..(s.depth - 1)
    BY <1>1
  <1> QED BY <1>1, <1>2, SetPosFrames DEF FramesOK

\* The frame Next or Previous reads.
LEMMA TopGood ==
    ASSUME NEW dir, NEW s, FramesOK(dir, s), s.depth > 0
    PROVE  FrameOK(dir, top(s)) /\ top(s) \in FrameType
  <1>1. Reaches(s) /\ s.depth \in 1..s.depth /\ s.depth \in Nat
        /\ InlineFrames \in Nat
    BY InlineFramesAssumption DEF FramesOK, Reaches, StackType
  <1>2. CASE s.depth <= InlineFrames
    <2>1. s.depth \in 1..InlineFrames BY <1>1, <1>2
    <2> QED BY <1>1, <1>2, <2>1 DEF top, FrameAt, Reaches, StackType, FramesOK
  <1>3. CASE ~(s.depth <= InlineFrames)
    <2>1. s.depth - InlineFrames \in 1..Len(s.spill)
      BY <1>1, <1>3 DEF Reaches, StackType
    <2> QED BY <1>1, <1>3, <2>1 DEF top, FrameAt, Reaches, StackType, FramesOK
  <1> QED BY <1>2, <1>3

\* pushSubtree pushes a frame that Next can read, or none.
LEMMA PushSubtreeGood ==
    ASSUME IInv, NEW s, FramesOK("up", s), NEW n \in Nodes, Frozen(n)
    PROVE  FramesOK("up", pushSubtree(s, n))
  <1>1. n \in Nat /\ -1 \in Int /\ leafOnly \in Int /\ KidCount(n) \in Nat
    BY FrozenNode, KidCountType DEF leafOnly
  <1>2. ~Childless(n) => FrameOK("up", [n |-> n, i |-> -1])
    BY <1>1 DEF FrameOK, leafOnly
  <1>3. Childless(n) => FrameOK("up", [n |-> n, i |-> leafOnly])
    BY <1>1 DEF FrameOK, leafOnly
  <1> QED BY <1>1, <1>2, <1>3, PushGood DEF pushSubtree

\* So do both seeks for a subtree that qualifies as a whole.
LEMMA PushWholeGood ==
    ASSUME IInv, NEW dir \in {"up", "down"}, NEW s, FramesOK(dir, s),
           NEW n \in Nodes, Frozen(n)
    PROVE  FramesOK(dir, pushWhole(dir, s, n))
  <1>1. CASE dir = "up"
    BY <1>1, PushSubtreeGood DEF pushWhole
  <1>2. CASE dir # "up"
    <2>1. n \in Nat /\ KidCount(n) \in Nat /\ KidCount(n) - 1 \in Int
      BY FrozenNode, KidCountType
    <2>2. FrameOK(dir, [n |-> n, i |-> KidCount(n) - 1])
      BY <1>2, <2>1 DEF FrameOK
    <2> QED BY <1>2, <2>1, <2>2, PushGood DEF pushWhole
  <1> QED BY <1>1, <1>2

\* A call returns, with its stack in order.
LEMMA DoneGood ==
    ASSUME IterInv, NEW c \in Cursors, NEW s, FramesOK(it[c].dir, s),
           NEW v \in Seq(Nat), Done(c, s, v)
    PROVE  Moved(c)
  <1> DEFINE x == [it[c] EXCEPT !.pc = "ready", !.n = Nil, !.search = <<>>,
                                !.s = s, !.ret = v]
  <1>1. it[c] \in ItType /\ s \in StackType
    BY DEF IterInv, FramesOK, Reaches
  <1>2. x \in ItType
    BY <1>1, EmptySeq DEF ItType, Nil
  <1>3. x.dir = it[c].dir /\ x.s = s /\ x.n = Nil /\ x.pc = "ready"
    BY <1>1 DEF ItType
  <1>4. it' = [it EXCEPT ![c] = x]
    BY DEF Done, Set
  <1> HIDE DEF x
  <1>5. CursorOK(x)
    BY <1>2, <1>3 DEF CursorOK
  <1> QED BY <1>4, <1>5 DEF Moved

\* A loop goes on.
LEMMA GoOnGood ==
    ASSUME IterInv, NEW c \in Cursors, NEW s, FramesOK(it[c].dir, s),
           GoOn(c, s)
    PROVE  Moved(c)
  <1> DEFINE x == [it[c] EXCEPT !.pc = "next", !.s = s]
  <1>1. it[c] \in ItType /\ CursorOK(it[c]) /\ s \in StackType
    BY DEF IterInv, FramesOK, Reaches
  <1>2. x \in ItType
    BY <1>1 DEF ItType
  <1>3. x.dir = it[c].dir /\ x.s = s /\ x.n = it[c].n /\ x.pc = "next"
    BY <1>1 DEF ItType
  <1>4. it' = [it EXCEPT ![c] = x]
    BY DEF GoOn, Set
  <1> HIDE DEF x
  <1>5. CursorOK(x)
    BY <1>1, <1>2, <1>3 DEF CursorOK
  <1> QED BY <1>4, <1>5 DEF Moved

\* The loop of a seek goes on with a child.
LEMMA DownGood ==
    ASSUME IterInv, NEW c \in Cursors, NEW s, FramesOK(it[c].dir, s),
           NEW n \in Nodes, Frozen(n), NEW search \in Seq(Byte),
           Down(c, s, n, search)
    PROVE  Moved(c)
  <1> DEFINE x == [it[c] EXCEPT !.n = n, !.search = search, !.s = s]
  <1>1. it[c] \in ItType /\ s \in StackType /\ n \in Nat /\ n # Nil
    BY FrozenNode DEF IterInv, FramesOK, Reaches
  <1>2. x \in ItType
    BY <1>1 DEF ItType
  <1>3. x.dir = it[c].dir /\ x.s = s /\ x.n = n
    BY <1>1 DEF ItType
  <1>4. it' = [it EXCEPT ![c] = x]
    BY DEF Down, Set
  <1> HIDE DEF x
  <1>5. CursorOK(x)
    BY <1>1, <1>2, <1>3 DEF CursorOK
  <1> QED BY <1>4, <1>5 DEF Moved

-----------------------------------------------------------------------------
(* The turns *)

\* A seek empties the stack and starts at the root of a published tree.
LEMMA SeekGood ==
    ASSUME IterInv, NEW c \in Cursors, NEW dir \in {"up", "down"},
           NEW kind \in {"prefix", "bound"}, NEW t \in trees, NEW k \in Key,
           Seek(c, dir, kind, t, k)
    PROVE  Moved(c)
  <1> DEFINE x == [dir |-> dir, kind |-> kind, tree |-> t, key |-> k,
                   pc |-> "seek", n |-> t, search |-> k, s |-> reset(it[c].s),
                   ret |-> <<>>]
  <1>1. Reaches(it[c].s)
    BY DEF IterInv, CursorOK, FramesOK
  <1>2. Reaches(reset(it[c].s)) /\ reset(it[c].s).depth = 0
    BY <1>1, ResetFrames
  <1>3. t \in Nodes /\ Frozen(t) /\ k \in Seq(Byte)
    BY KeyAssumption DEF IterInv, IInv, TypeOK, PubOK, Ownership, SharedIsFrozen
  <1>4. t \in Nat /\ t # Nil
    BY <1>3, FrozenNode DEF IterInv
  <1>5. x \in ItType
    BY <1>2, <1>3, <1>4, EmptySeq DEF ItType, Reaches
  <1>6. FramesOK(dir, reset(it[c].s))
    BY <1>2 DEF FramesOK
  <1>7. CursorOK(x)
    BY <1>3, <1>4, <1>5, <1>6 DEF CursorOK
  <1> QED BY <1>7 DEF Seek, Set, Moved

\* seekPrefix ends on a node it stands on, or on a child of it.
LEMMA SeekPrefixGood ==
    ASSUME IterInv, NEW c \in Cursors, SeekPrefix(c)
    PROVE  Moved(c)
  <1> DEFINE n == it[c].n
             search == it[c].search
             s == it[c].s
             dir == it[c].dir
             b == Kid(n, Head(search))
  <1>1. it[c] \in ItType /\ CursorOK(it[c]) /\ IInv
    BY DEF IterInv
  <1>2. /\ n \in Nodes /\ Frozen(n) /\ FramesOK(dir, s)
        /\ dir \in {"up", "down"} /\ search \in Seq(Byte)
    BY <1>1 DEF CursorOK, ItType, SeekPrefix
  <1>3. <<>> \in Seq(Nat)
    BY EmptySeq
  <1>4. search # <<>> => Head(search) \in Byte
    BY <1>2
  <1>5. search # <<>> /\ b # Nil => b \in Nodes /\ Frozen(b)
    BY <1>1, <1>2, <1>4, FrozenNode
  <1>6. CASE search = <<>> /\ Done(c, pushWhole(dir, s, n), <<>>)
    BY <1>1, <1>2, <1>3, <1>6, PushWholeGood, DoneGood
  <1>7. CASE Done(c, s, <<>>)
    BY <1>2, <1>3, <1>7, DoneGood
  <1>8. CASE /\ search # <<>> /\ b # Nil
             /\ Down(c, s, b, Drop(search, Len(heap[b].prefix)))
    <2>1. b \in Nodes /\ Frozen(b)
      BY <1>5, <1>8
    <2>2. Len(heap[b].prefix) \in Nat
      BY <1>1, <2>1, FrozenNode
    <2>3. Drop(search, Len(heap[b].prefix)) \in Seq(Byte)
      BY <1>2, <2>2, DropType
    <2> HIDE DEF b, search
    <2> QED BY <1>2, <1>8, <2>1, <2>3, DownGood
  <1>9. CASE /\ search # <<>> /\ b # Nil
             /\ Done(c, IF EndsInside(b, search) THEN pushWhole(dir, s, b)
                                                 ELSE s, <<>>)
    <2>1. FramesOK(dir, pushWhole(dir, s, b))
      BY <1>1, <1>2, <1>5, <1>9, PushWholeGood
    <2> QED BY <1>2, <1>3, <1>9, <2>1, DoneGood
  <1> QED BY <1>6, <1>7, <1>8, <1>9 DEF SeekPrefix

\* What both bound seeks read of the node they stand on.
LEMMA BoundFacts ==
    ASSUME IterInv, NEW c \in Cursors, it[c].pc = "seek"
    PROVE  /\ it[c].n \in Nodes /\ Frozen(it[c].n) /\ it[c].n \in Nat
           /\ KidCount(it[c].n) \in Nat
           /\ FramesOK(it[c].dir, it[c].s) /\ it[c].search \in Seq(Byte)
           /\ heap[it[c].n].prefix \in Seq(Byte) /\ <<>> \in Seq(Nat)
           /\ \A common \in Nat : common < Len(it[c].search) =>
                 it[c].search[common + 1] \in Byte
  <1>1. it[c] \in ItType /\ CursorOK(it[c]) /\ IInv
    BY DEF IterInv
  <1>2. it[c].n \in Nodes /\ Frozen(it[c].n) /\ FramesOK(it[c].dir, it[c].s)
        /\ it[c].search \in Seq(Byte)
    BY <1>1 DEF CursorOK, ItType
  <1>3. it[c].n \in Nat /\ heap[it[c].n].prefix \in Seq(Byte)
        /\ KidCount(it[c].n) \in Nat
    BY <1>1, <1>2, FrozenNode, KidCountType
  <1> QED BY <1>2, <1>3, EmptySeq

\* SeekLowerBound pushes positions of children it has not passed.
LEMMA SeekLowerGood ==
    ASSUME IterInv, NEW c \in Cursors, SeekLower(c)
    PROVE  Moved(c)
  <1> DEFINE n == it[c].n
             search == it[c].search
             s == it[c].s
             p == heap[n].prefix
  <1>1. it[c].pc = "seek" /\ it[c].dir = "up" /\ IInv
    BY DEF SeekLower, IterInv
  <1>2. /\ n \in Nodes /\ Frozen(n) /\ n \in Nat /\ KidCount(n) \in Nat
        /\ FramesOK("up", s) /\ search \in Seq(Byte) /\ p \in Seq(Byte)
        /\ <<>> \in Seq(Nat)
        /\ \A common \in Nat : common < Len(search) => search[common + 1] \in Byte
    BY <1>1, BoundFacts
  <1>3. FramesOK("up", pushSubtree(s, n))
    BY <1>1, <1>2, PushSubtreeGood
  <1>4. CASE Done(c, s, <<>>) \/ Done(c, pushSubtree(s, n), <<>>)
    BY <1>1, <1>2, <1>3, <1>4, DoneGood
  <1>5. ASSUME NEW common \in 0..Len(p), common < Len(search),
               LET b == search[common + 1]
                   idx == rank(n, b)
               IN  \/ /\ Kid(n, b) = Nil
                      /\ Done(c, IF idx < KidCount(n) THEN push(s, n, idx)
                                                      ELSE s, <<>>)
                   \/ /\ Kid(n, b) # Nil
                      /\ Down(c, push(s, n, idx + 1), Kid(n, b),
                              Drop(search, common))
        PROVE  Moved(c)
    <2> DEFINE b == search[common + 1]
               idx == rank(n, b)
    <2>1. common \in Nat /\ b \in Byte
      BY <1>2, <1>5
    <2>2. /\ idx \in 0..KidCount(n) /\ (b \in Labels(n) => idx < KidCount(n))
          /\ (KidCount(n) > 0 <=> ~Childless(n))
      BY <2>1, RankRange
    <2>3. Kid(n, b) # Nil => b \in Labels(n)
      BY <2>1 DEF Labels
    <2>4. CASE /\ Kid(n, b) = Nil
               /\ Done(c, IF idx < KidCount(n) THEN push(s, n, idx) ELSE s, <<>>)
      <3>1. ASSUME idx < KidCount(n) PROVE FramesOK("up", push(s, n, idx))
        <4> HIDE DEF idx, n
        <4>1. FrameOK("up", [n |-> n, i |-> idx])
          BY <1>2, <2>2, <3>1 DEF FrameOK, leafOnly
        <4> QED BY <1>2, <2>2, <4>1, PushGood
      <3> QED BY <1>1, <1>2, <2>4, <3>1, DoneGood
    <2>5. CASE /\ Kid(n, b) # Nil
               /\ Down(c, push(s, n, idx + 1), Kid(n, b), Drop(search, common))
      <3>1. FramesOK("up", push(s, n, idx + 1))
        <4> HIDE DEF idx, n
        <4>1. FrameOK("up", [n |-> n, i |-> idx + 1])
          BY <1>2, <2>2, <2>3, <2>5 DEF FrameOK, leafOnly
        <4> QED BY <1>2, <2>2, <4>1, PushGood
      <3>2. Kid(n, b) \in Nodes /\ Frozen(Kid(n, b))
        BY <1>1, <1>2, <2>1, <2>5, FrozenNode
      <3>3. Drop(search, common) \in Seq(Byte)
        BY <1>2, <2>1, DropType
      <3> QED BY <1>1, <2>5, <3>1, <3>2, <3>3, DownGood
    <2> QED BY <1>5, <2>4, <2>5
  <1> QED BY <1>4, <1>5 DEF SeekLower

\* SeekReverseLowerBound likewise; the frame it pushes may hold nothing but
\* the node's own value.
LEMMA SeekReverseLowerGood ==
    ASSUME IterInv, NEW c \in Cursors, SeekReverseLower(c)
    PROVE  Moved(c)
  <1> DEFINE n == it[c].n
             search == it[c].search
             s == it[c].s
             p == heap[n].prefix
  <1>1. it[c].pc = "seek" /\ it[c].dir = "down" /\ IInv
    BY DEF SeekReverseLower, IterInv
  <1>2. /\ n \in Nodes /\ Frozen(n) /\ n \in Nat /\ KidCount(n) \in Nat
        /\ FramesOK("down", s) /\ search \in Seq(Byte) /\ p \in Seq(Byte)
        /\ <<>> \in Seq(Nat)
        /\ \A common \in Nat : common < Len(search) => search[common + 1] \in Byte
    BY <1>1, BoundFacts
  <1>3. ASSUME NEW i \in Int, i >= -1, i < KidCount(n)
        PROVE  FramesOK("down", push(s, n, i))
    <2> HIDE DEF n
    <2>1. FrameOK("down", [n |-> n, i |-> i])
      BY <1>2, <1>3 DEF FrameOK
    <2> QED BY <1>2, <2>1, PushGood
  <1>4. FramesOK("down", push(s, n, KidCount(n) - 1))
        /\ FramesOK("down", push(s, n, -1))
    BY <1>2, <1>3
  <1>5. CASE \/ Done(c, s, <<>>)
             \/ Done(c, push(s, n, KidCount(n) - 1), <<>>)
             \/ Done(c, push(s, n, -1), <<>>)
    BY <1>1, <1>2, <1>4, <1>5, DoneGood
  <1>6. ASSUME NEW common \in 0..Len(p), common < Len(search),
               LET b == search[common + 1]
                   t == push(s, n, rank(n, b) - 1)
               IN  \/ Kid(n, b) = Nil /\ Done(c, t, <<>>)
                   \/ /\ Kid(n, b) # Nil
                      /\ Down(c, t, Kid(n, b), Drop(search, common))
        PROVE  Moved(c)
    <2> DEFINE b == search[common + 1]
               t == push(s, n, rank(n, b) - 1)
    <2>1. common \in Nat /\ b \in Byte
      BY <1>2, <1>6
    <2>2. rank(n, b) - 1 \in Int /\ rank(n, b) - 1 >= -1
          /\ rank(n, b) - 1 < KidCount(n)
      BY <1>2, <2>1, RankRange
    <2>3. FramesOK("down", t)
      BY <1>3, <2>2
    <2>4. Drop(search, common) \in Seq(Byte)
      BY <1>2, <2>1, DropType
    <2>5. Kid(n, b) # Nil => Kid(n, b) \in Nodes /\ Frozen(Kid(n, b))
      BY <1>1, <1>2, <2>1, FrozenNode
    <2> HIDE DEF t
    <2>6. CASE Done(c, t, <<>>)
      BY <1>1, <1>2, <2>3, <2>6, DoneGood
    <2>7. CASE Kid(n, b) # Nil /\ Down(c, t, Kid(n, b), Drop(search, common))
      BY <1>1, <2>3, <2>4, <2>5, <2>7, DownGood
    <2> QED BY <1>6, <2>6, <2>7 DEF t
  <1> QED BY <1>5, <1>6 DEF SeekReverseLower

\* What Next and Previous read of the frame on top.
LEMMA TopFacts ==
    ASSUME IterInv, NEW c \in Cursors, it[c].s.depth > 0
    PROVE  LET s == it[c].s
               n == top(s).n
               i == top(s).i
           IN  /\ n \in Nodes /\ Frozen(n) /\ n \in Nat /\ i \in Int
               /\ KidCount(n) \in Nat /\ FramesOK(it[c].dir, s)
               /\ FrameOK(it[c].dir, [n |-> n, i |-> i])
               /\ FramesOK(it[c].dir, pop(s))
               /\ heap[n].val \in Nat /\ <<heap[n].val>> \in Seq(Nat)
               /\ <<>> \in Seq(Nat)
               /\ i >= 0 /\ i < KidCount(n) =>
                     LET b == kid(n, i)
                     IN  /\ b \in Nodes /\ Frozen(b) /\ b \in Nat
                         /\ KidCount(b) \in Nat
                         /\ <<heap[b].val>> \in Seq(Nat)
  <1> DEFINE s == it[c].s
             n == top(s).n
             i == top(s).i
             b == kid(n, i)
  <1>1. IInv /\ FramesOK(it[c].dir, s)
    BY DEF IterInv, CursorOK
  <1>2. FrameOK(it[c].dir, top(s)) /\ top(s) \in FrameType
    BY <1>1, TopGood
  <1>3. n \in Nat /\ i \in Int /\ top(s) = [n |-> n, i |-> i]
    BY <1>2 DEF FrameType
  <1>4. n \in Nodes /\ Frozen(n)
    BY <1>2 DEF FrameOK
  <1>5. KidCount(n) \in Nat /\ heap[n].val \in Nat
    BY <1>1, <1>4, FrozenNode, KidCountType
  <1>6. FramesOK(it[c].dir, pop(s))
    BY <1>1, PopGood
  <1>7. ASSUME i >= 0, i < KidCount(n)
        PROVE  /\ b \in Nodes /\ Frozen(b) /\ b \in Nat /\ KidCount(b) \in Nat
               /\ heap[b].val \in Nat
    <2>1. b \in Nodes /\ Frozen(b)
      BY <1>1, <1>3, <1>4, <1>7, FrozenKid
    <2> QED BY <1>1, <2>1, FrozenNode, KidCountType
  <1>8. <<>> \in Seq(Nat) /\ \A v \in Nat : <<v>> \in Seq(Nat)
    BY EmptySeq
  <1> HIDE DEF b, n, i, s
  <1>9. FrameOK(it[c].dir, [n |-> n, i |-> i])
    BY <1>2, <1>3
  <1> QED BY <1>1, <1>3, <1>4, <1>5, <1>6, <1>7, <1>8, <1>9 DEF b, n, i, s

\* Next counts children up, and goes down into one that has children.
LEMMA NextTurnGood ==
    ASSUME IterInv, NEW c \in Cursors, NextTurn(c)
    PROVE  Moved(c)
  <1> DEFINE s == it[c].s
             n == top(s).n
             i == top(s).i
             b == kid(n, i)
             t == SetPos(s, i + 1)
  <1>1. it[c].dir = "up" /\ s.depth > 0
    BY DEF NextTurn, Calling
  <1>2. /\ n \in Nodes /\ Frozen(n) /\ n \in Nat /\ i \in Int
        /\ KidCount(n) \in Nat /\ FramesOK("up", s)
        /\ FrameOK("up", [n |-> n, i |-> i]) /\ FramesOK("up", pop(s))
        /\ <<heap[n].val>> \in Seq(Nat) /\ <<>> \in Seq(Nat)
        /\ i >= 0 /\ i < KidCount(n) =>
              /\ b \in Nodes /\ Frozen(b) /\ b \in Nat /\ KidCount(b) \in Nat
              /\ <<heap[b].val>> \in Seq(Nat)
    BY <1>1, TopFacts
  <1>3. ASSUME i # leafOnly, NEW j \in Int, j >= 0, j <= KidCount(n)
        PROVE  FramesOK("up", SetPos(s, j))
    <2>1. FrameOK("up", [n |-> n, i |-> j])
      <3> HIDE DEF n, i
      <3> QED BY <1>2, <1>3 DEF FrameOK, leafOnly
    <2> QED BY <1>1, <1>2, <2>1, SetPosGood
  <1>4. CASE i = leafOnly /\ Done(c, pop(s), <<heap[n].val>>)
    BY <1>1, <1>2, <1>4, DoneGood
  <1>5. CASE i = -1 /\ (\/ Done(c, SetPos(s, 0), <<heap[n].val>>)
                        \/ GoOn(c, SetPos(s, 0)))
    <2>1. FramesOK("up", SetPos(s, 0))
      BY <1>2, <1>3, <1>5 DEF leafOnly
    <2> QED BY <1>1, <1>2, <1>5, <2>1, DoneGood, GoOnGood
  <1>6. CASE GoOn(c, pop(s))
    BY <1>1, <1>2, <1>6, GoOnGood
  <1>7. CASE /\ i >= 0 /\ i < KidCount(n)
             /\ IF Childless(b) THEN Done(c, t, <<heap[b].val>>)
                                ELSE GoOn(c, push(t, b, -1))
    <2>1. FramesOK("up", t)
      <3>1. i # leafOnly /\ i + 1 \in Int /\ i + 1 >= 0 /\ i + 1 <= KidCount(n)
        BY <1>2, <1>7 DEF leafOnly
      <3> QED BY <1>3, <3>1
    <2> HIDE DEF b, t
    <2>2. ~Childless(b) => FramesOK("up", push(t, b, -1))
      <3>1. ~Childless(b) => FrameOK("up", [n |-> b, i |-> -1])
        BY <1>2, <1>7 DEF FrameOK, leafOnly
      <3> QED BY <1>2, <1>7, <2>1, <3>1, PushGood
    <2> QED BY <1>1, <1>2, <1>7, <2>1, <2>2, DoneGood, GoOnGood
  <1> QED BY <1>4, <1>5, <1>6, <1>7 DEF NextTurn

\* Previous counts them down, to the node's own value.
LEMMA PreviousTurnGood ==
    ASSUME IterInv, NEW c \in Cursors, PreviousTurn(c)
    PROVE  Moved(c)
  <1> DEFINE s == it[c].s
             n == top(s).n
             i == top(s).i
             b == kid(n, i)
             t == SetPos(s, i - 1)
  <1>1. it[c].dir = "down" /\ s.depth > 0
    BY DEF PreviousTurn, Calling
  <1>2. /\ n \in Nodes /\ Frozen(n) /\ n \in Nat /\ i \in Int
        /\ KidCount(n) \in Nat /\ FramesOK("down", s)
        /\ FrameOK("down", [n |-> n, i |-> i]) /\ FramesOK("down", pop(s))
        /\ <<heap[n].val>> \in Seq(Nat) /\ <<>> \in Seq(Nat)
        /\ i >= 0 /\ i < KidCount(n) =>
              /\ b \in Nodes /\ Frozen(b) /\ b \in Nat /\ KidCount(b) \in Nat
              /\ <<heap[b].val>> \in Seq(Nat)
    BY <1>1, TopFacts
  <1>3. CASE Done(c, pop(s), <<heap[n].val>>) \/ GoOn(c, pop(s))
    BY <1>1, <1>2, <1>3, DoneGood, GoOnGood
  <1>4. CASE /\ i >= 0
             /\ IF Childless(b) THEN Done(c, t, <<heap[b].val>>)
                                ELSE GoOn(c, push(t, b, KidCount(b) - 1))
    <2>1. i < KidCount(n)
      BY <1>2 DEF FrameOK
    <2>2. FramesOK("down", t)
      <3>1. i - 1 \in Int /\ FrameOK("down", [n |-> n, i |-> i - 1])
        <4> HIDE DEF n, i
        <4> QED BY <1>2, <1>4, <2>1 DEF FrameOK
      <3> QED BY <1>1, <1>2, <3>1, SetPosGood
    <2> HIDE DEF b, t
    <2>3. FramesOK("down", push(t, b, KidCount(b) - 1))
      <3>1. KidCount(b) - 1 \in Int
            /\ FrameOK("down", [n |-> b, i |-> KidCount(b) - 1])
        BY <1>2, <1>4, <2>1 DEF FrameOK
      <3> QED BY <1>2, <1>4, <2>1, <2>2, <3>1, PushGood
    <2> QED BY <1>1, <1>2, <1>4, <2>1, <2>2, <2>3, DoneGood, GoOnGood
  <1> QED BY <1>3, <1>4 DEF PreviousTurn

-----------------------------------------------------------------------------
(* The theorems *)

\* Every turn of every loop leaves the iterator in order.
LEMMA TurnGood ==
    ASSUME IterInv, NEW c \in Cursors, Turn(c)
    PROVE  Moved(c)
  <1>1. CASE Exhausted(c)
    <2>1. FramesOK(it[c].dir, it[c].s) /\ <<>> \in Seq(Nat)
      BY EmptySeq DEF IterInv, CursorOK
    <2> QED BY <1>1, <2>1, DoneGood DEF Exhausted
  <1> QED BY <1>1, SeekPrefixGood, SeekLowerGood, SeekReverseLowerGood,
             NextTurnGood, PreviousTurnGood DEF Turn

\* What an iterator has in hand stays in order whatever the writers do: nodes
\* never go, and frozen ones stay as they are.
LEMMA CursorKept ==
    ASSUME FrozenStays, NEW x, CursorOK(x)
    PROVE  CursorOK(x)'
  <1>1. ASSUME NEW n \in Nodes, Frozen(n)
        PROVE  /\ n \in Nodes' /\ Frozen(n)' /\ KidCount(n)' = KidCount(n)
               /\ Childless(n)' = Childless(n)
    <2>1. n \in Nodes' /\ heap'[n].kids = heap[n].kids
      BY <1>1 DEF FrozenStays, SameBody, Nodes
    <2>2. Frozen(n)'
      BY <1>1 DEF FrozenStays, Nodes, Frozen, Mine
    <2>3. Labels(n)' = Labels(n)
      BY <2>1 DEF Labels, Kid
    <2> QED BY <2>1, <2>2, <2>3 DEF KidCount, Childless
  <1>2. ASSUME NEW f, FrameOK(x.dir, f)
        PROVE  FrameOK(x.dir, f)'
    BY <1>1, <1>2 DEF FrameOK
  <1>3. FramesOK(x.dir, x.s)'
    BY <1>2 DEF CursorOK, FramesOK, Reaches, FrameAt
  <1> QED BY <1>1, <1>3 DEF CursorOK

\* Every step of an iterator or of anybody else keeps the invariant.
LEMMA IterStep ==
    ASSUME IterInv, [IterNext]_allvars
    PROVE  IterInv'
  <1>1. [Next]_vars
    BY DEF IterNext, allvars, vars
  <1>2. IInv' /\ FrozenStays
    BY <1>1, NextStep DEF IterInv
  <1>3. CASE it' = it
    BY <1>2, <1>3, CursorKept DEF IterInv
  <1>4. ASSUME NEW c \in Cursors, Moved(c)
        PROVE  IterInv'
    <2>1. PICK x : CursorOK(x) /\ it' = [it EXCEPT ![c] = x]
      BY <1>4 DEF Moved
    <2>2. x \in ItType /\ CursorOK(x)'
      BY <1>2, <2>1, CursorKept DEF CursorOK
    <2>3. it' \in [Cursors -> ItType]
      BY <2>1, <2>2 DEF IterInv
    <2>4. ASSUME NEW d \in Cursors PROVE CursorOK(it[d])'
      <3>1. CASE d = c
        BY <2>1, <2>2, <3>1 DEF IterInv
      <3>2. CASE d # c
        <4>1. it'[d] = it[d] BY <2>1, <3>2 DEF IterInv
        <4>2. CursorOK(it[d]) BY DEF IterInv
        <4> QED BY <1>2, <4>1, <4>2, CursorKept
      <3> QED BY <3>1, <3>2
    <2> QED BY <1>2, <2>3, <2>4 DEF IterInv
  <1>5. ASSUME NEW c \in Cursors,
               \/ Turn(c)
               \/ \E dir \in {"up", "down"}, kind \in {"prefix", "bound"},
                     t \in trees, k \in Key : Seek(c, dir, kind, t, k)
        PROVE  IterInv'
    BY <1>4, <1>5, TurnGood, SeekGood
  <1> QED BY <1>3, <1>5 DEF IterNext, itvars, allvars

\* A new iterator has an empty stack.
LEMMA InitIterInv ==
    ASSUME IterInit
    PROVE  IterInv
  <1>1. IInv
    BY InitIInv DEF IterInit
  <1>2. InlineFrames \in Nat \ {0} /\ NoFrame \in FrameType
    BY InlineFramesAssumption DEF FrameType, NoFrame, Nil
  <1>3. NoStack \in StackType /\ Len(NoStack.spill) = 0 /\ NoStack.depth = 0
    BY <1>2, EmptySeq DEF StackType, NoStack
  <1>4. FramesOK("up", NoStack)
    BY <1>2, <1>3 DEF FramesOK, Reaches
  <1>5. IdleIt \in ItType
    BY <1>3, EmptySeq DEF IdleIt, ItType, Nil
  <1>6. CursorOK(IdleIt)
    BY <1>4, <1>5 DEF CursorOK, IdleIt
  <1> QED BY <1>1, <1>5, <1>6 DEF IterInv, IterInit

\* The ownership discipline of the write path, and of every iterator that its
\* stack is well formed and all its frames are frozen.
THEOREM IterInvariance == IterSpec => []IterInv
  <1>1. IterInit => IterInv
    BY InitIterInv
  <1>2. IterInv /\ [IterNext]_allvars => IterInv'
    BY IterStep
  <1> QED BY <1>1, <1>2, PTL DEF IterSpec

\* An iterator stands on nodes that nobody may mutate, now or later, whatever
\* writers do meanwhile and wherever Freeze stopped them.
THEOREM IteratorsUndisturbed == IterSpec => []FramesFrozen
  <1>1. IterInv => FramesFrozen
    BY DEF IterInv, CursorOK, FramesOK, FrameOK, FramesFrozen
  <1> QED BY <1>1, IterInvariance, PTL

\* The stack's inline and spilled parts hold the frames its depth promises,
\* and every position is one that Next and Previous can read.
THEOREM StackWellFormed == IterSpec => []StackOK
  <1>1. ASSUME IterInv, NEW c \in Cursors,
               NEW f \in Frames(it[c].s)
        PROVE  FrameOK(it[c].dir, f) /\ f.n # Nil
    <2>1. FrameOK(it[c].dir, f)
      BY <1>1 DEF IterInv, CursorOK, FramesOK, Frames
    <2> QED BY <1>1, <2>1, FrozenNode DEF FrameOK, IterInv
  <1>2. IterInv => StackOK
    BY <1>1 DEF IterInv, CursorOK, FramesOK, FrameOK, StackOK, Reaches
  <1> QED BY <1>2, IterInvariance, PTL
=============================================================================
