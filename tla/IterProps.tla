------------------------------ MODULE IterProps ------------------------------
(***************************************************************************)
(* That the iterators of Iter do what Cursor promises.  Walks trees        *)
(* recursively: for TLC only.                                              *)
(***************************************************************************)
EXTENDS Iter, RadixProps

\* The values that a frame still stands for, which tell keys apart.
Values(n) == {heap[m].val : m \in Reach(n)}
FrameValues(dir, f) ==
    CASE f.i = leafOnly -> {heap[f.n].val}
      [] f.i = -1 /\ dir = "up" -> Values(f.n)
      [] f.i >= 0 /\ dir = "up" ->
            UNION {Values(Kid(f.n, b)) :
                   b \in {l \in Labels(f.n) : rank(f.n, l) >= f.i}}
      [] f.i >= -1 /\ dir = "down" ->
            {heap[f.n].val} \cup
            UNION {Values(Kid(f.n, b)) :
                   b \in {l \in Labels(f.n) : rank(f.n, l) <= f.i}}

StackKeys(c) ==
    LET values == UNION {FrameValues(it[c].dir, f) : f \in Frames(it[c].s)}
    IN  {k \in Key : /\ it[c].tree # Nil
                     /\ Get(it[c].tree, k) \in values \ {NoVal}}

\* The trees, and what is still to come while a seek is under way.
Maps == [t \in trees |-> Contents(t)]
C0 == INSTANCE Cursor WITH
    Iter <- Cursors, tree <- Maps, on <- [c \in Cursors |-> it[c].tree],
    dir <- [c \in Cursors |-> it[c].dir],
    left <- [c \in Cursors |-> {}],
    ret <- [c \in Cursors |-> it[c].ret]

Left(c) == IF it[c].pc = "seek"
           THEN C0!InRange(it[c].tree, it[c].dir, it[c].kind, it[c].key)
           ELSE StackKeys(c)

Abstract == INSTANCE Cursor WITH
    Iter <- Cursors, tree <- Maps, on <- [c \in Cursors |-> it[c].tree],
    dir <- [c \in Cursors |-> it[c].dir],
    left <- [c \in Cursors |-> Left(c)],
    ret <- [c \in Cursors |-> it[c].ret]

=============================================================================
