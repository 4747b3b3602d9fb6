-------------------------------- MODULE Iter --------------------------------
(***************************************************************************)
(* The iterators (internal/radix/iter.go) on published trees, next to the  *)
(* writers of RadixTxn: an explicit stack of frames, the first few inline, *)
(* the rest spilled to the heap, and the loops of the seeks, of Next and   *)
(* of Previous, a turn of a loop a step.                                   *)
(*                                                                         *)
(* An iterator belongs to one goroutine and the nodes it walks are         *)
(* published, so a turn touches nothing that others may write -- which is  *)
(* what the ownership discipline of RadixTxn has to give.                  *)
(***************************************************************************)
EXTENDS RadixInv, Integers

CONSTANTS
    Cursors,       \* the iterators
    InlineFrames,  \* the frames a stack holds without allocating (8)
    MaxSeeks       \* bound: how often an iterator is positioned

ASSUME InlineFramesAssumption == InlineFrames \in Nat \ {0}

VARIABLES
    it,     \* per iterator: its stack and the locals of the call it is in
    seeks   \* counter for the bound

itvars  == <<it, seeks>>
allvars == <<heap, leaves, epochCounter, txn, op, notifier, current, trees,
             lineage, pend, rd, ops, txns, watches, it, seeks>>

-----------------------------------------------------------------------------
(* The stack *)

NoFrame == [n |-> Nil, i |-> 0]
NoStack == [depth |-> 0, inline |-> [d \in 1..InlineFrames |-> NoFrame],
            spill |-> <<>>]

push(s, n, i) ==
    IF s.depth < InlineFrames
    THEN [s EXCEPT !.depth = @ + 1, !.inline[s.depth + 1] = [n |-> n, i |-> i]]
    ELSE [s EXCEPT !.depth = @ + 1,
                   !.spill = Append(SubSeq(@, 1, s.depth - InlineFrames),
                                    [n |-> n, i |-> i])]

\* Frame d of a stack, counted from the bottom.
FrameAt(s, d) == IF d <= InlineFrames THEN s.inline[d]
                                      ELSE s.spill[d - InlineFrames]
top(s) == FrameAt(s, s.depth)
\* Mutant: top's pointer is to a copy of the spilled frame.
SetPosCopy(s, i) == IF s.depth <= InlineFrames
                    THEN [s EXCEPT !.inline[s.depth].i = i] ELSE s
\* The store through the pointer that top returns.
SetPos(s, i) == IF s.depth <= InlineFrames
                THEN [s EXCEPT !.inline[s.depth].i = i]
                ELSE [s EXCEPT !.spill[s.depth - InlineFrames].i = i]
pop(s) == [s EXCEPT !.depth = @ - 1]
\* Mutant: the spilled frames go, the depth is kept.
resetSpill(s) == [s EXCEPT !.spill = <<>>]
reset(s) == [s EXCEPT !.depth = 0, !.spill = <<>>]

-----------------------------------------------------------------------------
(* Positions: a child's index is the number of labels below its own *)

rank(n, b) == Cardinality({l \in Labels(n) : l < b})
kid(n, i) == Kid(n, CHOOSE b \in Labels(n) : rank(n, b) = i)

leafOnly == -2

\* A childless node without a value, an empty root, has nothing to emit.
pushSubtree(s, n) ==
    IF ~Childless(n) THEN push(s, n, -1)
    ELSE IF heap[n].val # NoVal THEN push(s, n, leafOnly)
    ELSE s

\* What a seek pushes for a subtree that qualifies as a whole.
pushWhole(dir, s, n) == IF dir = "up" THEN pushSubtree(s, n)
                                      ELSE push(s, n, KidCount(n) - 1)

-----------------------------------------------------------------------------
(* The seeks *)

IdleIt == [dir |-> "up", kind |-> "prefix", tree |-> Nil, key |-> <<>>,
           pc |-> "ready", n |-> Nil, search |-> <<>>, s |-> NoStack,
           ret |-> <<>>]

IterInit == Init /\ it = [c \in Cursors |-> IdleIt] /\ seeks = 0

Set(c, rec) == it' = [it EXCEPT ![c] = rec]
\* The call returns, v is what Next or Previous hand out.
Done(c, s, v) == Set(c, [it[c] EXCEPT !.pc = "ready", !.n = Nil,
                                      !.search = <<>>, !.s = s, !.ret = v])
Down(c, s, n, search) == Set(c, [it[c] EXCEPT !.n = n, !.search = search,
                                              !.s = s])

Seek(c, dir, kind, t, k) ==
    /\ it[c].pc = "ready" /\ t \in trees
    /\ seeks < MaxSeeks /\ seeks' = seeks + 1
    /\ Set(c, [dir |-> dir, kind |-> kind, tree |-> t, key |-> k,
               pc |-> "seek", n |-> t, search |-> k, s |-> reset(it[c].s),
               ret |-> <<>>])

\* seekPrefix, then the frame for the node it found.
SeekPrefix(c) ==
    LET n == it[c].n
        search == it[c].search
        s == it[c].s
        b == Kid(n, Head(search))
    IN  /\ it[c].pc = "seek" /\ it[c].kind = "prefix"
        /\ \/ /\ search = <<>>
              /\ Done(c, pushWhole(it[c].dir, s, n), <<>>)
           \/ /\ search # <<>> /\ b = Nil
              /\ Done(c, s, <<>>)
           \/ /\ search # <<>> /\ b # Nil /\ HasPrefix(b, search)
              /\ Down(c, s, b, Drop(search, Len(heap[b].prefix)))
           \/ /\ search # <<>> /\ b # Nil /\ ~HasPrefix(b, search)
              /\ Done(c, IF EndsInside(b, search)
                         THEN pushWhole(it[c].dir, s, b) ELSE s, <<>>)
        /\ UNCHANGED seeks

\* A turn of the loop of SeekLowerBound ...
SeekLower(c) ==
    LET n == it[c].n
        search == it[c].search
        s == it[c].s
        p == heap[n].prefix
    IN  /\ it[c].pc = "seek" /\ it[c].kind = "bound" /\ it[c].dir = "up"
        /\ \E common \in 0..Len(p) :
             /\ CommonPrefixLen(search, p, common)
             /\ \/ /\ common < Len(p)
                   /\ Done(c, IF \/ common = Len(search)
                                 \/ p[common + 1] > search[common + 1]
                              THEN pushSubtree(s, n) ELSE s, <<>>)
                \/ /\ common = Len(p) /\ common = Len(search)
                   /\ Done(c, pushSubtree(s, n), <<>>)
                \/ /\ common = Len(p) /\ common < Len(search)
                   /\ LET b == search[common + 1]
                          idx == rank(n, b)
                      IN  \/ /\ Kid(n, b) = Nil
                             /\ Done(c, IF idx < KidCount(n)
                                        THEN push(s, n, idx) ELSE s, <<>>)
                          \/ /\ Kid(n, b) # Nil
                             /\ Down(c, push(s, n, idx + 1), Kid(n, b),
                                     Drop(search, common))
        /\ UNCHANGED seeks

\* ... and of SeekReverseLowerBound.
SeekReverseLower(c) ==
    LET n == it[c].n
        search == it[c].search
        s == it[c].s
        p == heap[n].prefix
    IN  /\ it[c].pc = "seek" /\ it[c].kind = "bound" /\ it[c].dir = "down"
        /\ \E common \in 0..Len(p) :
             /\ CommonPrefixLen(search, p, common)
             /\ \/ /\ common < Len(p)
                   /\ Done(c, IF /\ common < Len(search)
                                 /\ p[common + 1] < search[common + 1]
                              THEN push(s, n, KidCount(n) - 1) ELSE s, <<>>)
                \/ /\ common = Len(p) /\ common = Len(search)
                   /\ Done(c, push(s, n, -1), <<>>)
                \/ /\ common = Len(p) /\ common < Len(search)
                   /\ LET b == search[common + 1]
                          t == push(s, n, rank(n, b) - 1)
                      IN  \/ Kid(n, b) = Nil /\ Done(c, t, <<>>)
                          \/ /\ Kid(n, b) # Nil
                             /\ Down(c, t, Kid(n, b), Drop(search, common))
        /\ UNCHANGED seeks

-----------------------------------------------------------------------------
(* Next and Previous *)

Calling(c, dir) == /\ it[c].pc \in {"ready", "next"} /\ it[c].dir = dir
                   /\ it[c].tree # Nil
GoOn(c, s) == Set(c, [it[c] EXCEPT !.pc = "next", !.s = s])

\* The stack is empty: nothing is left, now and on every later call.
Exhausted(c) ==
    /\ it[c].pc \in {"ready", "next"} /\ it[c].tree # Nil /\ it[c].s.depth = 0
    /\ Done(c, it[c].s, <<>>)
    /\ UNCHANGED seeks

\* A turn of the loop of Next ...
NextTurn(c) ==
    LET s == it[c].s
        n == top(s).n
        i == top(s).i
    IN  /\ Calling(c, "up") /\ s.depth > 0
        /\ \/ i = leafOnly /\ Done(c, pop(s), <<heap[n].val>>)
           \/ /\ i = -1 /\ heap[n].val # NoVal
              /\ Done(c, SetPos(s, 0), <<heap[n].val>>)
           \/ /\ i = -1 /\ heap[n].val = NoVal
              /\ GoOn(c, SetPos(s, 0))
           \/ i >= KidCount(n) /\ GoOn(c, pop(s))
           \/ /\ i >= 0 /\ i < KidCount(n)
              /\ LET t == SetPos(s, i + 1)
                     b == kid(n, i)
                 IN  IF Childless(b) THEN Done(c, t, <<heap[b].val>>)
                                     ELSE GoOn(c, push(t, b, -1))
        /\ UNCHANGED seeks

\* ... and of Previous: a node's own value comes after its children.
PreviousTurn(c) ==
    LET s == it[c].s
        n == top(s).n
        i == top(s).i
    IN  /\ Calling(c, "down") /\ s.depth > 0
        /\ \/ i < 0 /\ heap[n].val # NoVal /\ Done(c, pop(s), <<heap[n].val>>)
           \/ i < 0 /\ heap[n].val = NoVal /\ GoOn(c, pop(s))
           \/ /\ i >= 0
              /\ LET t == SetPos(s, i - 1)
                     b == kid(n, i)
                 IN  IF Childless(b) THEN Done(c, t, <<heap[b].val>>)
                                     ELSE GoOn(c, push(t, b, KidCount(b) - 1))
        /\ UNCHANGED seeks

-----------------------------------------------------------------------------
(* Iterators and writers together *)

Turn(c) == SeekPrefix(c) \/ SeekLower(c) \/ SeekReverseLower(c)
           \/ Exhausted(c) \/ NextTurn(c) \/ PreviousTurn(c)

IterNext ==
    \/ Next /\ UNCHANGED itvars
    \/ /\ \E c \in Cursors :
             \/ Turn(c)
             \/ \E dir \in {"up", "down"}, kind \in {"prefix", "bound"},
                   t \in trees, k \in Key : Seek(c, dir, kind, t, k)
       /\ UNCHANGED vars

\* A seek, a Next or a Previous that has begun goes on to its end.
Busy(c) == it[c].pc \in {"seek", "next"}
IterFairness ==
    \A c \in Cursors :
       WF_allvars(Busy(c) /\ Turn(c) /\ UNCHANGED vars)

IterSpec == IterInit /\ [][IterNext]_allvars /\ IterFairness

-----------------------------------------------------------------------------
(* Properties of the stack *)

Frames(s) == {FrameAt(s, d) : d \in 1..s.depth}

\* The spilled frames reach as far as the depth says, so that top and the next
\* push find what they slice; no frame is nil, no position is outside what its
\* direction allows, and a forward frame that counts children, which Next reads
\* without looking for a compact leaf, has children.
StackOK ==
    \A c \in Cursors : LET s == it[c].s IN
       /\ Len(s.spill) >= s.depth - InlineFrames
       /\ \A f \in Frames(s) :
             /\ f.n # Nil
             /\ f.i <= KidCount(f.n)
             /\ IF it[c].dir = "up"
                THEN f.i >= leafOnly /\ (f.i # leafOnly <=> ~Childless(f.n))
                ELSE f.i >= -1 /\ f.i < KidCount(f.n)

\* An iterator stands on frozen nodes only, however long it is kept and
\* whatever is written meanwhile: also on a tree frozen by Freeze in the
\* middle of a transaction that goes on.
FramesFrozen ==
    \A c \in Cursors :
       /\ it[c].n # Nil => Frozen(it[c].n)
       /\ \A d \in 1..it[c].s.depth : Frozen(FrameAt(it[c].s, d).n)

\* Every call of a seek, of Next and of Previous returns.
IterReturns == \A c \in Cursors : Busy(c) ~> ~Busy(c)
=============================================================================
