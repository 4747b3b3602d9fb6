----------------------------- MODULE NodeLayout -----------------------------
(***************************************************************************)
(* The nodes as they lie in memory (node_unsafe.go, segment_unsafe.go).    *)
(* Where a node with children keeps its bitmap and child counter, a        *)
(* childless one keeps its path segment, if it fits; which of the two it   *)
(* is shows only in where its prefix points.  Segments are views of bytes  *)
(* in such an area, in an array behind the node, in the heap, in the table *)
(* of one-byte strings -- or in the caller's key, which is overwritten as  *)
(* soon as the call returns.                                               *)
(*                                                                         *)
(* Words are scaled to the width of a byte, and both are sets of one bits: *)
(* the area is four words of bitmap and a counter, five bytes.             *)
(***************************************************************************)
EXTENDS Rank, Sequences

CONSTANTS
    Keys,      \* what the caller's buffer may hold, all of one length
    KeyLens,   \* how many bytes of it a call is given
    TrailMax,  \* the longest segment kept behind a node (64)
    Classes,   \* the sizes of child arrays
    MaxOps     \* bound: calls

segMax == 5
KeyLen == Len(CHOOSE k \in Keys : TRUE)
Cell == 1..segMax

VARIABLES
    mem,    \* the nodes and the strings of the heap
    key,    \* the caller's buffer
    search, \* what a call has still to look at
    root, owned, at,   \* as in NodeStore
    ops     \* counter for the bound

vars == <<mem, key, search, root, owned, at, ops>>

Nil  == 0
Away == [p |-> Nil, b |-> 0, n |-> Nil, own |-> "no"]

-----------------------------------------------------------------------------
(* Bytes, strings and memory *)

Bits == [v \in Label |-> {p \in Bit : (v \div 2^p) % 2 = 1}]
Num  == [x \in Word |-> CHOOSE v \in Label : Bits[v] = x]

ASSUME ByteIsWord == \A v \in Label : v < 2^W

Str(where, i, len) == [where |-> where, i |-> i, off |-> 0, len |-> len]
Empty == Str("none", 0, 0)
\* Go's s[k:] and s[:k] are views of the same bytes.
Skip(s, k)  == [s EXCEPT !.off = @ + k, !.len = @ - k]
Take(s, k) == [s EXCEPT !.len = k]

Region(M, s) ==
    CASE s.where = "area"  -> [j \in Cell |-> Num[M.nodes[s.i].area[j]]]
      [] s.where = "trail" -> M.nodes[s.i].trail
      [] s.where = "heap"  -> M.strs[s.i]
      [] s.where = "one"   -> <<s.i>>
      [] s.where = "key"   -> key
      [] s.where = "none"  -> <<>>
Text(M, s) == SubSeq(Region(M, s), s.off + 1, s.off + s.len)

Bare == [prefix |-> Empty, area |-> [j \in Cell |-> {}], ckids |-> 0,
         arr |-> [i \in {} |-> Nil], trail |-> <<>>]
Put(M, x) == [M EXCEPT !.nodes = Append(@, x)]
NextNode(M)  == Len(M.nodes) + 1     \* where Put puts it
Store(M, text) == [M EXCEPT !.strs = Append(@, text)]

-----------------------------------------------------------------------------
(* The accessors *)

Prefix(M, n)  == M.nodes[n].prefix
compact(M, n) == LET p == Prefix(M, n)
                 IN  p.where = "area" /\ p.i = n /\ p.off = 0 /\ p.len > 0
bitmap(M, n)  == [v \in 0..3 |-> M.nodes[n].area[v + 1]]
nkids(M, n)   == Num[M.nodes[n].area[segMax]]
kidCap(M, n)  == M.nodes[n].ckids
kidCount(M, n)  == IF nkids(M, n) < kidCap(M, n) THEN nkids(M, n)
                                                 ELSE kidCap(M, n)
frameKids(M, n) == nkids(M, n)
childless(M, n) == compact(M, n) \/ bitmap(M, n) = NoLabels
kid(M, n, i)    == M.nodes[n].arr[i]
\* rank's two results.
hasKid(M, n, b) == ~compact(M, n) /\ ok(bitmap(M, n), b)
place(M, n, b)  == IF compact(M, n) THEN 0 ELSE idx(bitmap(M, n), b)
label(M, n)     == Head(Text(M, Prefix(M, n)))

setKid(M, n, i, c) == [M EXCEPT !.nodes[n].arr[i] = c]
setIndex(M, n, bm, count) ==
    [M EXCEPT !.nodes[n].area = [j \in Cell |-> IF j = segMax THEN Bits[count]
                                                ELSE bm[j - 1]]]
addKid(M, n, i, c) ==
    [setIndex(M, n, SetBit(bitmap(M, n), label(M, c)), kidCount(M, n) + 1)
       EXCEPT !.nodes[n].arr = insertAt(@, kidCount(M, n), i, c)]
delKid(M, n, i) ==
    [setIndex(M, n, ClearBit(bitmap(M, n), label(M, kid(M, n, i))),
              nkids(M, n) - 1)
       EXCEPT !.nodes[n].arr = deleteAt(@, nkids(M, n), i, Nil)]

-----------------------------------------------------------------------------
(* Making nodes *)

newNode(M, k) ==
    LET cap == IF k = 0 THEN 0
               ELSE CHOOSE c \in Classes : /\ c >= k
                                           /\ \A d \in Classes : d >= k => c <= d
    IN  Put(M, [Bare EXCEPT !.ckids = cap, !.arr = [i \in 0..(cap - 1) |-> Nil]])

\* Mutant: a long segment is a + b, which is a itself when b is empty.
longLeafConcat(M, a, b) ==
    LET text == Text(M, a) \o Text(M, b)
    IN  IF b.len = 0 THEN Put(M, [Bare EXCEPT !.prefix = a])
        ELSE Put(Store(M, text), [Bare EXCEPT !.prefix =
                                    Str("heap", Len(M.strs) + 1, Len(text))])
\* A segment too long for the node is a heap string of its own.
longLeaf(M, a, b) ==
    LET text == Text(M, a) \o Text(M, b)
    IN  Put(Store(M, text), [Bare EXCEPT !.prefix =
                               Str("heap", Len(M.strs) + 1, Len(text))])
newLeafNode(M, a, b) ==
    LET text == Text(M, a) \o Text(M, b)
        n == Len(text)
    IN  CASE n = 0 -> Put(M, Bare)
          [] 0 < n /\ n <= segMax ->
               Put(M, [Bare EXCEPT
                 !.area = [j \in Cell |-> IF j <= n THEN Bits[text[j]] ELSE {}],
                 !.prefix = Str("area", NextNode(M), n)])
          [] segMax < n /\ n <= TrailMax ->
               Put(M, [Bare EXCEPT !.trail = text,
                                   !.prefix = Str("trail", NextNode(M), n)])
          [] n > TrailMax -> longLeaf(M, a, b)

\* cloneSegment: the memory after it, and the clone.
CloneMem(M, s) == IF s.len <= 1 THEN M ELSE Store(M, Text(M, s))
CloneStr(M, s) == CASE s.len = 0 -> Empty
                    [] s.len = 1 -> Str("one", Text(M, s)[1], 1)
                    [] s.len > 1 -> Str("heap", Len(M.strs) + 1, s.len)

\* Mutant: the bytes stay where they are.
trimPrefixSlice(M, n, k) == [M EXCEPT !.nodes[n].prefix = Skip(@, k)]
trimPrefix(M, n, k) ==
    LET l == Prefix(M, n).len - k
    IN  IF compact(M, n)
        THEN [M EXCEPT !.nodes[n] = [@ EXCEPT
                !.area = [j \in Cell |-> IF j <= l THEN @[j + k] ELSE @[j]],
                !.prefix = Str("area", n, l)]]
        ELSE [M EXCEPT !.nodes[n].prefix = Skip(@, k)]

\* The copy is the last node of the result.
copyShape(M, n, extra) ==
    LET x == M.nodes[n]
        count == kidCount(M, n)
        c == NextNode(M)
    IN  CASE count + extra = 0 -> newLeafNode(M, x.prefix, Empty)
          [] count + extra > 0 /\ x.ckids = 0 ->
               [newNode(CloneMem(M, x.prefix), extra)
                  EXCEPT !.nodes[c].prefix = CloneStr(M, x.prefix)]
          [] count + extra > 0 /\ x.ckids > 0 ->
               [setIndex(newNode(M, count + extra), c, bitmap(M, n), count)
                  EXCEPT !.nodes[c].prefix = x.prefix,
                         !.nodes[c].arr = [i \in DOMAIN @ |->
                            IF i < count THEN x.arr[i] ELSE Nil]]

\* The prefix of the node that a split puts above the child c: cut from the
\* child's, and cloned if the child may hold its segment inline.
splitClone(M, c, k) == IF kidCap(M, c) = 0
                       THEN CloneMem(M, Take(Prefix(M, c), k)) ELSE M
\* Mutant: a view of the child's bytes in any case.
splitPrefixView(M, c, k) == Take(Prefix(M, c), k)
splitPrefix(M, c, k) == IF kidCap(M, c) = 0
                        THEN CloneStr(M, Take(Prefix(M, c), k))
                        ELSE Take(Prefix(M, c), k)

-----------------------------------------------------------------------------
(* Calls: the descent of Insert, Delete and DeletePrefix, and their ends    *)

Init == /\ mem = [nodes |-> <<Bare>>, strs |-> <<>>]
        /\ key = CHOOSE k \in Keys : TRUE
        /\ search = Empty
        /\ root = 1 /\ owned = {} /\ at = Away /\ ops = 0

\* Insert and Delete walk the first bytes of the caller's buffer, which holds
\* another key than it did for the call before.
Start ==
    /\ at = Away /\ at' = [Away EXCEPT !.n = root]
    /\ ops < MaxOps /\ ops' = ops + 1
    /\ key' \in Keys
    /\ \E len \in KeyLens : search' = Str("key", 0, len)
    /\ UNCHANGED <<mem, root, owned>>

Freeze == at = Away /\ owned' = {} /\ UNCHANGED <<mem, key, search, root, at, ops>>

Rest == Text(mem, search)
b == Head(Rest)
i == place(mem, at.n, b)
child == kid(mem, at.n, i)
common == CHOOSE k \in 0..search.len :
            LET p == Text(mem, Prefix(mem, child))
            IN  /\ k <= Len(p) /\ SubSeq(Rest, 1, k) = SubSeq(p, 1, k)
                /\ k < Len(p) /\ k < Len(Rest) => Rest[k + 1] # p[k + 1]
Found == search.len > 0 /\ hasKid(mem, at.n, b)
Whole == Found /\ common = Prefix(mem, child).len

link(M, c) == IF at.p = Nil THEN M
              ELSE setKid(M, at.p, place(mem, at.p, at.b), c)
Grown(M) == owned \cup (NextNode(mem)..Len(M.nodes))
End == at' = Away /\ search' = Empty

\* own: the node, or a copy that takes its place, which has room for one more
\* child if there is to be one.
Own ==
    LET extra == IF search.len > 0 /\ ~Found THEN 1 ELSE 0
        room == IF extra = 1 THEN "one more" ELSE "as is"
        count == kidCount(mem, at.n)
        mine == at.n \in owned
        M == copyShape(mem, at.n, IF mine THEN count + extra ELSE extra)
        c == Len(M.nodes)
    IN  /\ at.n # Nil /\ at.own = "no"
        /\ \/ /\ mine /\ count + extra <= kidCap(mem, at.n)
              /\ at' = [at EXCEPT !.own = room]
              /\ UNCHANGED <<mem, root, owned>>
           \/ /\ ~(mine /\ count + extra <= kidCap(mem, at.n))
              /\ mem' = link(M, c)
              /\ root' = IF at.p = Nil THEN c ELSE root
              /\ owned' = Grown(M)
              /\ at' = [at EXCEPT !.n = c, !.own = room]
        /\ UNCHANGED <<key, search, ops>>

Down ==
    /\ at.own = "as is" /\ Whole
    /\ at' = [p |-> at.n, b |-> b, n |-> child, own |-> "no"]
    /\ search' = Skip(search, common)
    /\ UNCHANGED <<mem, key, root, owned, ops>>

\* The key ends here, and only the value changes.
Keep == /\ at.own = "as is" /\ search.len = 0 /\ End
        /\ UNCHANGED <<mem, key, root, owned, ops>>

Hang ==
    LET M == newLeafNode(mem, search, Empty)
    IN  /\ at.own = "one more" /\ End
        /\ mem' = addKid(M, at.n, i, Len(M.nodes))
        /\ owned' = Grown(M)
        /\ UNCHANGED <<key, root, ops>>

\* delKid.  The key is at the child, or the prefix ends inside its segment.
Cut == /\ at.own = "as is" /\ Found /\ common = search.len /\ End
       /\ mem' = delKid(mem, at.n, i)
       /\ UNCHANGED <<key, root, owned, ops>>

\* The split of Insert.  Its node's children are put in place by label.
Split ==
    LET mine == child \in owned
        M1 == IF mine THEN mem ELSE copyShape(mem, child, 0)
        t == IF mine THEN child ELSE Len(M1.nodes)
        M2 == newNode(splitClone(M1, child, common), 2)
        s == Len(M2.nodes)
        M3 == trimPrefix([M2 EXCEPT !.nodes[s].prefix =
                            splitPrefix(M1, child, common)], t, common)
        M4 == setKid(M3, at.n, i, s)
        rest == Skip(search, common)
        M5 == IF rest.len = 0 THEN M4 ELSE newLeafNode(M4, rest, Empty)
        M6 == addKid(M5, s, 0, t)
    IN  /\ at.own = "as is" /\ Found /\ ~Whole /\ End
        /\ mem' = IF rest.len = 0 THEN M6
                  ELSE addKid(M6, s, IF label(M5, s + 1) < label(M5, t)
                                     THEN 0 ELSE 1, s + 1)
        /\ owned' = Grown(mem')
        /\ UNCHANGED <<key, root, ops>>

\* mergeChild, of the only child that is left or the only other one.
Merge ==
    /\ at.p # Nil /\ at.own = "no" /\ End
    /\ \/ search.len = 0 /\ kidCount(mem, at.n) = 1
       \/ /\ Found /\ common = search.len
          /\ kidCount(mem, at.n) = 2
    /\ \E c \in {kid(mem, at.n, j) : j \in 0..(kidCount(mem, at.n) - 1)} :
        LET inPlace == c \in owned /\ ~childless(mem, c)
            p == Prefix(mem, at.n)
            M1 == IF inPlace THEN mem ELSE copyShape(mem, c, 0)
            m == IF inPlace THEN c ELSE Len(M1.nodes)
            text == Text(mem, p) \o Text(mem, Prefix(mem, c))
            M == IF childless(mem, c) THEN newLeafNode(mem, p, Prefix(mem, c))
                 ELSE [Store(M1, text) EXCEPT !.nodes[m].prefix =
                          Str("heap", Len(M1.strs) + 1, Len(text))]
        IN  /\ search.len > 0 => c # child
            /\ mem' = link(M, m)
            /\ owned' = Grown(M)
    /\ UNCHANGED <<key, root, ops>>

Next == Start \/ Freeze \/ Own \/ Down \/ Keep \/ Hang \/ Cut
        \/ Split \/ Merge

Spec == Init /\ [][Next]_vars

-----------------------------------------------------------------------------

\* The nodes, read the way lookups read them: rank, kid and the prefix.
Nodes == 1..Len(mem.nodes)
NodesRead == <<>> \o [n \in Nodes |->
                [prefix |-> Text(mem, Prefix(mem, n)),
                 kids |-> [l \in Label |->
                             IF hasKid(mem, n, l)
                             THEN kid(mem, n, place(mem, n, l)) ELSE Nil]]]
Abstract == INSTANCE NodeStore WITH
    Byte <- Label, MaxLen <- KeyLen, nodes <- NodesRead,
    Seg <- {SubSeq(k, o, e) : k \in Keys, o \in 1..KeyLen, e \in KeyLens}

\* Whatever shares bytes, is moved or is overwritten, every node that exists --
\* in published trees too -- reads as the segment and the children it was given.
ImplementsNodes == Abstract!Spec

\* No other node's prefix points into a node's own bytes ("an inline segment is
\* never shared with another node"), and none into the caller's key.
InlineNotShared ==
    \A n \in Nodes : LET p == Prefix(mem, n) IN
       /\ p.where \in {"area", "trail"} => p.i = n
       /\ p.where # "key"

\* Each accessor tells a compact leaf by the cache line it reads anyway, and all
\* agree: the counters, rank, the list, and what iterators read without a check.
AccessorsAgree ==
    \A n \in Nodes :
       LET labels == {l \in Label : hasKid(mem, n, l)}
       IN  /\ kidCount(mem, n) = Cardinality(labels)
           /\ childless(mem, n) <=> labels = {}
           /\ labels # {} => frameKids(mem, n) = kidCount(mem, n)
           /\ kidCap(mem, n) > 0 => nkids(mem, n) <= kidCap(mem, n)
           /\ \A j \in 0..(kidCount(mem, n) - 1) :
                 \E l \in labels : place(mem, n, l) = j
=============================================================================
