------------------------------ MODULE NodeStore ------------------------------
(***************************************************************************)
(* The nodes of a tree as the write path (internal/radix/txn.go) thinks of *)
(* them: a path segment and a map from labels to children, and no two      *)
(* nodes share anything.  A call goes down from the root, making each node *)
(* its own, and does one thing at the end.  Module NodeLayout shows that   *)
(* the bytes in memory behave like these nodes.                            *)
(***************************************************************************)
EXTENDS Naturals, Sequences, FiniteSets

CONSTANTS
    Byte,   \* labels
    Seg,    \* the ends of keys, that new leaves are given
    MaxLen  \* bound: the bytes of a segment

VARIABLES
    nodes,  \* the nodes, in the order they were allocated
    root,   \* the root of the transaction's tree
    owned,  \* the nodes made since the last Freeze
    at      \* where the call is: at node n, which hangs under label b of p

vars == <<nodes, root, owned, at>>

Nil  == 0
Away == [p |-> Nil, b |-> 0, n |-> Nil, own |-> "no"]
Leaf(s)   == [prefix |-> s, kids |-> [b \in Byte |-> Nil]]
New       == Len(nodes) + 1
Kid(n, b) == nodes[n].kids[b]
Labels(n) == {b \in Byte : Kid(n, b) # Nil}
Linked(c) == IF at.p = Nil THEN nodes
                           ELSE [nodes EXCEPT ![at.p].kids[at.b] = c]

Init == nodes = <<Leaf(<<>>)>> /\ root = 1 /\ owned = {} /\ at = Away

Start == /\ at = Away /\ at' = [Away EXCEPT !.n = root]
         /\ UNCHANGED <<nodes, root, owned>>

\* The node itself, or an exact copy that takes its place.
Own(room) ==
    /\ at.n # Nil /\ at.own = "no"
    /\ \/ /\ at.n \in owned
          /\ at' = [at EXCEPT !.own = room]
          /\ UNCHANGED <<nodes, root, owned>>
       \/ /\ nodes' = Append(Linked(New), nodes[at.n])
          /\ root' = IF at.p = Nil THEN New ELSE root
          /\ owned' = owned \cup {New}
          /\ at' = [at EXCEPT !.n = New, !.own = room]

Down(b) ==
    /\ at.own = "as is" /\ b \in Labels(at.n)
    /\ at' = [p |-> at.n, b |-> b, n |-> Kid(at.n, b), own |-> "no"]
    /\ UNCHANGED <<nodes, root, owned>>

Keep == at.own = "as is" /\ at' = Away /\ UNCHANGED <<nodes, root, owned>>

\* A new leaf below the node.
Hang(s) ==
    /\ at.own = "one more" /\ s # <<>> /\ Head(s) \notin Labels(at.n)
    /\ nodes' = Append([nodes EXCEPT ![at.n].kids[Head(s)] = New], Leaf(s))
    /\ owned' = owned \cup {New} /\ at' = Away
    /\ UNCHANGED root

Cut(b) ==
    /\ at.own = "as is" /\ b \in Labels(at.n) /\ at' = Away
    /\ nodes' = [nodes EXCEPT ![at.n].kids[b] = Nil]
    /\ UNCHANGED <<root, owned>>

\* The child under b keeps all but the first i bytes of its segment, in a copy
\* unless it is owned; a node for those holds it, and a leaf for s if need be.
Split(b, i, s) ==
    LET c == Kid(at.n, b)
        p == nodes[c].prefix
        t == IF c \in owned THEN c ELSE New
        base == IF c \in owned THEN nodes ELSE Append(nodes, nodes[c])
        mid == Len(base) + 1
        fork == [Leaf(SubSeq(p, 1, i)) EXCEPT !.kids =
                   [l \in Byte |-> IF l = p[i + 1] THEN t
                                   ELSE IF s # <<>> /\ l = Head(s) THEN mid + 1
                                   ELSE Nil]]
    IN  /\ at.own = "as is" /\ b \in Labels(at.n) /\ at' = Away
        /\ i < Len(p) /\ (s # <<>> => Head(s) # p[i + 1])
        /\ nodes' = [[base EXCEPT ![t].prefix = SubSeq(p, i + 1, Len(p))]
                        EXCEPT ![at.n].kids[b] = mid]
                    \o <<fork>> \o IF s = <<>> THEN <<>> ELSE <<Leaf(s)>>
        /\ owned' = owned \cup (New..Len(nodes'))
        /\ UNCHANGED root

\* The node goes, and the child under b takes its place and its segment; so
\* does the other child, if there is one.
Merge(b) ==
    LET c == Kid(at.n, b)
        joined == nodes[at.n].prefix \o nodes[c].prefix
    IN  /\ at.p # Nil /\ at.own = "no" /\ at' = Away
        /\ b \in Labels(at.n) /\ Cardinality(Labels(at.n)) <= 2
        /\ \/ /\ c \in owned
              /\ nodes' = [Linked(c) EXCEPT ![c].prefix = joined]
              /\ UNCHANGED owned
           \/ /\ nodes' = Append(Linked(New),
                                 [prefix |-> joined, kids |-> nodes[c].kids])
              /\ owned' = owned \cup {New}
        /\ UNCHANGED root

Freeze == at = Away /\ owned' = {} /\ UNCHANGED <<nodes, root, at>>

Next ==
    \/ Start \/ Keep \/ Freeze
    \/ \E room \in {"as is", "one more"} : Own(room)
    \/ \E b \in Byte : Down(b) \/ Cut(b) \/ Merge(b)
    \/ \E s \in Seg : Hang(s)
    \/ \E b \in Byte, i \in 1..MaxLen, s \in Seg \cup {<<>>} : Split(b, i, s)

Spec == Init /\ [][Next]_vars
=============================================================================
