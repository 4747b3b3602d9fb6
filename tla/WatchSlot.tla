------------------------------ MODULE WatchSlot ------------------------------
(***************************************************************************)
(* The lock-free protocol on watch slots and leaves (internal/watch and    *)
(* leafOf, valueChan, sealValue of internal/radix/node.go), one atomic     *)
(* access a step.                                                          *)
(*                                                                         *)
(* There is one value, first stored in node Root, and any number of calls  *)
(* that meet on it: watchers ask for the channel of a node or of the value *)
(* in it, copiers share the value's leaf with a copy of its node, sealers  *)
(* notify that a node or the value has left the tree.  A call is made      *)
(* once; every allocation is named after the call that makes it.           *)
(***************************************************************************)
EXTENDS Naturals

CONSTANTS
    Root,     \* the node the value was stored in
    Copier,   \* calls of leafOf by shareLeaf; each makes a copy of a node
    Watcher,  \* calls of Watch.Chan
    Sealer    \* calls of Slot.Seal and sealValue by Notify.  Two Notifiers
              \* may seal the same object: both their trees may replace it

ASSUME CallAssumption ==
    /\ Copier \cap Watcher = {} /\ Copier \cap Sealer = {}
    /\ Watcher \cap Sealer = {} /\ Root \notin Copier

Call == Copier \cup Watcher \cup Sealer
Node == {Root} \cup Copier      \* a copy is named after the call

Nil == <<"nil">>
NewLeaf(c) == <<"leaf", c>>
SealedLeaf == <<"sealed leaf">>
Leaf == {NewLeaf(c) : c \in Call} \cup {SealedLeaf}

\* What has a watch slot: every node and every leaf.
Own(n) == <<"node", n>>
Object == Leaf \cup {Own(n) : n \in Node}

\* A Cell holds a channel: the one allocated by Chan, the one a watchedLeaf
\* brings along, and the closed one.
NewCell(c) == <<"cell", c>>
LiveCell(c) == <<"live", c>>
SealedCell == <<"sealed cell">>
Open == {NewCell(w) : w \in Watcher} \cup {LiveCell(w) : w \in Watcher}
Cell == Open \cup {SealedCell}

VARIABLES
    made,    \* the nodes that hold the value and are published
    leaf,    \* node.leaf
    slot,    \* the Slot of each object
    closed,  \* how often the channel of each cell was closed
    pc,      \* per call: where it is
    kind,    \* per call: whether it is about a node's slot or about the value
    node,    \* per call: the node it was made on
    obj,     \* per call: the object whose slot it works on
    cell     \* per call: the cell it returns, or has swapped out

vars == <<made, leaf, slot, closed, pc, kind, node, obj, cell>>

Init ==
    /\ made = {Root}
    /\ leaf = [n \in Node |-> Nil]
    /\ slot = [o \in Object |-> IF o = SealedLeaf THEN SealedCell ELSE Nil]
    /\ closed = [c \in Cell |-> IF c = SealedCell THEN 1 ELSE 0]
    /\ pc = [c \in Call |-> "idle"]
    /\ kind = [c \in Call |-> "none"]
    /\ node = [c \in Call |-> Root]
    /\ obj = [c \in Call |-> Nil]
    /\ cell = [c \in Call |-> Nil]

-----------------------------------------------------------------------------
Goto(c, where) == pc' = [pc EXCEPT ![c] = where]
Take(c, o) == obj' = [obj EXCEPT ![c] = o]
Hold(c, x) == cell' = [cell EXCEPT ![c] = x]

\* A call on the value of n.
StartValue(c, n) ==
    /\ pc[c] = "idle" /\ n \in made
    /\ kind' = [kind EXCEPT ![c] = "value"]
    /\ node' = [node EXCEPT ![c] = n]
    /\ Goto(c, "leaf load")
    /\ UNCHANGED <<made, leaf, slot, closed, obj, cell>>

\* A watcher or a sealer on the slot of node n itself.
StartNode(c, n) ==
    /\ c \notin Copier /\ pc[c] = "idle" /\ n \in made
    /\ kind' = [kind EXCEPT ![c] = "node"]
    /\ node' = [node EXCEPT ![c] = n]
    /\ Take(c, Own(n))
    /\ Goto(c, IF c \in Watcher THEN "load" ELSE "swap")
    /\ UNCHANGED <<made, leaf, slot, closed, cell>>

\* Notify on a leaf that dropLeaf recorded, taken from some copy of the value,
\* published or not.
StartLeaf(s, n) ==
    /\ s \in Sealer /\ pc[s] = "idle" /\ leaf[n] # Nil
    /\ kind' = [kind EXCEPT ![s] = "value"]
    /\ node' = [node EXCEPT ![s] = n]
    /\ Take(s, leaf[n])
    /\ Goto(s, "swap")
    /\ UNCHANGED <<made, leaf, slot, closed, cell>>

\* Where a call goes once it has the leaf of the value.
AfterLeaf(c) == IF c \in Watcher THEN "load"
                ELSE IF c \in Sealer THEN "swap" ELSE "copy"

\* n.leaf.Load(), in leafOf, valueChan and sealValue.  valueChan prepares a
\* watchedLeaf with its channel in place (Live).
LeafLoad(c) ==
    /\ pc[c] = "leaf load"
    /\ \/ /\ leaf[node[c]] # Nil
          /\ Take(c, leaf[node[c]]) /\ Goto(c, AfterLeaf(c))
          /\ UNCHANGED slot
       \/ /\ leaf[node[c]] = Nil
          /\ Goto(c, "leaf cas")
          /\ slot' = IF c \in Watcher
                     THEN [slot EXCEPT ![NewLeaf(c)] = LiveCell(c)] ELSE slot
          /\ UNCHANGED obj
    /\ UNCHANGED <<made, leaf, closed, kind, node, cell>>

\* Mutants: the leaf is stored whatever is there; leafOf installs sealedLeaf.
LeafStore(c) ==
    /\ pc[c] = "leaf cas"
    /\ leaf' = [leaf EXCEPT ![node[c]] = NewLeaf(c)]
    /\ Take(c, NewLeaf(c))
    /\ Goto(c, IF c \in Copier THEN "copy" ELSE "done")
    /\ Hold(c, LiveCell(c))
    /\ UNCHANGED <<made, slot, closed, kind, node>>
LeafSealed(c) ==
    /\ pc[c] = "leaf cas" /\ c \in Copier /\ leaf[node[c]] = Nil
    /\ leaf' = [leaf EXCEPT ![node[c]] = SealedLeaf]
    /\ Take(c, SealedLeaf) /\ Goto(c, "copy")
    /\ UNCHANGED <<made, slot, closed, kind, node, cell>>

\* n.leaf.CompareAndSwap(nil, l): a new leaf, or sealedLeaf.
LeafCas(c) ==
    /\ pc[c] = "leaf cas"
    /\ \/ /\ leaf[node[c]] = Nil
          /\ LET l == IF c \in Sealer THEN SealedLeaf ELSE NewLeaf(c)
             IN  /\ leaf' = [leaf EXCEPT ![node[c]] = l]
                 /\ Take(c, l)
          /\ Goto(c, IF c \in Copier THEN "copy" ELSE "done")
          /\ IF c \in Watcher THEN Hold(c, LiveCell(c)) ELSE UNCHANGED cell
       \/ /\ leaf[node[c]] # Nil
          /\ Goto(c, "leaf again")
          /\ UNCHANGED <<leaf, obj, cell>>
    /\ UNCHANGED <<made, slot, closed, kind, node>>


\* The CAS was lost: the winner's leaf.
LeafAgain(c) ==
    /\ pc[c] = "leaf again"
    /\ Take(c, leaf[node[c]]) /\ Goto(c, AfterLeaf(c))
    /\ UNCHANGED <<made, leaf, slot, closed, kind, node, cell>>

\* copyNode stores the leaf in the copy, nobody else's yet; then the copy is
\* published.  It may never be: the transaction may be given up.
Copy(c) ==
    /\ pc[c] = "copy"
    /\ leaf' = [leaf EXCEPT ![c] = obj[c]]
    /\ Goto(c, "copied")
    /\ UNCHANGED <<made, slot, closed, kind, node, obj, cell>>
Publish(c) ==
    /\ pc[c] = "copied"
    /\ made' = made \cup {c}
    /\ Goto(c, "done")
    /\ UNCHANGED <<leaf, slot, closed, kind, node, obj, cell>>

\* Slot.Chan.
Load(w) ==
    /\ pc[w] = "load"
    /\ \/ /\ slot[obj[w]] # Nil
          /\ Hold(w, slot[obj[w]]) /\ Goto(w, "done")
       \/ /\ slot[obj[w]] = Nil
          /\ Goto(w, "cas") /\ UNCHANGED cell
    /\ UNCHANGED <<made, leaf, slot, closed, kind, node, obj>>
\* Mutant: the cell is stored whatever is there.
CasStore(w) ==
    /\ pc[w] = "cas"
    /\ slot' = [slot EXCEPT ![obj[w]] = NewCell(w)]
    /\ Hold(w, NewCell(w)) /\ Goto(w, "done")
    /\ UNCHANGED <<made, leaf, closed, kind, node, obj>>
Cas(w) ==
    /\ pc[w] = "cas"
    /\ \/ /\ slot[obj[w]] = Nil
          /\ slot' = [slot EXCEPT ![obj[w]] = NewCell(w)]
          /\ Hold(w, NewCell(w)) /\ Goto(w, "done")
       \/ /\ slot[obj[w]] # Nil
          /\ Goto(w, "again") /\ UNCHANGED <<slot, cell>>
    /\ UNCHANGED <<made, leaf, closed, kind, node, obj>>
\* Mutant: the loser hands out its own channel.
AgainOwn(w) ==
    /\ pc[w] = "again"
    /\ Hold(w, NewCell(w)) /\ Goto(w, "done")
    /\ UNCHANGED <<made, leaf, slot, closed, kind, node, obj>>
Again(w) ==
    /\ pc[w] = "again"
    /\ Hold(w, slot[obj[w]]) /\ Goto(w, "done")
    /\ UNCHANGED <<made, leaf, slot, closed, kind, node, obj>>

\* Slot.Seal.  keep: the cells that are not to be closed.
SwapBut(s, keep) ==
    /\ pc[s] = "swap"
    /\ slot' = [slot EXCEPT ![obj[s]] = SealedCell]
    /\ Hold(s, slot[obj[s]])
    /\ Goto(s, IF slot[obj[s]] \in keep THEN "done" ELSE "close")
    /\ UNCHANGED <<made, leaf, closed, kind, node, obj>>
\* Mutants: no check for sealedCell; nothing is closed.
SwapSealed(s) == SwapBut(s, {Nil})
SwapQuiet(s) == SwapBut(s, Cell \cup {Nil})
Swap(s) == SwapBut(s, {Nil, SealedCell})
Close(s) ==
    /\ pc[s] = "close"
    /\ closed' = [closed EXCEPT ![cell[s]] = @ + 1]
    /\ Goto(s, "done")
    /\ UNCHANGED <<made, leaf, slot, kind, node, obj, cell>>

Run(c) == LeafLoad(c) \/ LeafCas(c) \/ LeafAgain(c) \/ Copy(c)
          \/ Load(c) \/ Cas(c) \/ Again(c) \/ Swap(c) \/ Close(c)

Start(c, n) == StartValue(c, n) \/ StartNode(c, n) \/ StartLeaf(c, n)

\* No call is under way, and no new one is made.
Quiet == (\A c \in Call : pc[c] \in {"idle", "copied", "done"}) /\ UNCHANGED vars

Next == \/ \E c \in Call : Run(c) \/ Publish(c) \/ (\E n \in Node : Start(c, n))
        \/ Quiet

\* None of the calls waits for another.
Spec == Init /\ [][Next]_vars /\ \A c \in Call : WF_vars(Run(c))

-----------------------------------------------------------------------------
(* Properties *)

Where == {"idle", "leaf load", "leaf cas", "leaf again", "copy", "copied",
          "load", "cas", "again", "swap", "close", "done"}

Pointers(c) ==
    /\ pc[c] \in {"load", "cas", "again", "swap", "copy"} => obj[c] # Nil
    /\ pc[c] = "close" => cell[c] # Nil
    /\ c \in Watcher /\ pc[c] = "done" => cell[c] # Nil

\* Every pointer is nil or points at an object of its type, and none that is
\* about to be followed is nil.
TypeOK ==
    /\ made \subseteq Node
    /\ leaf \in [Node -> Leaf \cup {Nil}]
    /\ slot \in [Object -> Cell \cup {Nil}]
    /\ closed \in [Cell -> Nat]
    /\ pc \in [Call -> Where]
    /\ kind \in [Call -> {"none", "node", "value"}]
    /\ node \in [Call -> Node]
    /\ obj \in [Call -> Object \cup {Nil}]
    /\ cell \in [Call -> Cell \cup {Nil}]
    /\ \A c \in Call : Pointers(c)

\* Two calls are about the same thing: the value, or the same node.
Same(c, d) == /\ kind[c] = kind[d] /\ kind[c] # "none"
              /\ kind[c] = "node" => node[c] = node[d]

Returned(c) == pc[c] = "done"
Fired(w) == cell[w] # Nil /\ closed[cell[w]] > 0

\* Seal never closes a channel twice, which would panic, however many Notifiers
\* meet on the slot; in particular never the channel of sealedCell.
NeverClosedTwice == \A x \in Cell : closed[x] <= 1

\* All published nodes that hold the value name one leaf, if they name any:
\* whichever of leafOf, valueChan and sealValue installed it.
OneIdentity ==
    \A n, m \in made : leaf[n] # Nil /\ leaf[m] # Nil => leaf[n] = leaf[m]

\* No lost wake-up: once a call that seals a node or the value has returned,
\* the channel of every watcher of it, through whichever copy and whether it
\* came before, during or after, is closed -- unless another Notifier took the
\* channel first, and is about to close it.
NoLostWakeup ==
    \A s \in Sealer, w \in Watcher :
       Returned(s) /\ Returned(w) /\ Same(s, w) =>
          \/ Fired(w)
          \/ \E t \in Sealer : pc[t] = "close" /\ cell[t] = cell[w]

\* No false alarm: a watcher's channel is closed only after somebody sealed
\* the very thing it watches.
NoFalseAlarm ==
    \A w \in Watcher : Returned(w) /\ Fired(w) =>
       \E s \in Sealer : Same(s, w) /\ pc[s] \in {"close", "done"}

\* "A slot moves in one direction only: nil -> live -> sealed, or straight to
\* sealed", and the first leaf installed in a node wins.
Forward ==
    /\ \A o \in Object : /\ slot[o] # Nil => slot'[o] \in {slot[o], SealedCell}
                         /\ slot[o] = SealedCell => slot'[o] = SealedCell
    /\ \A n \in Node : leaf[n] # Nil => leaf'[n] = leaf[n]
OneWay == [][Forward]_vars

\* Every watcher of something sealed is woken eventually.
Woken ==
    \A s \in Sealer, w \in Watcher :
       (Returned(s) /\ Returned(w) /\ Same(s, w)) ~> Fired(w)


-----------------------------------------------------------------------------
(* Why the safety properties hold: an inductive invariant *)

LeafPc == {"leaf load", "leaf cas", "leaf again"}

\* Which steps each kind of call goes through, and what it has in hand there.
\* A call on the value is on Root or on a copy that has a leaf.
Role(c) ==
    /\ c \in Copier =>
          pc[c] \in LeafPc \cup {"idle", "copy", "copied", "done"}
    /\ c \in Watcher =>
          pc[c] \in LeafPc \cup {"idle", "load", "cas", "again", "done"}
    /\ c \in Sealer =>
          pc[c] \in LeafPc \cup {"idle", "swap", "close", "done"}
    /\ kind[c] = "none" <=> pc[c] = "idle"
    /\ kind[c] = "node" => /\ c \notin Copier /\ obj[c] = Own(node[c])
                           /\ pc[c] \notin LeafPc
    /\ kind[c] = "value" /\ pc[c] \notin LeafPc =>
          obj[c] = leaf[Root] /\ leaf[Root] # Nil
    /\ node[c] # Root \/ pc[c] = "leaf again" => leaf[node[c]] # Nil
    /\ c \in Copier /\ pc[c] = "copied" => leaf[c] # Nil

\* Nobody else sees the leaf a call allocates before its CAS is won.
Private(c) ==
    /\ pc[c] \in LeafPc \cup {"idle"} => leaf[Root] # NewLeaf(c)
    /\ pc[c] \in {"idle", "leaf load"} => slot[NewLeaf(c)] = Nil
    /\ c \in Watcher /\ pc[c] = "leaf cas" => slot[NewLeaf(c)] = LiveCell(c)

Closing(s, x) == pc[s] = "close" /\ cell[s] = x
Unused(x) == /\ closed[x] = 0 /\ \A o \in Object : slot[o] # x
             /\ \A s \in Sealer : ~Closing(s, x)

\* A sealer that has swapped; only it holds the cell it is going to close.
Seals(s) ==
    /\ pc[s] \in {"close", "done"} => slot[obj[s]] = SealedCell
    /\ pc[s] = "close" => /\ cell[s] \in Open /\ closed[cell[s]] = 0
                          /\ \A t \in Sealer : Closing(t, cell[s]) => t = s

\* The channel a watcher got is the one in the slot, or is being closed.
Watches(w) ==
    /\ pc[w] = "again" => slot[obj[w]] # Nil
    /\ pc[w] = "done" =>
          /\ cell[w] \in Cell
          /\ \/ slot[obj[w]] = cell[w]
             \/ /\ slot[obj[w]] = SealedCell
                /\ closed[cell[w]] = 1 \/ \E s \in Sealer : Closing(s, cell[w])
    /\ pc[w] # "done" => Unused(NewCell(w))
    /\ pc[w] \in {"idle", "leaf load"} => Unused(LiveCell(w))

CallInv(c) == /\ Role(c) /\ Private(c)
              /\ c \in Sealer => Seals(c)
              /\ c \in Watcher => Watches(c)

\* A copy of the value names the leaf that Root names.
Leaves ==
    /\ \A n \in Node : leaf[n] # Nil => leaf[n] = leaf[Root]
    /\ \A n \in made : n # Root => leaf[n] # Nil
    /\ leaf[Root] = SealedLeaf =>
          \E s \in Sealer : kind[s] = "value" /\ pc[s] = "done"

\* What is sealed, somebody sealed.  An open cell is in one slot, or in the
\* hands of one sealer, or closed.
Slots ==
    /\ slot[SealedLeaf] = SealedCell /\ closed[SealedCell] = 1
    /\ \A o \in Object : slot[o] = SealedCell /\ o # SealedLeaf =>
          \E s \in Sealer : obj[s] = o /\ pc[s] \in {"close", "done"}
    /\ \A x \in Open : closed[x] <= 1
    /\ \A o \in Object : slot[o] \in Open =>
          /\ closed[slot[o]] = 0
          /\ \A p \in Object : slot[p] = slot[o] => p = o
          /\ \A s \in Sealer : ~Closing(s, slot[o])

Inv == TypeOK /\ (\A c \in Call : CallInv(c)) /\ Leaves /\ Slots
=============================================================================
