--------------------------- MODULE WatchSlot_proofs ---------------------------
(***************************************************************************)
(* Proofs about WatchSlot, for any number of copiers, watchers and sealers *)
(***************************************************************************)
EXTENDS WatchSlot, TLAPS

\* Objects and cells of different calls are different, and none is nil.
LEMMA LeafNames ==
    /\ \A c, d \in Call : NewLeaf(c) = NewLeaf(d) => c = d
    /\ \A c \in Call : NewLeaf(c) # SealedLeaf /\ NewLeaf(c) # Nil
    /\ \A n, m \in Node : Own(n) = Own(m) => n = m
    /\ \A n \in Node : Own(n) # SealedLeaf /\ Own(n) # Nil
    /\ \A n \in Node, c \in Call : Own(n) # NewLeaf(c)
    /\ SealedLeaf # Nil
  BY DEF NewLeaf, SealedLeaf, Nil, Own

\* Likewise the cells.
LEMMA CellNames ==
    /\ \A v, w \in Watcher : NewCell(v) = NewCell(w) => v = w
    /\ \A v, w \in Watcher : LiveCell(v) = LiveCell(w) => v = w
    /\ \A v, w \in Watcher : NewCell(v) # LiveCell(w)
    /\ \A w \in Watcher : NewCell(w) # SealedCell /\ NewCell(w) # Nil
    /\ \A w \in Watcher : LiveCell(w) # SealedCell /\ LiveCell(w) # Nil
    /\ SealedCell # Nil
  BY DEF NewCell, LiveCell, SealedCell, Nil

\* Where everything is.
LEMMA Places ==
    /\ \A c \in Call : NewLeaf(c) \in Object /\ NewLeaf(c) \in Leaf
    /\ SealedLeaf \in Object /\ SealedLeaf \in Leaf
    /\ \A n \in Node : Own(n) \in Object
    /\ \A l \in Leaf : l \in Object
    /\ \A w \in Watcher : NewCell(w) \in Open /\ LiveCell(w) \in Open
    /\ \A x \in Open : x \in Cell /\ x # SealedCell /\ x # Nil
    /\ SealedCell \in Cell
    /\ \A x \in Cell : x \in Open \/ x = SealedCell
    /\ Root \in Node /\ Copier \subseteq Node
    /\ Copier \subseteq Call /\ Watcher \subseteq Call /\ Sealer \subseteq Call
  BY CellNames DEF Object, Leaf, Node, Open, Cell, Call

-----------------------------------------------------------------------------
(* What one step of a call may do to the others *)

Frame(c) ==
    \A d \in Call \ {c} :
       /\ pc'[d] = pc[d] /\ kind'[d] = kind[d] /\ node'[d] = node[d]
       /\ obj'[d] = obj[d] /\ cell'[d] = cell[d]

Legal(c) ==
    /\ pc[c] # "done" /\ Frame(c)
    /\ \A n \in Node : leaf[n] # Nil => leaf'[n] = leaf[n]
    /\ \A n \in Node : leaf'[n] # leaf[n] => leaf'[n] = leaf'[Root]
    /\ \A n \in made' : n \in made \/ (n \in Node /\ leaf[n] # Nil)
    /\ leaf'[Root] # leaf[Root] =>
          \/ leaf'[Root] = NewLeaf(c)
          \/ /\ leaf'[Root] = SealedLeaf
             /\ c \in Sealer /\ kind'[c] = "value" /\ pc'[c] = "done"
    /\ \A d \in Call \ {c} : pc[d] \in LeafPc \cup {"idle"} =>
          slot'[NewLeaf(d)] = slot[NewLeaf(d)]
    /\ \A x \in Cell : closed'[x] = closed[x] + (IF Closing(c, x) THEN 1 ELSE 0)
    /\ pc[c] = "close" => /\ pc'[c] = "done" /\ obj'[c] = obj[c]
                          /\ kind'[c] = kind[c] /\ slot' = slot
    /\ pc'[c] = "close" => /\ c \in Sealer /\ cell'[c] \in Open
                           /\ slot[obj[c]] = cell'[c] /\ obj[c] \in Object
                           /\ slot'[obj[c]] = SealedCell

\* The ways in which a step of c may change a slot.
Allocates(c) ==
    \E o \in Object, x \in Open :
       /\ c \in Watcher /\ x \in {NewCell(c), LiveCell(c)} /\ Unused(x)
       /\ slot[o] = Nil /\ slot'[o] = x
       /\ \A p \in Object \ {o} : slot'[p] = slot[p]
SealsSlot(c) ==
    \E o \in Object :
       /\ c \in Sealer /\ obj'[c] = o /\ pc'[c] \in {"close", "done"}
       /\ slot'[o] = SealedCell
       /\ slot[o] \in Open => pc'[c] = "close" /\ cell'[c] = slot[o]
       /\ \A p \in Object \ {o} : slot'[p] = slot[p]
Slides(c) == slot' = slot \/ Allocates(c) \/ SealsSlot(c)

\* What holds of a slot after such a step.
LEMMA SlotMoves ==
    ASSUME Inv, NEW c \in Call, Legal(c), Slides(c)
    PROVE  /\ \A o \in Object : slot[o] = SealedCell => slot'[o] = SealedCell
           /\ \A o \in Object : slot[o] # Nil =>
                 \/ slot'[o] = slot[o]
                 \/ /\ slot'[o] = SealedCell
                    /\ slot[o] \in Open =>
                          pc'[c] = "close" /\ cell'[c] = slot[o]
           /\ \A o \in Object : slot'[o] \in Open =>
                 \/ slot'[o] = slot[o]
                 \/ /\ c \in Watcher /\ slot'[o] \in {NewCell(c), LiveCell(c)}
                    /\ Unused(slot'[o])
                    /\ \A p \in Object : slot'[p] = slot'[o] => p = o
           /\ \A o \in Object : slot'[o] = SealedCell =>
                 \/ slot[o] = SealedCell
                 \/ c \in Sealer /\ obj'[c] = o /\ pc'[c] \in {"close", "done"}
  <1>1. CASE slot' = slot
    BY <1>1
  <1>2. CASE Allocates(c)
    <2>1. PICK o \in Object, x \in Open :
             /\ c \in Watcher /\ x \in {NewCell(c), LiveCell(c)} /\ Unused(x)
             /\ slot[o] = Nil /\ slot'[o] = x
             /\ \A p \in Object \ {o} : slot'[p] = slot[p]
      BY <1>2 DEF Allocates
    <2>2. \A p \in Object : slot'[p] = x => p = o
      BY <2>1 DEF Unused
    <2>3. x # SealedCell /\ SealedCell # Nil
      BY Places, CellNames
    <2> QED BY <2>1, <2>2, <2>3
  <1>3. CASE SealsSlot(c)
    <2>1. PICK o \in Object :
             /\ c \in Sealer /\ obj'[c] = o /\ pc'[c] \in {"close", "done"}
             /\ slot'[o] = SealedCell
             /\ slot[o] \in Open => pc'[c] = "close" /\ cell'[c] = slot[o]
             /\ \A p \in Object \ {o} : slot'[p] = slot[p]
      BY <1>3 DEF SealsSlot
    <2>2. SealedCell \notin Open
      BY Places
    <2> QED BY <2>1, <2>2
  <1> QED BY <1>1, <1>2, <1>3 DEF Slides

\* What the invariant says of a call, in a form that is easy to use.
LEMMA Facts ==
    ASSUME Inv
    PROVE  /\ \A c \in Call : pc[c] = "close" => c \in Sealer
           /\ \A c \in Call : pc[c] # "idle" /\ pc[c] \notin LeafPc =>
                 obj[c] \in Object
           /\ \A s, t \in Sealer : \A x : Closing(s, x) /\ Closing(t, x) => s = t
           /\ \A s \in Sealer : \A x : Closing(s, x) => x \in Open /\ closed[x] = 0
           /\ \A c \in Call : \A x : Closing(c, x) => c \in Sealer
           /\ \A x \in Cell : closed[x] \in Nat
  <1>1. \A c \in Call : pc[c] = "close" => c \in Sealer
    BY DEF Inv, CallInv, Role, LeafPc, Call
  <1>2. ASSUME NEW c \in Call, pc[c] # "idle", pc[c] \notin LeafPc
        PROVE  obj[c] \in Object
    <2>1. kind[c] \in {"none", "node", "value"} /\ node[c] \in Node
          /\ leaf[Root] \in Leaf \cup {Nil}
      BY Places DEF Inv, TypeOK
    <2>2. Role(c)
      BY DEF Inv, CallInv
    <2>3. CASE kind[c] = "node"
      BY <2>1, <2>2, <2>3, Places DEF Role
    <2>4. CASE kind[c] = "value"
      BY <1>2, <2>1, <2>2, <2>4, Places DEF Role
    <2> QED BY <1>2, <2>1, <2>2, <2>3, <2>4 DEF Role
  <1>3. \A s, t \in Sealer : \A x : Closing(s, x) /\ Closing(t, x) => s = t
    BY Places DEF Inv, CallInv, Seals, Closing
  <1>4. \A s \in Sealer : \A x : Closing(s, x) => x \in Open /\ closed[x] = 0
    BY Places DEF Inv, CallInv, Seals, Closing
  <1>5. \A x \in Cell : closed[x] \in Nat
    BY DEF Inv, TypeOK
  <1> QED BY <1>1, <1>2, <1>3, <1>4, <1>5 DEF Closing

\* What one step may do to the closing of cells.
LEMMA CloseMoves ==
    ASSUME Inv, NEW c \in Call, Legal(c)
    PROVE  /\ \A s \in Sealer : \A x : s # c => (Closing(s, x)' <=> Closing(s, x))
           /\ \A x \in Cell : ~Closing(c, x) => closed'[x] = closed[x]
           /\ \A x \in Cell : Closing(c, x) =>
                 /\ closed'[x] = 1 /\ closed[x] = 0 /\ x \in Open
                 /\ ~Closing(c, x)'
           /\ \A x : Closing(c, x)' =>
                 /\ x \in Open /\ obj[c] \in Object
                 /\ slot[obj[c]] = x /\ slot'[obj[c]] = SealedCell
  <1>1. \A s \in Sealer : \A x : s # c => (Closing(s, x)' <=> Closing(s, x))
    BY Places DEF Legal, Frame, Closing
  <1>2. \A x \in Cell : ~Closing(c, x) => closed'[x] = closed[x]
    BY Facts DEF Legal, Frame
  <1>3. \A x \in Cell : Closing(c, x) =>
                 /\ closed'[x] = 1 /\ closed[x] = 0 /\ x \in Open
    BY Facts DEF Legal, Frame
  <1>4. \A x : Closing(c, x) => ~Closing(c, x)'
    BY DEF Legal, Frame, Closing
  <1>5. \A x : Closing(c, x)' =>
                 /\ x \in Open /\ obj[c] \in Object
                 /\ slot[obj[c]] = x /\ slot'[obj[c]] = SealedCell
    BY DEF Legal, Frame, Closing
  <1> QED BY <1>1, <1>2, <1>3, <1>4, <1>5

\* Copies go on naming the leaf that Root names.
LEMMA LeavesPreserved ==
    ASSUME Inv, NEW c \in Call, Legal(c)
    PROVE  Leaves'
  <1>1. \A n \in Node : leaf'[n] # Nil => leaf'[n] = leaf'[Root]
    BY Places DEF Inv, Leaves, Legal, Frame
  <1>2. \A n \in made' : n # Root => leaf'[n] # Nil
    BY DEF Inv, Leaves, Legal, Frame, TypeOK
  <1>3. ASSUME leaf'[Root] = SealedLeaf
        PROVE  \E s \in Sealer : kind'[s] = "value" /\ pc'[s] = "done"
    <2>1. CASE leaf'[Root] # leaf[Root]
      BY <1>3, <2>1, LeafNames DEF Legal, Frame
    <2>2. CASE leaf'[Root] = leaf[Root]
      <3>1. PICK s \in Sealer : kind[s] = "value" /\ pc[s] = "done"
        BY <1>3, <2>2 DEF Inv, Leaves
      <3>2. s # c /\ s \in Call
        BY <3>1, Places DEF Legal, Frame
      <3>3. kind'[s] = kind[s] /\ pc'[s] = pc[s]
        BY <3>2 DEF Legal, Frame
      <3> QED BY <3>1, <3>3
    <2> QED BY <2>1, <2>2
  <1> QED BY <1>1, <1>2, <1>3 DEF Leaves

\* Open cells stay in one place, and what is sealed somebody sealed.
LEMMA SlotsPreserved ==
    ASSUME Inv, NEW c \in Call, Legal(c), Slides(c)
    PROVE  Slots'
  <1>1. slot'[SealedLeaf] = SealedCell
    BY SlotMoves, Places DEF Inv, Slots
  <1>2. closed'[SealedCell] = 1
    BY CloseMoves, Places DEF Inv, Slots
  <1>3. ASSUME NEW o \in Object, slot'[o] = SealedCell, o # SealedLeaf
        PROVE  \E s \in Sealer : obj'[s] = o /\ pc'[s] \in {"close", "done"}
    <2>1. CASE slot[o] = SealedCell
      <3>1. PICK s \in Sealer : obj[s] = o /\ pc[s] \in {"close", "done"}
        BY <1>3, <2>1 DEF Inv, Slots
      <3>2. CASE s # c
        BY <3>1, <3>2, Places DEF Legal, Frame
      <3>3. CASE s = c
        BY <3>1, <3>3 DEF Legal, Frame
      <3> QED BY <3>2, <3>3
    <2>2. CASE c \in Sealer /\ obj'[c] = o /\ pc'[c] \in {"close", "done"}
      BY <2>2
    <2> QED BY <1>3, <2>1, <2>2, SlotMoves
  <1>4. \A x \in Open : closed'[x] <= 1
    BY CloseMoves, Places DEF Inv, Slots
  <1>5. ASSUME NEW o \in Object, NEW x \in Open, slot'[o] = x
        PROVE  /\ closed'[x] = 0
               /\ \A p \in Object : slot'[p] = x => p = o
               /\ \A s \in Sealer : ~Closing(s, x)'
    <2>0. x \in Cell
      BY <1>5, Places
    <2>1. CASE x = slot[o]
      <3>1. /\ closed[x] = 0 /\ \A s \in Sealer : ~Closing(s, x)
            /\ \A p \in Object : slot[p] = x => p = o
        BY <1>5, <2>1 DEF Inv, Slots
      <3>2. closed'[x] = 0
        BY <2>0, <3>1, CloseMoves, Facts
      <3>3. ASSUME NEW p \in Object, slot'[p] = x
            PROVE  p = o
        <4>1. ~Unused(x)
          BY <2>1 DEF Unused
        <4>2. slot[p] = x
          BY <3>3, <4>1, SlotMoves
        <4> QED BY <3>1, <4>2
      <3>4. ASSUME NEW s \in Sealer, Closing(s, x)'
            PROVE  FALSE
        <4>1. s = c
          BY <3>1, <3>4, CloseMoves
        <4>2. obj[c] \in Object /\ slot[obj[c]] = x /\ slot'[obj[c]] = SealedCell
          BY <3>4, <4>1, CloseMoves
        <4>3. obj[c] = o
          BY <3>1, <4>2
        <4> QED BY <1>5, <4>2, <4>3, Places
      <3> QED BY <3>2, <3>3, <3>4
    <2>2. CASE Unused(x) /\ \A p \in Object : slot'[p] = x => p = o
      <3>1. closed'[x] = 0
        BY <2>0, <2>2, CloseMoves, Facts DEF Unused
      <3>2. ASSUME NEW s \in Sealer, Closing(s, x)'
            PROVE  FALSE
        <4>1. s = c
          BY <2>2, <3>2, CloseMoves DEF Unused
        <4>2. obj[c] \in Object /\ slot[obj[c]] = x
          BY <3>2, <4>1, CloseMoves
        <4> QED BY <2>2, <4>2 DEF Unused
      <3> QED BY <2>2, <3>1, <3>2
    <2> QED BY <1>5, <2>1, <2>2, SlotMoves
  <1>6. ASSUME NEW o \in Object, slot'[o] \in Open
        PROVE  \A s \in Sealer : ~(pc'[s] = "close" /\ cell'[s] = slot'[o])
    BY <1>5, <1>6 DEF Closing
  <1> QED BY <1>1, <1>2, <1>3, <1>4, <1>5, <1>6 DEF Slots, Closing

\* What another call knows is not disturbed.
LEMMA OthersPreserved ==
    ASSUME Inv, NEW c \in Call, Legal(c), Slides(c), NEW d \in Call, d # c
    PROVE  CallInv(d)'
  <1>1. /\ pc'[d] = pc[d] /\ kind'[d] = kind[d] /\ node'[d] = node[d]
        /\ obj'[d] = obj[d] /\ cell'[d] = cell[d]
    BY DEF Legal, Frame
  <1>2. /\ \A n \in Node : leaf[n] # Nil => leaf'[n] = leaf[n]
        /\ node[d] \in Node
    BY DEF Legal, Frame, Inv, TypeOK
  <1>3. Role(d) /\ Private(d)
    BY DEF Inv, CallInv
  <1>4. Role(d)'
    BY <1>1, <1>2, <1>3, Places DEF Role
  <1>5. Private(d)'
    <2>1. pc[d] \in LeafPc \cup {"idle"} =>
             leaf'[Root] # NewLeaf(d) /\ slot'[NewLeaf(d)] = slot[NewLeaf(d)]
      <3>1. ASSUME pc[d] \in LeafPc \cup {"idle"}
            PROVE  leaf'[Root] # NewLeaf(d)
        <4>1. leaf[Root] # NewLeaf(d)
          BY <1>3, <3>1 DEF Private
        <4>2. leaf'[Root] # leaf[Root] =>
                 leaf'[Root] = NewLeaf(c) \/ leaf'[Root] = SealedLeaf
          BY DEF Legal
        <4> QED BY <4>1, <4>2, LeafNames
      <3>2. pc[d] \in LeafPc \cup {"idle"} =>
               slot'[NewLeaf(d)] = slot[NewLeaf(d)]
        BY DEF Legal
      <3> QED BY <3>1, <3>2
    <2> QED BY <1>1, <1>3, <2>1 DEF Private, LeafPc
  <1>6. ASSUME d \in Sealer
        PROVE  Seals(d)'
    <2>0. Seals(d)
      BY <1>6 DEF Inv, CallInv
    <2>1. ASSUME pc[d] \in {"close", "done"} PROVE slot'[obj[d]] = SealedCell
      <3>1. obj[d] \in Object
        BY <2>1, Facts DEF LeafPc
      <3> QED BY <2>0, <2>1, <3>1, SlotMoves DEF Seals
    <2>2. ASSUME pc[d] = "close"
          PROVE  /\ cell[d] \in Open /\ closed'[cell[d]] = 0
                 /\ \A t \in Sealer : Closing(t, cell[d])' => t = d
      <3>1. Closing(d, cell[d]) /\ cell[d] \in Open /\ cell[d] \in Cell
            /\ closed[cell[d]] = 0
        BY <1>6, <2>0, <2>2, Places DEF Seals, Closing
      <3>2. ~Closing(c, cell[d])
        BY <1>6, <3>1, Facts
      <3>3. closed'[cell[d]] = 0
        BY <3>1, <3>2, CloseMoves, Facts
      <3>4. PICK x : x = cell[d]
        OBVIOUS
      <3>5. \A t \in Sealer : Closing(t, x)' => t = d
        <4>1. ASSUME NEW t \in Sealer, t # d, Closing(t, x)' PROVE FALSE
          <5>1. t = c
            BY <1>6, <3>1, <3>4, <4>1, Facts, CloseMoves
          <5>2. x \in Open /\ obj[c] \in Object /\ slot[obj[c]] = x
            BY <4>1, <5>1, CloseMoves
          <5>3. ~Closing(d, x)
            BY <1>6, <5>2 DEF Inv, Slots
          <5> QED BY <3>1, <3>4, <5>3
        <4> QED BY <4>1
      <3> QED BY <1>1, <3>1, <3>3, <3>4, <3>5 DEF Closing
    <2> QED BY <1>1, <2>1, <2>2 DEF Seals, Closing
  <1>7. ASSUME d \in Watcher
        PROVE  Watches(d)'
    <2>0. Watches(d)
      BY <1>7 DEF Inv, CallInv
    <2>1. ASSUME pc[d] = "again" PROVE slot'[obj[d]] # Nil
      <3>1. obj[d] \in Object
        BY <2>1, Facts DEF LeafPc
      <3> QED BY <2>0, <2>1, <3>1, SlotMoves, CellNames DEF Watches
    <2>2. ASSUME pc[d] = "done"
          PROVE  /\ cell[d] \in Cell
                 /\ \/ slot'[obj[d]] = cell[d]
                    \/ /\ slot'[obj[d]] = SealedCell
                       /\ \/ closed'[cell[d]] = 1
                          \/ \E s \in Sealer : pc'[s] = "close" /\ cell'[s] = cell[d]
      <3>1. obj[d] \in Object /\ cell[d] \in Cell
        BY <2>0, <2>2, Facts DEF LeafPc, Watches
      <3>2. CASE slot[obj[d]] = cell[d]
        <4>1. CASE cell[d] = SealedCell
          BY <3>1, <3>2, <4>1, SlotMoves
        <4>2. CASE cell[d] \in Open
          <5>1. CASE slot'[obj[d]] = cell[d]
            BY <3>1, <5>1
          <5>2. CASE slot'[obj[d]] = SealedCell /\ pc'[c] = "close"
                     /\ cell'[c] = cell[d]
            BY <3>1, <5>2 DEF Legal, Frame
          <5> QED BY <3>1, <3>2, <4>2, <5>1, <5>2, SlotMoves, Places
        <4> QED BY <3>1, <4>1, <4>2, Places
      <3>3. CASE slot[obj[d]] = SealedCell /\ closed[cell[d]] = 1
        BY <3>1, <3>3, SlotMoves, CloseMoves
      <3>4. CASE slot[obj[d]] = SealedCell
                 /\ \E s \in Sealer : Closing(s, cell[d])
        <4>1. PICK s \in Sealer : Closing(s, cell[d])
          BY <3>4
        <4>2. slot'[obj[d]] = SealedCell
          BY <3>1, <3>4, SlotMoves
        <4>3. CASE s = c
          BY <3>1, <4>1, <4>2, <4>3, CloseMoves
        <4>4. CASE s # c
          BY <3>1, <4>1, <4>2, <4>4, Places DEF Closing, Legal, Frame
        <4> QED BY <4>3, <4>4
      <3> QED BY <2>0, <2>2, <3>2, <3>3, <3>4 DEF Watches
    <2>3. ASSUME NEW x \in {NewCell(d), LiveCell(d)}, Unused(x)
          PROVE  Unused(x)'
      <3>1. x \in Open /\ x \in Cell
        BY <1>7, <2>3, Places
      <3>2. closed'[x] = 0
        BY <2>3, <3>1, CloseMoves, Facts DEF Unused
      <3>3. ASSUME NEW o \in Object, slot'[o] = x PROVE FALSE
        BY <1>7, <2>3, <3>1, <3>3, SlotMoves, CellNames DEF Unused
      <3>4. ASSUME NEW s \in Sealer, Closing(s, x)' PROVE FALSE
        <4>1. s = c
          BY <2>3, <3>4, CloseMoves DEF Unused
        <4>2. obj[c] \in Object /\ slot[obj[c]] = x
          BY <3>4, <4>1, CloseMoves
        <4> QED BY <2>3, <4>2 DEF Unused
      <3> QED BY <3>2, <3>3, <3>4 DEF Unused
    <2>4. /\ pc[d] # "done" => Unused(NewCell(d))'
          /\ pc[d] \in {"idle", "leaf load"} => Unused(LiveCell(d))'
      BY <2>0, <2>3 DEF Watches
    <2> QED BY <1>1, <2>1, <2>2, <2>4 DEF Watches, Closing
  <1> QED BY <1>4, <1>5, <1>6, <1>7 DEF CallInv

\* A step of c that is legal and after which c itself is in order.
Good(c) == TypeOK' /\ Legal(c) /\ Slides(c) /\ CallInv(c)'

\* Such a step keeps the invariant.
LEMMA GoodStep ==
    ASSUME Inv, NEW c \in Call, Good(c)
    PROVE  Inv'
  <1>1. Legal(c) /\ Slides(c) /\ TypeOK' /\ CallInv(c)'
    BY DEF Good
  <1>2. \A d \in Call : CallInv(d)'
    BY <1>1, OthersPreserved
  <1>3. Leaves' /\ Slots'
    BY <1>1, LeavesPreserved, SlotsPreserved
  <1> QED BY <1>1, <1>2, <1>3 DEF Inv

-----------------------------------------------------------------------------
(* Steps that change nothing but the locals of the call *)

\* A call that is not closing a cell leaves every channel as it is.
LEMMA ClosedStays ==
    ASSUME Inv, NEW c \in Call, pc[c] # "close", closed' = closed
    PROVE  \A x \in Cell :
              closed'[x] = closed[x] + (IF Closing(c, x) THEN 1 ELSE 0)
  <1>1. \A x : ~Closing(c, x)
    BY DEF Closing
  <1>2. \A x \in Cell : closed[x] \in Nat
    BY Facts
  <1> QED BY <1>1, <1>2

\* Such a step is legal, and no cell comes into use by it.
LEMMA PureStep ==
    ASSUME Inv, NEW c \in Call, Frame(c), pc[c] \notin {"done", "close"},
           pc'[c] # "close", UNCHANGED <<made, leaf, slot, closed>>
    PROVE  /\ Legal(c) /\ Slides(c)
           /\ \A x : Unused(x) => Unused(x)'
  <1>1. \A s \in Sealer : \A x : Closing(s, x)' => Closing(s, x)
    BY Places DEF Frame, Closing
  <1>2. \A x : Unused(x) => Unused(x)'
    BY <1>1 DEF Unused
  <1>3. Legal(c)
    BY ClosedStays DEF Legal
  <1> QED BY <1>2, <1>3 DEF Slides

\* What is known of a call as it makes a step.
LEMMA Before ==
    ASSUME Inv, NEW c \in Call
    PROVE  /\ Role(c) /\ Private(c)
           /\ c \in Sealer => Seals(c)
           /\ c \in Watcher => Watches(c)
           /\ c \in Watcher => c \notin Copier /\ c \notin Sealer
           /\ c \in Sealer => c \notin Copier /\ c \notin Watcher
           /\ c \in Copier => c \notin Watcher /\ c \notin Sealer
           /\ c \in Copier => c \in Node /\ c # Root
           /\ c \in Copier \/ c \in Watcher \/ c \in Sealer
           /\ made \subseteq Node
           /\ \A n \in Node : leaf[n] \in Leaf \cup {Nil}
           /\ \A o \in Object : slot[o] \in Cell \cup {Nil}
           /\ pc[c] \in Where /\ node[c] \in Node
           /\ kind[c] \in {"none", "node", "value"}
           /\ obj[c] \in Object \cup {Nil} /\ cell[c] \in Cell \cup {Nil}
           /\ Pointers(c)
  BY CallAssumption DEF Inv, CallInv, TypeOK, Call, Node

\* TypeOK of the next state, from the types of what the step changes.
LEMMA NextTypes ==
    ASSUME TypeOK, NEW c \in Call, Frame(c),
           made' \subseteq Node,
           leaf' \in [Node -> Leaf \cup {Nil}],
           slot' \in [Object -> Cell \cup {Nil}],
           closed' \in [Cell -> Nat],
           pc' \in [Call -> Where],
           kind' \in [Call -> {"none", "node", "value"}],
           node' \in [Call -> Node],
           obj' \in [Call -> Object \cup {Nil}],
           cell' \in [Call -> Cell \cup {Nil}],
           Pointers(c)'
    PROVE  TypeOK'
  <1>1. ASSUME NEW d \in Call PROVE Pointers(d)'
    <2>1. CASE d = c
      BY <2>1
    <2>2. CASE d # c
      BY <2>2 DEF TypeOK, Pointers, Frame
    <2> QED BY <2>1, <2>2
  <1> QED BY <1>1 DEF TypeOK

\* StartValue is good.
LEMMA StartValueGood ==
    ASSUME Inv, NEW c \in Call, NEW n \in Node, StartValue(c, n)
    PROVE  Good(c)
  <1>1. /\ pc[c] = "idle" /\ pc'[c] = "leaf load" /\ n \in made
        /\ kind'[c] = "value" /\ node'[c] = n
        /\ UNCHANGED <<made, leaf, slot, closed, obj, cell>>
    BY DEF Inv, TypeOK, StartValue, Goto
  <1>2. Frame(c)
    BY DEF Inv, TypeOK, StartValue, Goto, Frame
  <1>3. TypeOK'
    <2>1. /\ pc' \in [Call -> Where] /\ node' \in [Call -> Node]
          /\ kind' \in [Call -> {"none", "node", "value"}]
      BY DEF Inv, TypeOK, StartValue, Goto, Where
    <2>2. Pointers(c)'
      BY <1>1 DEF Pointers
    <2> QED BY <1>1, <1>2, <2>1, <2>2, NextTypes DEF Inv, TypeOK
  <1>4. Legal(c) /\ Slides(c) /\ \A x : Unused(x) => Unused(x)'
    BY <1>1, <1>2, PureStep
  <1>5. Role(c)'
    BY <1>1, Before DEF Role, LeafPc, Inv, Leaves
  <1>6. Private(c)'
    BY <1>1, Before DEF Private, LeafPc
  <1>7. c \in Sealer => Seals(c)'
    BY <1>1 DEF Seals
  <1>8. c \in Watcher => Watches(c)'
    BY <1>1, <1>4, Before DEF Watches
  <1> QED BY <1>3, <1>4, <1>5, <1>6, <1>7, <1>8 DEF Good, CallInv

\* StartNode is good.
LEMMA StartNodeGood ==
    ASSUME Inv, NEW c \in Call, NEW n \in Node, StartNode(c, n)
    PROVE  Good(c)
  <1>1. /\ c \notin Copier /\ pc[c] = "idle" /\ n \in made
        /\ pc'[c] = IF c \in Watcher THEN "load" ELSE "swap"
        /\ kind'[c] = "node" /\ node'[c] = n /\ obj'[c] = Own(n)
        /\ UNCHANGED <<made, leaf, slot, closed, cell>>
    BY DEF Inv, TypeOK, StartNode, Goto, Take
  <1>2. Frame(c)
    BY DEF Inv, TypeOK, StartNode, Goto, Take, Frame
  <1>3. TypeOK'
    <2>1. /\ pc' \in [Call -> Where] /\ node' \in [Call -> Node]
          /\ kind' \in [Call -> {"none", "node", "value"}]
          /\ obj' \in [Call -> Object \cup {Nil}]
      BY Places DEF Inv, TypeOK, StartNode, Goto, Take, Where
    <2>2. Pointers(c)'
      BY <1>1, LeafNames DEF Pointers
    <2> QED BY <1>1, <1>2, <2>1, <2>2, NextTypes DEF Inv, TypeOK
  <1>4. Legal(c) /\ Slides(c) /\ \A x : Unused(x) => Unused(x)'
    BY <1>1, <1>2, PureStep
  <1>5. Role(c)'
    BY <1>1, Before DEF Role, LeafPc, Inv, Leaves
  <1>6. Private(c)'
    BY <1>1, Before DEF Private, LeafPc
  <1>7. c \in Sealer => Seals(c)'
    BY <1>1, Before DEF Seals
  <1>8. c \in Watcher => Watches(c)'
    BY <1>1, <1>4, Before DEF Watches
  <1> QED BY <1>3, <1>4, <1>5, <1>6, <1>7, <1>8 DEF Good, CallInv

\* StartLeaf is good.
LEMMA StartLeafGood ==
    ASSUME Inv, NEW c \in Call, NEW n \in Node, StartLeaf(c, n)
    PROVE  Good(c)
  <1>1. /\ c \in Sealer /\ pc[c] = "idle" /\ leaf[n] # Nil
        /\ pc'[c] = "swap"
        /\ kind'[c] = "value" /\ node'[c] = n /\ obj'[c] = leaf[n]
        /\ UNCHANGED <<made, leaf, slot, closed, cell>>
    BY DEF Inv, TypeOK, StartLeaf, Goto, Take
  <1>2. Frame(c)
    BY DEF Inv, TypeOK, StartLeaf, Goto, Take, Frame
  <1>3. TypeOK'
    <2>0. leaf[n] \in Object \cup {Nil}
      BY Before, Places
    <2>1. /\ pc' \in [Call -> Where] /\ node' \in [Call -> Node]
          /\ kind' \in [Call -> {"none", "node", "value"}]
          /\ obj' \in [Call -> Object \cup {Nil}]
      BY <2>0 DEF Inv, TypeOK, StartLeaf, Goto, Take, Where
    <2>2. Pointers(c)'
      BY <1>1, LeafNames DEF Pointers
    <2> QED BY <1>1, <1>2, <2>1, <2>2, NextTypes DEF Inv, TypeOK
  <1>4. Legal(c) /\ Slides(c) /\ \A x : Unused(x) => Unused(x)'
    BY <1>1, <1>2, PureStep
  <1>5. Role(c)'
    BY <1>1, Before, Places DEF Role, LeafPc, Inv, Leaves
  <1>6. Private(c)'
    BY <1>1, Before DEF Private, LeafPc
  <1>7. c \in Sealer => Seals(c)'
    BY <1>1, Before DEF Seals
  <1>8. c \notin Watcher
    BY <1>1, Before
  <1> QED BY <1>3, <1>4, <1>5, <1>6, <1>7, <1>8 DEF Good, CallInv

\* A call on the value, before it has the leaf.
LEMMA OnValue ==
    ASSUME Inv, NEW c \in Call, pc[c] \in LeafPc
    PROVE  /\ kind[c] = "value"
           /\ leaf[node[c]] = leaf[Root] \/ node[c] = Root
           /\ leaf[node[c]] = Nil => node[c] = Root
           /\ leaf[node[c]] # Nil => leaf[Root] = leaf[node[c]]
           /\ leaf[Root] # NewLeaf(c)
  BY Before, Places DEF Role, Private, LeafPc, Inv, Leaves

\* A call has got the leaf that is in its node.
LEMMA GotLeaf ==
    ASSUME Inv, NEW c \in Call, pc[c] \in LeafPc, Frame(c),
           leaf[node[c]] # Nil, Take(c, leaf[node[c]]), Goto(c, AfterLeaf(c)),
           UNCHANGED <<made, leaf, slot, closed, kind, node, cell>>
    PROVE  Good(c)
  <1>1. /\ pc'[c] = AfterLeaf(c) /\ obj'[c] = leaf[Root] /\ leaf[Root] # Nil
        /\ AfterLeaf(c) \in {"load", "swap", "copy"}
    BY OnValue DEF Inv, TypeOK, Goto, Take, AfterLeaf
  <1>3. TypeOK'
    <2>0. leaf[node[c]] \in Object \cup {Nil}
      BY Before, Places
    <2>1. pc' \in [Call -> Where] /\ obj' \in [Call -> Object \cup {Nil}]
      BY <1>1, <2>0 DEF Inv, TypeOK, Goto, Take, Where
    <2>2. Pointers(c)'
      BY <1>1, LeafNames DEF Pointers
    <2> QED BY <1>1, <2>1, <2>2, NextTypes DEF Inv, TypeOK
  <1>4. Legal(c) /\ Slides(c) /\ \A x : Unused(x) => Unused(x)'
    BY <1>1, PureStep DEF LeafPc
  <1>5. Role(c)'
    BY <1>1, Before, OnValue DEF Role, LeafPc, AfterLeaf
  <1>6. Private(c)'
    BY <1>1 DEF Private, LeafPc
  <1>7. c \in Sealer => Seals(c)'
    BY <1>1 DEF Seals
  <1>8. c \in Watcher => Watches(c)'
    BY <1>1, <1>4, Before DEF Watches, LeafPc
  <1> QED BY <1>3, <1>4, <1>5, <1>6, <1>7, <1>8 DEF Good, CallInv

\* LeafAgain is good.
LEMMA LeafAgainGood ==
    ASSUME Inv, NEW c \in Call, LeafAgain(c)
    PROVE  Good(c)
  <1>1. pc[c] \in LeafPc /\ Frame(c)
    BY DEF LeafAgain, LeafPc, Frame, Inv, TypeOK, Goto, Take
  <1>2. leaf[node[c]] # Nil
    BY Before DEF LeafAgain, Role
  <1> QED BY <1>1, <1>2, GotLeaf DEF LeafAgain

\* LeafLoad is good.
LEMMA LeafLoadGood ==
    ASSUME Inv, NEW c \in Call, LeafLoad(c)
    PROVE  Good(c)
  <1>1. /\ pc[c] = "leaf load" /\ pc[c] \in LeafPc
        /\ UNCHANGED <<made, leaf, closed, kind, node, cell>>
    BY DEF LeafLoad, LeafPc
  <1>2. Frame(c)
    BY DEF LeafLoad, Frame, Inv, TypeOK, Goto, Take
  <1>3. CASE leaf[node[c]] # Nil
    BY <1>1, <1>2, <1>3, GotLeaf DEF LeafLoad
  <1>4. CASE leaf[node[c]] = Nil
    <2>1. /\ pc'[c] = "leaf cas" /\ obj' = obj
          /\ slot' = IF c \in Watcher
                     THEN [slot EXCEPT ![NewLeaf(c)] = LiveCell(c)] ELSE slot
      BY <1>4 DEF LeafLoad, Inv, TypeOK, Goto
    <2>2. /\ leaf[Root] = Nil /\ node[c] = Root
          /\ slot[NewLeaf(c)] = Nil
      BY <1>1, <1>4, OnValue, Before DEF Private
    <2>3. TypeOK'
      <3>1. /\ pc' \in [Call -> Where]
            /\ slot' \in [Object -> Cell \cup {Nil}]
        BY <1>4, <2>1, Places DEF LeafLoad, Inv, TypeOK, Goto, Where
      <3>2. Pointers(c)'
        BY <2>1 DEF Pointers
      <3> QED BY <1>1, <1>2, <2>1, <3>1, <3>2, NextTypes DEF Inv, TypeOK
    <2>4. CASE c \in Watcher
      <3>1. Unused(LiveCell(c)) /\ Unused(NewCell(c))
        BY <1>1, <2>4, Before DEF Watches
      <3>2. /\ slot'[NewLeaf(c)] = LiveCell(c)
            /\ \A o \in Object : o # NewLeaf(c) => slot'[o] = slot[o]
        BY <2>1, <2>4, Places DEF Inv, TypeOK
      <3>3. Slides(c)
        BY <2>2, <2>4, <3>1, <3>2, Places DEF Slides, Allocates
      <3>4. \A d \in Call \ {c} : slot'[NewLeaf(d)] = slot[NewLeaf(d)]
        BY <3>2, Places, LeafNames
      <3>5. \A x \in Cell :
               closed'[x] = closed[x] + (IF Closing(c, x) THEN 1 ELSE 0)
        BY <1>1, ClosedStays
      <3>6. Legal(c)
        BY <1>1, <1>2, <2>1, <3>4, <3>5 DEF Legal
      <3>7. Role(c)'
        BY <1>1, <2>1, <2>2, Before, OnValue DEF Role, LeafPc
      <3>8. Private(c)'
        BY <1>1, <2>1, <2>2, <3>2, LeafNames DEF Private, LeafPc
      <3>9. Watches(c)'
        <4>1. NewCell(c) # LiveCell(c)
          BY <2>4, CellNames
        <4>2. Unused(NewCell(c))'
          BY <1>1, <1>2, <2>1, <3>1, <3>2, <4>1, Places
             DEF Unused, Closing, Frame
        <4> QED BY <2>1, <4>2 DEF Watches
      <3> QED BY <2>3, <2>4, <3>3, <3>6, <3>7, <3>8, <3>9, Before
              DEF Good, CallInv
    <2>5. CASE c \notin Watcher
      <3>1. slot' = slot
        BY <2>1, <2>5
      <3>2. Legal(c) /\ Slides(c)
        BY <1>1, <1>2, <2>1, <3>1, PureStep
      <3>3. Role(c)'
        BY <1>1, <2>1, <2>2, <2>5, Before, OnValue DEF Role, LeafPc
      <3>4. Private(c)'
        BY <1>1, <2>1, <2>2, <2>5, LeafNames DEF Private, LeafPc
      <3>5. c \in Sealer => Seals(c)'
        BY <2>1 DEF Seals
      <3> QED BY <2>3, <2>5, <3>2, <3>3, <3>4, <3>5 DEF Good, CallInv
    <2> QED BY <2>4, <2>5
  <1> QED BY <1>3, <1>4

\* LeafCas is good.
LEMMA LeafCasGood ==
    ASSUME Inv, NEW c \in Call, LeafCas(c)
    PROVE  Good(c)
  <1>1. /\ pc[c] = "leaf cas" /\ pc[c] \in LeafPc
        /\ UNCHANGED <<made, slot, closed, kind, node>>
    BY DEF LeafCas, LeafPc
  <1>2. Frame(c)
    <2>1. \A d \in Call \ {c} : kind'[d] = kind[d] /\ node'[d] = node[d]
      BY <1>1
    <2>2. \A d \in Call \ {c} : pc'[d] = pc[d]
      BY DEF LeafCas, Inv, TypeOK, Goto
    <2>3. \A d \in Call \ {c} : obj'[d] = obj[d]
      BY DEF LeafCas, Inv, TypeOK, Take
    <2>4. \A d \in Call \ {c} : cell'[d] = cell[d]
      BY DEF LeafCas, Inv, TypeOK, Hold
    <2> QED BY <2>1, <2>2, <2>3, <2>4 DEF Frame
  <1>3. CASE leaf[node[c]] # Nil
    <2>1. pc'[c] = "leaf again" /\ UNCHANGED <<leaf, obj, cell>>
      BY <1>3 DEF LeafCas, Inv, TypeOK, Goto
    <2>2. TypeOK'
      <3>1. pc' \in [Call -> Where]
        BY <1>3 DEF LeafCas, Inv, TypeOK, Goto, Where
      <3>2. Pointers(c)'
        BY <2>1 DEF Pointers
      <3> QED BY <1>1, <1>2, <2>1, <3>1, <3>2, NextTypes DEF Inv, TypeOK
    <2>3. Legal(c) /\ Slides(c) /\ \A x : Unused(x) => Unused(x)'
      BY <1>1, <1>2, <2>1, PureStep
    <2>4. Role(c)'
      BY <1>1, <1>3, <2>1, Before DEF Role, LeafPc
    <2>5. Private(c)'
      BY <1>1, <2>1, Before DEF Private, LeafPc
    <2>6. c \in Sealer => Seals(c)'
      BY <2>1 DEF Seals
    <2>7. c \in Watcher => Watches(c)'
      BY <1>1, <2>1, <2>3, Before DEF Watches
    <2> QED BY <2>2, <2>3, <2>4, <2>5, <2>6, <2>7 DEF Good, CallInv
  <1>4. CASE leaf[node[c]] = Nil
    <2> DEFINE l == IF c \in Sealer THEN SealedLeaf ELSE NewLeaf(c)
    <2>1. node[c] = Root /\ leaf[Root] = Nil /\ kind[c] = "value"
      BY <1>1, <1>4, OnValue
    <2>2. /\ pc'[c] = IF c \in Copier THEN "copy" ELSE "done"
          /\ obj'[c] = l /\ leaf'[Root] = l
          /\ cell'[c] = IF c \in Watcher THEN LiveCell(c) ELSE cell[c]
          /\ \A n \in Node : n # Root => leaf'[n] = leaf[n]
      <3>1. leaf' = [leaf EXCEPT ![Root] = l] /\ obj' = [obj EXCEPT ![c] = l]
        BY <1>4, <2>1 DEF LeafCas, Take
      <3>2. pc' = [pc EXCEPT ![c] = IF c \in Copier THEN "copy" ELSE "done"]
        BY <1>4 DEF LeafCas, Goto
      <3>3. c \in Watcher => cell' = [cell EXCEPT ![c] = LiveCell(c)]
        BY <1>4 DEF LeafCas, Hold
      <3>4. CASE c \in Watcher
        BY <3>1, <3>2, <3>3, <3>4, Places DEF Inv, TypeOK
      <3>5. CASE c \notin Watcher
        <4>1. cell' = cell
          BY <1>4, <3>5 DEF LeafCas
        <4> QED BY <3>1, <3>2, <3>5, <4>1, Places DEF Inv, TypeOK
      <3> QED BY <3>4, <3>5
    <2>3. l \in Leaf /\ l # Nil /\ l \in Object
      BY Places, LeafNames
    <2>4. TypeOK'
      <3>0. /\ leaf' = [leaf EXCEPT ![Root] = l] /\ obj' = [obj EXCEPT ![c] = l]
            /\ pc' = [pc EXCEPT ![c] = IF c \in Copier THEN "copy" ELSE "done"]
        BY <1>4, <2>1 DEF LeafCas, Goto, Take
      <3>1. /\ pc' \in [Call -> Where]
            /\ leaf' \in [Node -> Leaf \cup {Nil}]
            /\ obj' \in [Call -> Object \cup {Nil}]
        <4>1. leaf' \in [Node -> Leaf \cup {Nil}]
          BY <2>3, <3>0 DEF Inv, TypeOK
        <4>2. obj' \in [Call -> Object \cup {Nil}]
          BY <2>3, <3>0 DEF Inv, TypeOK
        <4>3. pc' \in [Call -> Where]
          BY <3>0 DEF Inv, TypeOK, Where
        <4> QED BY <4>1, <4>2, <4>3
      <3>2. cell' \in [Call -> Cell \cup {Nil}]
        <4>1. c \in Watcher => LiveCell(c) \in Cell
          BY Places
        <4>2. CASE c \in Watcher
          <5>1. cell' = [cell EXCEPT ![c] = LiveCell(c)]
            BY <1>4, <4>2 DEF LeafCas, Hold
          <5> QED BY <4>1, <4>2, <5>1 DEF Inv, TypeOK
        <4>3. CASE c \notin Watcher
          <5>1. cell' = cell
            BY <1>4, <4>3 DEF LeafCas
          <5> QED BY <5>1 DEF Inv, TypeOK
        <4> QED BY <4>2, <4>3
      <3>3. Pointers(c)'
        BY <2>2, <2>3, CellNames, Before DEF Pointers
      <3> QED BY <1>1, <1>2, <3>1, <3>2, <3>3, NextTypes DEF Inv, TypeOK
    <2>5. \A x \in Cell :
             closed'[x] = closed[x] + (IF Closing(c, x) THEN 1 ELSE 0)
      BY <1>1, ClosedStays
    <2>6. Legal(c)
      <3>1. \A n \in Node : leaf[n] # Nil => leaf'[n] = leaf[n]
        BY <2>1, <2>2
      <3>2. \A n \in Node : leaf'[n] # leaf[n] => leaf'[n] = leaf'[Root]
        BY <2>2
      <3>3. \/ leaf'[Root] = NewLeaf(c)
            \/ /\ leaf'[Root] = SealedLeaf
               /\ c \in Sealer /\ kind'[c] = "value" /\ pc'[c] = "done"
        BY <1>1, <2>1, <2>2, Before
      <3>4. pc'[c] # "close" /\ slot' = slot /\ made' = made
        BY <1>1, <2>2
      <3> QED BY <1>1, <1>2, <2>5, <3>1, <3>2, <3>3, <3>4 DEF Legal
    <2>7. Slides(c)
      BY <1>1 DEF Slides
    <2>8. Role(c)'
      <3>1. kind'[c] = "value" /\ node'[c] = Root
        BY <1>1, <2>1
      <3> QED BY <2>2, <2>3, <3>1, Before DEF Role, LeafPc
    <2>9. Private(c)'
      BY <2>2 DEF Private, LeafPc
    <2>10. c \in Sealer => Seals(c)'
      <3>1. c \in Sealer => pc'[c] = "done" /\ obj'[c] = SealedLeaf
        BY <2>2, Before
      <3> QED BY <1>1, <3>1 DEF Seals, Inv, Slots
    <2>11. ASSUME c \in Watcher PROVE Watches(c)'
      <3>1. /\ pc'[c] = "done" /\ obj'[c] = NewLeaf(c)
            /\ cell'[c] = LiveCell(c) /\ slot'[NewLeaf(c)] = LiveCell(c)
        BY <1>1, <2>2, <2>11, Before DEF Private
      <3> QED BY <2>11, <3>1, Places DEF Watches
    <2> QED BY <2>4, <2>6, <2>7, <2>8, <2>9, <2>10, <2>11 DEF Good, CallInv
  <1> QED BY <1>3, <1>4

\* Copy is good.
LEMMA CopyGood ==
    ASSUME Inv, NEW c \in Call, Copy(c)
    PROVE  Good(c)
  <1>1. /\ pc[c] = "copy" /\ pc'[c] = "copied" /\ c \in Copier
        /\ UNCHANGED <<made, slot, closed, kind, node, obj, cell>>
    BY Before DEF Copy, Inv, TypeOK, Goto, Role, LeafPc
  <1>2. Frame(c)
    BY DEF Copy, Frame, Inv, TypeOK, Goto
  <1>3. /\ obj[c] = leaf[Root] /\ leaf[Root] # Nil /\ c \in Node /\ c # Root
        /\ kind[c] = "value"
    BY <1>1, Before DEF Role, LeafPc
  <1>4. /\ leaf'[c] = leaf[Root]
        /\ \A n \in Node : n # c => leaf'[n] = leaf[n]
        /\ leaf[c] # Nil => leaf[c] = leaf[Root]
    BY <1>3 DEF Copy, Inv, TypeOK, Leaves
  <1>5. leaf'[Root] = leaf[Root]
    BY <1>3, <1>4, Places
  <1>6. TypeOK'
    <2>1. leaf[Root] \in Leaf
      BY <1>3, Before, Places
    <2>2. /\ pc' \in [Call -> Where]
          /\ leaf' \in [Node -> Leaf \cup {Nil}]
      BY <1>3, <2>1 DEF Copy, Inv, TypeOK, Goto, Where
    <2>3. Pointers(c)'
      BY <1>1, Before DEF Pointers
    <2> QED BY <1>1, <1>2, <2>2, <2>3, NextTypes DEF Inv, TypeOK
  <1>7. \A x \in Cell :
           closed'[x] = closed[x] + (IF Closing(c, x) THEN 1 ELSE 0)
    BY <1>1, ClosedStays
  <1>8. Legal(c)
    <2>1. \A n \in Node : leaf[n] # Nil => leaf'[n] = leaf[n]
      BY <1>4
    <2>2. \A n \in Node : leaf'[n] # leaf[n] => leaf'[n] = leaf'[Root]
      BY <1>4, <1>5
    <2> QED BY <1>1, <1>2, <1>5, <1>7, <2>1, <2>2 DEF Legal
  <1>9. Slides(c)
    BY <1>1 DEF Slides
  <1>10. Role(c)'
    BY <1>1, <1>3, <1>4, <1>5, Before DEF Role, LeafPc
  <1>11. Private(c)'
    BY <1>1 DEF Private, LeafPc
  <1> QED BY <1>1, <1>6, <1>8, <1>9, <1>10, <1>11, Before DEF Good, CallInv

\* Publish is good.
LEMMA PublishGood ==
    ASSUME Inv, NEW c \in Call, Publish(c)
    PROVE  Good(c)
  <1>1. /\ pc[c] = "copied" /\ pc'[c] = "done" /\ c \in Copier
        /\ made' = made \cup {c}
        /\ UNCHANGED <<leaf, slot, closed, kind, node, obj, cell>>
    BY Before DEF Publish, Inv, TypeOK, Goto, Role, LeafPc
  <1>2. Frame(c)
    BY DEF Publish, Frame, Inv, TypeOK, Goto
  <1>3. c \in Node /\ leaf[c] # Nil
    BY <1>1, Before DEF Role
  <1>4. TypeOK'
    <2>1. pc' \in [Call -> Where] /\ made' \subseteq Node
      BY <1>1, <1>3 DEF Publish, Inv, TypeOK, Goto, Where
    <2>2. Pointers(c)'
      BY <1>1, Before DEF Pointers
    <2> QED BY <1>1, <1>2, <2>1, <2>2, NextTypes DEF Inv, TypeOK
  <1>5. \A x \in Cell :
           closed'[x] = closed[x] + (IF Closing(c, x) THEN 1 ELSE 0)
    BY <1>1, ClosedStays
  <1>6. Legal(c)
    BY <1>1, <1>2, <1>3, <1>5 DEF Legal
  <1>7. Slides(c)
    BY <1>1 DEF Slides
  <1>8. Role(c)'
    BY <1>1, Before DEF Role, LeafPc
  <1>9. Private(c)'
    BY <1>1 DEF Private, LeafPc
  <1> QED BY <1>1, <1>4, <1>6, <1>7, <1>8, <1>9, Before DEF Good, CallInv

-----------------------------------------------------------------------------
(* Slot.Chan *)

\* A watcher that works on a slot.
LEMMA OnSlot ==
    ASSUME Inv, NEW c \in Call, pc[c] \in {"load", "cas", "again"}
    PROVE  /\ c \in Watcher /\ c \notin Sealer /\ c \notin Copier
           /\ obj[c] \in Object /\ slot[obj[c]] \in Cell \cup {Nil}
           /\ kind[c] \in {"node", "value"}
           /\ Unused(NewCell(c))
  <1>1. c \in Watcher /\ c \notin Sealer /\ c \notin Copier
    BY Before DEF Role, LeafPc
  <1>2. obj[c] \in Object
    BY Facts DEF LeafPc
  <1> QED BY <1>1, <1>2, Before DEF Role, Watches

\* A watcher takes the cell that is in the slot.
LEMMA GotCell ==
    ASSUME Inv, NEW c \in Call, pc[c] \in {"load", "again"}, Frame(c),
           slot[obj[c]] # Nil, Hold(c, slot[obj[c]]), Goto(c, "done"),
           UNCHANGED <<made, leaf, slot, closed, kind, node, obj>>
    PROVE  Good(c)
  <1>1. pc'[c] = "done" /\ cell'[c] = slot[obj[c]] /\ cell'[c] \in Cell
    BY OnSlot DEF Inv, TypeOK, Goto, Hold
  <1>2. TypeOK'
    <2>1. pc' \in [Call -> Where] /\ cell' \in [Call -> Cell \cup {Nil}]
      BY OnSlot DEF Inv, TypeOK, Goto, Hold, Where
    <2>2. Pointers(c)'
      BY <1>1 DEF Pointers
    <2> QED BY <2>1, <2>2, NextTypes DEF Inv, TypeOK
  <1>3. Legal(c) /\ Slides(c)
    BY <1>1, PureStep
  <1>4. Role(c)'
    BY <1>1, Before, OnSlot DEF Role, LeafPc
  <1>5. Private(c)'
    BY <1>1 DEF Private, LeafPc
  <1>6. Watches(c)'
    BY <1>1 DEF Watches
  <1> QED BY <1>2, <1>3, <1>4, <1>5, <1>6, OnSlot DEF Good, CallInv

\* A watcher goes on to another step of Chan.
LEMMA Onward ==
    ASSUME Inv, NEW c \in Call, NEW next \in {"cas", "again"},
           pc[c] \in {"load", "cas"}, Frame(c), Goto(c, next),
           next = "again" => slot[obj[c]] # Nil,
           UNCHANGED <<made, leaf, slot, closed, kind, node, obj, cell>>
    PROVE  Good(c)
  <1>1. pc'[c] = next
    BY DEF Inv, TypeOK, Goto
  <1>2. TypeOK'
    <2>1. pc' \in [Call -> Where]
      BY DEF Inv, TypeOK, Goto, Where
    <2>2. Pointers(c)'
      BY <1>1, Before DEF Pointers
    <2> QED BY <2>1, <2>2, NextTypes DEF Inv, TypeOK
  <1>3. Legal(c) /\ Slides(c) /\ \A x : Unused(x) => Unused(x)'
    BY <1>1, PureStep
  <1>4. Role(c)'
    BY <1>1, Before, OnSlot DEF Role, LeafPc
  <1>5. Private(c)'
    BY <1>1 DEF Private, LeafPc
  <1>6. Watches(c)'
    BY <1>1, <1>3, OnSlot DEF Watches
  <1> QED BY <1>2, <1>3, <1>4, <1>5, <1>6, OnSlot DEF Good, CallInv

\* Load is good.
LEMMA LoadGood ==
    ASSUME Inv, NEW c \in Call, Load(c)
    PROVE  Good(c)
  <1>1. Frame(c)
    BY DEF Load, Frame, Inv, TypeOK, Goto, Hold
  <1>2. CASE slot[obj[c]] # Nil
    BY <1>1, <1>2, GotCell DEF Load
  <1>3. CASE slot[obj[c]] = Nil
    BY <1>1, <1>3, Onward DEF Load
  <1> QED BY <1>2, <1>3

\* Again is good.
LEMMA AgainGood ==
    ASSUME Inv, NEW c \in Call, Again(c)
    PROVE  Good(c)
  <1>1. Frame(c) /\ pc[c] = "again"
    BY DEF Again, Frame, Inv, TypeOK, Goto, Hold
  <1>2. slot[obj[c]] # Nil
    BY <1>1, Before, OnSlot DEF Watches
  <1> QED BY <1>1, <1>2, GotCell DEF Again

\* The slot a call works on is not that of a leaf nobody else has seen yet.
LEMMA NotPrivate ==
    ASSUME Inv, NEW c \in Call, pc[c] \in {"cas", "swap"}, NEW d \in Call,
           pc[d] \in LeafPc \cup {"idle"}
    PROVE  obj[c] # NewLeaf(d)
  <1>1. leaf[Root] # NewLeaf(d)
    BY Before DEF Private
  <1>2. kind[c] \in {"node", "value"} /\ node[c] \in Node
    BY Before DEF Role
  <1>3. kind[c] = "node" => obj[c] = Own(node[c])
    BY Before DEF Role
  <1>4. kind[c] = "value" => obj[c] = leaf[Root]
    BY Before DEF Role, LeafPc
  <1> QED BY <1>1, <1>2, <1>3, <1>4, LeafNames

\* Cas is good.
LEMMA CasGood ==
    ASSUME Inv, NEW c \in Call, Cas(c)
    PROVE  Good(c)
  <1>1. Frame(c) /\ pc[c] = "cas" /\ UNCHANGED <<made, leaf, closed, kind, node, obj>>
    BY DEF Cas, Frame, Inv, TypeOK, Goto, Hold
  <1>2. CASE slot[obj[c]] # Nil
    BY <1>1, <1>2, Onward DEF Cas
  <1>3. CASE slot[obj[c]] = Nil
    <2>1. /\ slot' = [slot EXCEPT ![obj[c]] = NewCell(c)]
          /\ cell' = [cell EXCEPT ![c] = NewCell(c)]
          /\ pc' = [pc EXCEPT ![c] = "done"]
      BY <1>3 DEF Cas, Goto, Hold
    <2>2. NewCell(c) \in Open /\ NewCell(c) \in Cell /\ NewCell(c) # Nil
      BY <1>1, OnSlot, Places, CellNames
    <2>3. /\ pc'[c] = "done" /\ cell'[c] = NewCell(c)
          /\ slot'[obj[c]] = NewCell(c)
          /\ \A o \in Object : o # obj[c] => slot'[o] = slot[o]
      BY <1>1, <2>1, OnSlot DEF Inv, TypeOK
    <2>4. TypeOK'
      <3>1. /\ pc' \in [Call -> Where]
            /\ cell' \in [Call -> Cell \cup {Nil}]
            /\ slot' \in [Object -> Cell \cup {Nil}]
        BY <2>1, <2>2 DEF Inv, TypeOK, Where
      <3>2. Pointers(c)'
        BY <2>2, <2>3 DEF Pointers
      <3> QED BY <1>1, <3>1, <3>2, NextTypes DEF Inv, TypeOK
    <2>5. Slides(c)
      BY <1>1, <1>3, <2>2, <2>3, OnSlot DEF Slides, Allocates
    <2>6. Legal(c)
      <3>1. \A d \in Call \ {c} : pc[d] \in LeafPc \cup {"idle"} =>
               slot'[NewLeaf(d)] = slot[NewLeaf(d)]
        BY <1>1, <2>3, NotPrivate, Places
      <3>2. \A x \in Cell :
               closed'[x] = closed[x] + (IF Closing(c, x) THEN 1 ELSE 0)
        BY <1>1, ClosedStays
      <3> QED BY <1>1, <2>3, <3>1, <3>2 DEF Legal
    <2>7. Role(c)'
      BY <1>1, <2>3, Before, OnSlot DEF Role, LeafPc
    <2>8. Private(c)'
      BY <2>3 DEF Private, LeafPc
    <2>9. Watches(c)'
      BY <1>1, <2>2, <2>3 DEF Watches
    <2> QED BY <1>1, <2>4, <2>5, <2>6, <2>7, <2>8, <2>9, OnSlot
            DEF Good, CallInv
  <1> QED BY <1>2, <1>3

-----------------------------------------------------------------------------
(* Slot.Seal *)

\* Swap is good.
LEMMA SwapGood ==
    ASSUME Inv, NEW c \in Call, Swap(c)
    PROVE  Good(c)
  <1>1. /\ Frame(c) /\ pc[c] = "swap"
        /\ UNCHANGED <<made, leaf, closed, kind, node, obj>>
    BY DEF Swap, SwapBut, Frame, Inv, TypeOK, Goto, Hold
  <1>2. /\ c \in Sealer /\ c \notin Watcher /\ c \notin Copier
        /\ obj[c] \in Object /\ kind[c] \in {"node", "value"}
        /\ slot[obj[c]] \in Cell \cup {Nil}
    <2>1. c \in Sealer /\ c \notin Watcher /\ c \notin Copier
      BY <1>1, Before DEF Role, LeafPc
    <2>2. obj[c] \in Object
      BY <1>1, Facts DEF LeafPc
    <2> QED BY <1>1, <2>1, <2>2, Before DEF Role
  <1> DEFINE old == slot[obj[c]]
             next == IF old \in {Nil, SealedCell} THEN "done" ELSE "close"
  <1>3. /\ slot' = [slot EXCEPT ![obj[c]] = SealedCell]
        /\ cell' = [cell EXCEPT ![c] = old]
        /\ pc' = [pc EXCEPT ![c] = next]
    BY DEF Swap, SwapBut, Goto, Hold
  <1>4. /\ pc'[c] = next /\ cell'[c] = old
        /\ slot'[obj[c]] = SealedCell
        /\ \A o \in Object : o # obj[c] => slot'[o] = slot[o]
    BY <1>2, <1>3 DEF Inv, TypeOK
  <1>5. TypeOK'
    <2>1. slot' \in [Object -> Cell \cup {Nil}]
      BY <1>3, Places DEF Inv, TypeOK
    <2>2. /\ pc' \in [Call -> Where]
          /\ cell' \in [Call -> Cell \cup {Nil}]
      BY <1>2, <1>3 DEF Inv, TypeOK, Where
    <2>3. Pointers(c)'
      BY <1>2, <1>4 DEF Pointers
    <2> QED BY <1>1, <2>1, <2>2, <2>3, NextTypes DEF Inv, TypeOK
  <1>6. old \in Open <=> pc'[c] = "close"
    BY <1>2, <1>4, Places
  <1>7. Slides(c)
    <2>1. obj'[c] = obj[c] /\ pc'[c] \in {"close", "done"}
      BY <1>1, <1>4
    <2> QED BY <1>2, <1>4, <1>6, <2>1 DEF Slides, SealsSlot
  <1>8. Legal(c)
    <2>1. \A d \in Call \ {c} : pc[d] \in LeafPc \cup {"idle"} =>
             slot'[NewLeaf(d)] = slot[NewLeaf(d)]
      BY <1>1, <1>4, NotPrivate, Places
    <2>2. \A x \in Cell :
             closed'[x] = closed[x] + (IF Closing(c, x) THEN 1 ELSE 0)
      BY <1>1, ClosedStays
    <2> QED BY <1>1, <1>2, <1>4, <1>6, <2>1, <2>2 DEF Legal
  <1>9. Role(c)'
    BY <1>1, <1>2, <1>4, Before DEF Role, LeafPc
  <1>10. Private(c)'
    BY <1>4 DEF Private, LeafPc
  <1>11. Seals(c)'
    <2>1. slot'[obj'[c]] = SealedCell
      BY <1>1, <1>4
    <2>2. ASSUME pc'[c] = "close"
          PROVE  /\ cell'[c] \in Open /\ closed'[cell'[c]] = 0
                 /\ \A t \in Sealer : pc'[t] = "close" /\ cell'[t] = cell'[c]
                                        => t = c
      <3>1. old \in Open /\ closed[old] = 0 /\ \A t \in Sealer : ~Closing(t, old)
        BY <1>2, <1>6, <2>2 DEF Inv, Slots
      <3>2. \A t \in Sealer : t # c => pc'[t] = pc[t] /\ cell'[t] = cell[t]
        BY <1>1, Places DEF Frame
      <3> QED BY <1>1, <1>4, <3>1, <3>2 DEF Closing
    <2> QED BY <2>1, <2>2 DEF Seals, Closing
  <1> QED BY <1>2, <1>5, <1>7, <1>8, <1>9, <1>10, <1>11 DEF Good, CallInv

\* Close is good.
LEMMA CloseGood ==
    ASSUME Inv, NEW c \in Call, Close(c)
    PROVE  Good(c)
  <1>1. /\ Frame(c) /\ pc[c] = "close" /\ pc'[c] = "done"
        /\ closed' = [closed EXCEPT ![cell[c]] = @ + 1]
        /\ UNCHANGED <<made, leaf, slot, kind, node, obj, cell>>
    BY DEF Close, Frame, Inv, TypeOK, Goto
  <1>2. c \in Sealer /\ c \notin Watcher /\ c \notin Copier
    BY <1>1, Before DEF Role, LeafPc
  <1>3. cell[c] \in Open /\ cell[c] \in Cell /\ slot[obj[c]] = SealedCell
    BY <1>1, <1>2, Before, Places DEF Seals
  <1>4. TypeOK'
    <2>1. pc' \in [Call -> Where]
      BY DEF Close, Inv, TypeOK, Goto, Where
    <2>2. closed' \in [Cell -> Nat]
      <3>1. closed \in [Cell -> Nat] /\ closed[cell[c]] + 1 \in Nat
        BY <1>3 DEF Inv, TypeOK
      <3>2. closed' = [closed EXCEPT ![cell[c]] = closed[cell[c]] + 1]
        BY <1>1
      <3> QED BY <3>1, <3>2
    <2>3. Pointers(c)'
      BY <1>1, <1>2 DEF Pointers
    <2> QED BY <1>1, <2>1, <2>2, <2>3, NextTypes DEF Inv, TypeOK
  <1>5. \A x \in Cell :
           closed'[x] = closed[x] + (IF Closing(c, x) THEN 1 ELSE 0)
    BY <1>1, <1>3 DEF Closing, Inv, TypeOK
  <1>6. Legal(c)
    BY <1>1, <1>5 DEF Legal
  <1>7. Slides(c)
    BY <1>1 DEF Slides
  <1>8. Role(c)'
    BY <1>1, <1>2, Before DEF Role, LeafPc
  <1>9. Private(c)'
    BY <1>1 DEF Private, LeafPc
  <1>10. Seals(c)'
    BY <1>1, <1>3 DEF Seals
  <1> QED BY <1>2, <1>4, <1>6, <1>7, <1>8, <1>9, <1>10 DEF Good, CallInv

-----------------------------------------------------------------------------
(* The theorems *)

\* The invariant holds at the start ...
LEMMA InitInv == Init => Inv
  <1> SUFFICES ASSUME Init PROVE Inv
    OBVIOUS
  <1>1. /\ \A c \in Call : /\ pc[c] = "idle" /\ kind[c] = "none"
                             /\ node[c] = Root /\ obj[c] = Nil /\ cell[c] = Nil
        /\ \A n \in Node : leaf[n] = Nil
        /\ slot[SealedLeaf] = SealedCell
        /\ \A o \in Object : o # SealedLeaf => slot[o] = Nil
        /\ closed[SealedCell] = 1
        /\ \A x \in Open : closed[x] = 0
    BY Places DEF Init
  <1>2. TypeOK
    <2>1. /\ made \subseteq Node
          /\ pc \in [Call -> Where] /\ kind \in [Call -> {"none", "node", "value"}]
          /\ node \in [Call -> Node]
      BY Places DEF Init, Where
    <2>2. /\ leaf \in [Node -> Leaf \cup {Nil}]
          /\ slot \in [Object -> Cell \cup {Nil}]
          /\ obj \in [Call -> Object \cup {Nil}]
          /\ cell \in [Call -> Cell \cup {Nil}]
      BY Places DEF Init
    <2>3. closed \in [Cell -> Nat]
      BY DEF Init
    <2>4. \A c \in Call : Pointers(c)
      BY <1>1 DEF Pointers
    <2> QED BY <2>1, <2>2, <2>3, <2>4 DEF TypeOK
  <1>3. ASSUME NEW x \in Open PROVE Unused(x)
    <2>1. \A o \in Object : slot[o] # x
      BY <1>1, Places
    <2>2. \A s \in Sealer : ~Closing(s, x)
      BY <1>1, Places DEF Closing
    <2> QED BY <1>1, <2>1, <2>2 DEF Unused
  <1>4. ASSUME NEW c \in Call PROVE CallInv(c)
    <2>1. Role(c)
      BY <1>1 DEF Role, LeafPc
    <2>2. Private(c)
      BY <1>1, Places, LeafNames DEF Private, LeafPc
    <2>3. c \in Sealer => Seals(c)
      BY <1>1 DEF Seals
    <2>4. c \in Watcher => Watches(c)
      BY <1>1, <1>3, Places DEF Watches
    <2> QED BY <2>1, <2>2, <2>3, <2>4 DEF CallInv
  <1>5. Leaves
    BY <1>1, LeafNames, Places DEF Leaves, Init
  <1>6. Slots
    <2>1. \A o \in Object : slot[o] \notin Open
      BY <1>1, Places, CellNames
    <2>2. \A o \in Object : o # SealedLeaf => slot[o] # SealedCell
      BY <1>1, CellNames
    <2> QED BY <1>1, <2>1, <2>2 DEF Slots
  <1> QED BY <1>2, <1>4, <1>5, <1>6 DEF Inv

\* Every step is a good step of one call.
LEMMA StepOfOne ==
    ASSUME Inv, Next
    PROVE  UNCHANGED vars \/ \E c \in Call : Good(c)
  <1>1. CASE Quiet
    BY <1>1 DEF Quiet
  <1>2. ASSUME NEW c \in Call,
               Run(c) \/ Publish(c) \/ (\E n \in Node : Start(c, n))
        PROVE  Good(c)
    <2>1. CASE LeafLoad(c)
      BY <2>1, LeafLoadGood
    <2>2. CASE LeafCas(c)
      BY <2>2, LeafCasGood
    <2>3. CASE LeafAgain(c)
      BY <2>3, LeafAgainGood
    <2>4. CASE Copy(c)
      BY <2>4, CopyGood
    <2>5. CASE Publish(c)
      BY <2>5, PublishGood
    <2>6. CASE Load(c)
      BY <2>6, LoadGood
    <2>7. CASE Cas(c)
      BY <2>7, CasGood
    <2>8. CASE Again(c)
      BY <2>8, AgainGood
    <2>9. CASE Swap(c)
      BY <2>9, SwapGood
    <2>10. CASE Close(c)
      BY <2>10, CloseGood
    <2>11. CASE \E n \in Node : Start(c, n)
      <3>1. PICK n \in Node : Start(c, n)
        BY <2>11
      <3> QED BY <3>1, StartValueGood, StartNodeGood, StartLeafGood DEF Start
    <2> QED BY <1>2, <2>1, <2>2, <2>3, <2>4, <2>5, <2>6, <2>7, <2>8, <2>9,
               <2>10, <2>11 DEF Run
  <1> QED BY <1>1, <1>2 DEF Next

\* ... and every step keeps it.
LEMMA StepInv == Inv /\ [Next]_vars => Inv'
  <1> SUFFICES ASSUME Inv, [Next]_vars PROVE Inv'
    OBVIOUS
  <1>1. CASE UNCHANGED vars
    <2>1. TypeOK'
      BY <1>1 DEF vars, Inv, TypeOK, Pointers
    <2>2. ASSUME NEW c \in Call PROVE CallInv(c)'
      <3>1. CallInv(c)
        BY DEF Inv
      <3>2. Role(c)' /\ Private(c)'
        BY <1>1, <3>1 DEF vars, CallInv, Role, Private
      <3>3. \A x : Unused(x) => Unused(x)'
        BY <1>1 DEF vars, Unused, Closing
      <3>4. c \in Sealer => Seals(c)'
        BY <1>1, <3>1 DEF vars, CallInv, Seals, Closing
      <3>5. c \in Watcher => Watches(c)'
        BY <1>1, <3>1, <3>3 DEF vars, CallInv, Watches, Closing
      <3> QED BY <3>2, <3>4, <3>5 DEF CallInv
    <2>3. Leaves'
      BY <1>1 DEF vars, Inv, Leaves
    <2>4. Slots'
      BY <1>1 DEF vars, Inv, Slots, Closing
    <2> QED BY <2>1, <2>2, <2>3, <2>4 DEF Inv
  <1>2. CASE Next
    BY <1>1, <1>2, StepOfOne, GoodStep
  <1> QED BY <1>1, <1>2

\* Inv, which says what each call may rely on, holds in every reachable state.
THEOREM Invariance == Spec => []Inv
  <1> QED BY InitInv, StepInv, PTL DEF Spec

\* No call of Chan, Seal, leafOf, valueChan or sealValue ever follows a nil
\* pointer, and every pointer points at an object of its type.
THEOREM TypeCorrect == Spec => []TypeOK
  <1>1. Inv => TypeOK
    BY DEF Inv
  <1> QED BY <1>1, Invariance, PTL

\* Seal never closes a channel twice, however many Notifiers meet on a slot.
THEOREM ClosedOnce == Spec => []NeverClosedTwice
  <1>1. ASSUME Inv PROVE NeverClosedTwice
    <2>1. ASSUME NEW x \in Cell PROVE closed[x] <= 1
      BY <1>1, Places DEF Inv, Slots
    <2> QED BY <2>1 DEF NeverClosedTwice
  <1> QED BY <1>1, Invariance, PTL

\* leafOf, valueChan and sealValue agree: all published nodes that hold the
\* value name one leaf.
THEOREM OneLeaf == Spec => []OneIdentity
  <1>1. Inv => OneIdentity
    BY DEF Inv, TypeOK, Leaves, OneIdentity
  <1> QED BY <1>1, Invariance, PTL

\* A watcher of something sealed holds a channel that is closed, or that a Seal
\* which is under way is about to close.
THEOREM Wakeup == Spec => []NoLostWakeup
  <1>1. ASSUME Inv PROVE NoLostWakeup
    <2>1. ASSUME NEW s \in Sealer, NEW w \in Watcher,
                 Returned(s), Returned(w), Same(s, w)
          PROVE  \/ Fired(w)
                 \/ \E t \in Sealer : pc[t] = "close" /\ cell[t] = cell[w]
      <3>1. s \in Call /\ w \in Call /\ pc[s] = "done" /\ pc[w] = "done"
        BY <2>1, Places DEF Returned
      <3>2. obj[s] = obj[w]
        <4>1. Role(s) /\ Role(w)
          BY <1>1, <3>1, Before
        <4>2. /\ kind[s] = kind[w] /\ kind[s] \in {"node", "value"}
              /\ kind[s] = "node" => node[s] = node[w]
          BY <1>1, <2>1, <3>1, Before DEF Same
        <4>3. pc[s] \notin LeafPc /\ pc[w] \notin LeafPc
          BY <3>1 DEF LeafPc
        <4> QED BY <4>1, <4>2, <4>3 DEF Role
      <3>3. slot[obj[w]] = SealedCell
        BY <1>1, <3>1, <3>2, Before DEF Seals
      <3>4. cell[w] \in Cell
        BY <1>1, <3>1, Before DEF Watches
      <3>5. \/ cell[w] = SealedCell \/ closed[cell[w]] = 1
            \/ \E t \in Sealer : Closing(t, cell[w])
        BY <1>1, <3>1, <3>3, Before DEF Watches
      <3>6. closed[SealedCell] = 1 /\ cell[w] # Nil
        BY <1>1, <3>4, Places, CellNames DEF Inv, Slots
      <3>7. CASE cell[w] = SealedCell \/ closed[cell[w]] = 1
        BY <3>6, <3>7 DEF Fired
      <3>8. CASE \E t \in Sealer : Closing(t, cell[w])
        BY <3>8 DEF Closing
      <3> QED BY <3>5, <3>7, <3>8
    <2> QED BY <2>1 DEF NoLostWakeup
  <1> QED BY <1>1, Invariance, PTL

\* A watcher's channel is closed only after somebody sealed the very thing it
\* watches, although all late watchers share the channel of sealedCell.
THEOREM Alarm == Spec => []NoFalseAlarm
  <1>1. ASSUME Inv PROVE NoFalseAlarm
    <2>1. ASSUME NEW w \in Watcher, Returned(w), Fired(w)
          PROVE  \E s \in Sealer : Same(s, w) /\ pc[s] \in {"close", "done"}
      <3>1. w \in Call /\ pc[w] = "done"
        BY <2>1, Places DEF Returned
      <3>2. obj[w] \in Object /\ kind[w] \in {"node", "value"}
        BY <1>1, <3>1, Facts, Before DEF Role, LeafPc
      <3>3. slot[obj[w]] = SealedCell
        <4>1. CASE slot[obj[w]] = cell[w]
          <5>1. cell[w] \in Open => closed[cell[w]] = 0
            BY <1>1, <3>2, <4>1 DEF Inv, Slots
          <5>2. cell[w] \in Cell /\ closed[cell[w]] > 0
            BY <1>1, <2>1, <3>1, Before DEF Watches, Fired
          <5> QED BY <4>1, <5>1, <5>2, Places
        <4> QED BY <1>1, <3>1, <4>1, Before DEF Watches
      <3>4. CASE obj[w] # SealedLeaf
        <4>1. PICK s \in Sealer : obj[s] = obj[w] /\ pc[s] \in {"close", "done"}
          BY <1>1, <3>2, <3>3, <3>4 DEF Inv, Slots
        <4>2. s \in Call /\ kind[s] \in {"node", "value"}
          BY <1>1, <4>1, Places, Before DEF Role
        <4>3. /\ kind[s] = "node" => obj[s] = Own(node[s])
              /\ kind[w] = "node" => obj[w] = Own(node[w])
              /\ kind[s] = "value" => obj[s] = leaf[Root] /\ leaf[Root] \in Leaf
              /\ kind[w] = "value" => obj[w] = leaf[Root] /\ leaf[Root] \in Leaf
              /\ node[s] \in Node /\ node[w] \in Node
          BY <1>1, <3>1, <4>1, <4>2, Before, Places DEF Role, LeafPc
        <4>4. \A n \in Node : Own(n) \notin Leaf
          BY LeafNames DEF Leaf
        <4> QED BY <3>2, <4>1, <4>2, <4>3, <4>4, LeafNames DEF Same
      <3>5. CASE obj[w] = SealedLeaf
        <4>1. kind[w] = "value" /\ leaf[Root] = SealedLeaf
          BY <1>1, <3>1, <3>2, <3>5, Before, LeafNames DEF Role, LeafPc
        <4>2. PICK s \in Sealer : kind[s] = "value" /\ pc[s] = "done"
          BY <1>1, <4>1 DEF Inv, Leaves
        <4> QED BY <4>1, <4>2 DEF Same
      <3> QED BY <3>4, <3>5
    <2> QED BY <2>1 DEF NoFalseAlarm
  <1> QED BY <1>1, Invariance, PTL

\* "A slot moves in one direction only", and the first leaf in a node stays.
THEOREM Directed == Spec => OneWay
  <1>1. ASSUME Inv, [Next]_vars PROVE Forward \/ UNCHANGED vars
    <2>1. CASE UNCHANGED vars
      BY <2>1
    <2>2. ASSUME NEW c \in Call, Good(c) PROVE Forward
      <3>1. Legal(c) /\ Slides(c)
        BY <2>2 DEF Good
      <3>2. \A n \in Node : leaf[n] # Nil => leaf'[n] = leaf[n]
        BY <3>1 DEF Legal
      <3>3. \A o \in Object :
               /\ slot[o] # Nil => slot'[o] \in {slot[o], SealedCell}
               /\ slot[o] = SealedCell => slot'[o] = SealedCell
        BY <1>1, <3>1, SlotMoves
      <3> QED BY <3>2, <3>3 DEF Forward
    <2> QED BY <1>1, <2>1, <2>2, StepOfOne
  <1> QED BY <1>1, Invariance, PTL DEF Spec, OneWay
=============================================================================
