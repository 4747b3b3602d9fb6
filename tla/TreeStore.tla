------------------------------ MODULE TreeStore ------------------------------
(***************************************************************************)
(* What the library promises its users (README.md, doc.go), without nodes: *)
(* a published tree is a map that never changes, a transaction is a        *)
(* private map that starts as a copy of a published one, and each call on  *)
(* it takes effect at once and returns what the map held.                  *)
(***************************************************************************)
EXTENDS Naturals, Sequences

CONSTANTS
    Key, Val,      \* keys, and the values Insert is called with
    Writer, Main   \* transactions; Main's commits become current

VARIABLES
    tree,    \* the published trees: a function from handles to maps
    current, \* the handle that Main published last
    open,    \* per writer: the map of its transaction, <<>> when it has none
    call,    \* per writer: the call in progress
    ret      \* per writer: what its last call returned

vars == <<tree, current, open, call, ret>>

NoVal == 0
NoCall == [name |-> "none", key |-> <<>>, val |-> NoVal]
Closed == <<>>
Under(p) == {k \in Key : Len(p) <= Len(k) /\ SubSeq(k, 1, Len(p)) = p}

Init ==
    /\ DOMAIN tree = {current}
    /\ open = [w \in Writer |-> Closed]
    /\ call = [w \in Writer |-> NoCall]
    /\ ret = [w \in Writer |-> NoVal]

Txn(w) ==
    /\ open[w] = Closed
    /\ \E t \in IF w = Main THEN {current} ELSE DOMAIN tree :
          open' = [open EXCEPT ![w] = tree[t]]
    /\ UNCHANGED <<tree, current, call, ret>>

\* The tree gets a handle t, and no handle is ever given to a second map.
Publish(w, t) ==
    /\ t \in DOMAIN tree => tree[t] = open[w]
    /\ tree' = [u \in DOMAIN tree \cup {t} |->
                  IF u = t THEN open[w] ELSE tree[u]]

Freeze(w, t) ==
    /\ call[w] = NoCall /\ open[w] # Closed
    /\ Publish(w, t)
    /\ UNCHANGED <<current, open, call, ret>>

Commit(w, t) ==
    /\ call[w] = NoCall /\ open[w] # Closed
    /\ Publish(w, t)
    /\ current' = IF w = Main THEN t ELSE current
    /\ open' = [open EXCEPT ![w] = Closed]
    /\ ret' = [ret EXCEPT ![w] = NoVal]
    /\ UNCHANGED call

Abort(w) ==
    /\ call[w] = NoCall /\ open[w] # Closed
    /\ open' = [open EXCEPT ![w] = Closed]
    /\ ret' = [ret EXCEPT ![w] = NoVal]
    /\ UNCHANGED <<tree, current, call>>

Call(w, name, k, v) ==
    /\ call[w] = NoCall /\ open[w] # Closed
    /\ call' = [call EXCEPT ![w] = [name |-> name, key |-> k, val |-> v]]
    /\ ret' = [ret EXCEPT ![w] = NoVal]
    /\ UNCHANGED <<tree, current, open>>

Effect(w) ==
    /\ LET c == call[w]
           old == open[w]
       IN  \/ /\ c.name = "Insert"
              /\ open' = [open EXCEPT ![w][c.key] = c.val]
              /\ ret' = [ret EXCEPT ![w] = old[c.key]]
           \/ /\ c.name = "Delete"
              /\ open' = [open EXCEPT ![w][c.key] = NoVal]
              /\ ret' = [ret EXCEPT ![w] = old[c.key]]
           \/ /\ c.name = "DeletePrefix"
              /\ open' = [open EXCEPT ![w] =
                    [k \in Key |-> IF k \in Under(c.key) THEN NoVal
                                                         ELSE old[k]]]
              /\ ret' = [ret EXCEPT ![w] =
                    IF \/ c.key = <<>>
                       \/ \E k \in Under(c.key) : old[k] # NoVal
                    THEN 1 ELSE 0]
    /\ call' = [call EXCEPT ![w] = NoCall]
    /\ UNCHANGED <<tree, current>>

Next == \E w \in Writer :
    \/ Txn(w) \/ Abort(w) \/ Effect(w)
    \/ \E t \in DOMAIN tree' : Freeze(w, t) \/ Commit(w, t)
    \/ \E k \in Key, v \in Val : Call(w, "Insert", k, v)
    \/ \E k \in Key :
          Call(w, "Delete", k, NoVal)
          \/ Call(w, "DeletePrefix", k, NoVal)

Spec == Init /\ [][Next]_vars
=============================================================================
