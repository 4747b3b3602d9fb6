----------------------------- MODULE MCWatchSlot -----------------------------
(* Small instances of WatchSlot for TLC: calls are interchangeable. *)
EXTENDS WatchSlot, TLC

Symmetry == Permutations(Copier) \cup Permutations(Watcher)
            \cup Permutations(Sealer)
=============================================================================
