------------------------------ MODULE MCTrees ------------------------------
(* Iterators and reads on the trees of MCIter. *)
EXTENDS MCIter, TreeReads
=============================================================================
