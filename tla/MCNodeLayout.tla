---------------------------- MODULE MCNodeLayout ----------------------------
(* A small instance of NodeLayout for TLC. *)
EXTENDS NodeLayout

\* One label each, and together three children below the first byte.
Keys3 == {<<3, 4, 15, 0, 4, 4, 8>>, <<3, 8, 15, 4, 0, 0, 3>>,
          <<3, 0, 4, 4, 4, 4, 4>>}
=============================================================================
