----------------------------- MODULE MCChildren -----------------------------
(* A small instance of Children for TLC. *)
EXTENDS Children
=============================================================================
