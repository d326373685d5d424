--------------------------- MODULE MCFloodIGROUP ---------------------------
(* FloodIGROUP on four nodes.                                              *)
EXTENDS FloodIGROUP, MCRadio

=============================================================================
