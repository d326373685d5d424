--------------------------- MODULE MCFloodIREPLY ---------------------------
(* FloodIREPLY on four nodes, two of which reply to each other.            *)
EXTENDS FloodIREPLY, MCRadio

MCReplies == {<<0, 3>>, <<3, 0>>}

=============================================================================
