--------------------------- MODULE MCMessageStream ---------------------------
(* Small instances of MessageStream: calls c1 and c2 of one actor.          *)
EXTENDS MessageStream

CONSTANTS c1, c2, m1, s1
==============================================================================
