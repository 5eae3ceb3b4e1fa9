--------------------------- MODULE MCNodeRegistry ---------------------------
(* A tick of 15 s gives the code's own periods: TTL 2, cleanup 1, sync 2.  *)
EXTENDS NodeRegistry

MCCapSets == {{"cpu"}, {"cpu", "gpu"}}
=============================================================================
