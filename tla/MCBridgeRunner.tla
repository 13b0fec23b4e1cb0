--------------------------- MODULE MCBridgeRunner ---------------------------
(***************************************************************************)
(* An instance of BridgeRunner for TLC: either stream can stay empty, fill *)
(* to its limit, or exceed it within a chunk; the reply fills stdout.      *)
(***************************************************************************)
EXTENDS BridgeRunner

SmallLimit    == [s \in Streams |-> 1]
SmallMaxBytes == [s \in Streams |-> 2]
=============================================================================
