--------------------------- MODULE MCTwinBuffer ---------------------------
(* Buffers of two words, a file of up to five: three loads, a short last one. *)
EXTENDS TwinBuffer
=============================================================================
