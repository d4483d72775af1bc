--------------------------- MODULE MCRenderQueue ---------------------------
(* Small instances of RenderQueue and MendingPush for TLC. *)
EXTENDS MendingPush, TLC

ProducerSymmetry == Permutations(Producers)
=============================================================================
