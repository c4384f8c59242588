----------------------------- MODULE MCNicRing -----------------------------
(* Two frames; Intel rings of three and four descriptors, told to the card in *)
(* batches of two, and Realtek rings of two and three.                        *)
EXTENDS NicRing

CONSTANTS f1, f2

=============================================================================
