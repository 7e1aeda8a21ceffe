--------------------------- MODULE MCAttachments ----------------------------
(* An instance of Attachments for TLC. *)
EXTENDS Attachments, TLC

CONSTANTS a1, a2, m1, m2, m3, e1, w1, w2

MCSymmetry == Permutations(Workers) \cup Permutations(Uploads) \cup Permutations(Messages)
=============================================================================
