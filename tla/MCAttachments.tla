--------------------------- MODULE MCAttachments ---------------------------
(***************************************************************************)
(* Instance of Attachments for TLC: requests are alike.                    *)
(***************************************************************************)
EXTENDS Attachments, TLC

Symmetry == Permutations(Requests)
=============================================================================
