---------------------------- MODULE MCAttachments ----------------------------
(* SetAttachments with two items, listed one on a page where there are pages. *)
EXTENDS SetAttachments

MCItems == 1 .. 2
=============================================================================
