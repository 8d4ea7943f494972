--------------------------- MODULE MCReviewInbox ---------------------------
(* ReviewInbox on small instances. *)
EXTENDS ReviewInbox
=============================================================================
