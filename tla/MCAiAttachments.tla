--------------------------- MODULE MCAiAttachments ---------------------------
(* AiAttachments for TLC. *)
EXTENDS AiAttachments
=============================================================================
