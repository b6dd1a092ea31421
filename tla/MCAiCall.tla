------------------------------ MODULE MCAiCall ------------------------------
(* The instance of AiCall for TLC is given by ai_call.cfg alone. *)
EXTENDS AiCall

=============================================================================
