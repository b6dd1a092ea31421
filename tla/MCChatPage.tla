----------------------------- MODULE MCChatPage -----------------------------
(* The instance of ChatPage for TLC; the texts are interchangeable. *)
EXTENDS ChatPage, TLC

CONSTANTS x, y

TextSymmetry == Permutations({x, y})

=============================================================================
