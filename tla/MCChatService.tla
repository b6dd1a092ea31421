---------------------------- MODULE MCChatService ----------------------------
(* Instances of ChatService for TLC. *)
EXTENDS ChatService, TLC

CONSTANTS u1, u2, c1, c2, k1, d1

MCUsers == {u1, u2}
MCChats == {c1, c2}
MCCreators == {k1}
MCDeleters == {d1}

\* The two chats can be exchanged (no other constant names one of them).
ChatSymmetry == Permutations(MCChats)

=============================================================================
