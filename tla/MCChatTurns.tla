--------------------------- MODULE MCChatTurns ---------------------------
(* Instance of ChatTurns for TLC; requests are interchangeable.              *)
EXTENDS ChatTurns, TLC

Symmetry == Permutations(Turns)
=============================================================================
