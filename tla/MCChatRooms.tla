---------------------------- MODULE MCChatRooms ----------------------------
(* Instances of ChatRooms for TLC: users are ordered, requests and rooms are *)
(* interchangeable.                                                          *)
EXTENDS ChatRooms, TLC

MCUsers == 1 .. 3
MCSymmetry == Permutations(Requests) \cup Permutations(Rooms)
=============================================================================
