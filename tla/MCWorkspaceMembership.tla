----------------------- MODULE MCWorkspaceMembership -----------------------
(* Instances of WorkspaceMembership for TLC.                                 *)
EXTENDS WorkspaceMembership, TLC

(* Users but the owner, requests and invitations are interchangeable; no     *)
(* liveness is checked with this.                                            *)
Symmetry ==
    Permutations(Users \ {Owner}) \cup Permutations(Requests) \cup Permutations(Invites)
=============================================================================
