--------------------------- MODULE MCRaftElection ---------------------------
(* Instances of RaftElection for TLC: the symmetry and memberships of small zones. *)
EXTENDS RaftElection, TLC

Symmetry == Permutations(Node)

=============================================================================
