--------------------------- MODULE MCVersionCache ---------------------------
(* Instances of VersionCache for TLC. *)
EXTENDS VersionCache, TLC

ActorSymmetry == Permutations(Requests) \cup Permutations(Writers)
=============================================================================
