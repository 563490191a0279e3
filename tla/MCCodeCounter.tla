---------------------------- MODULE MCCodeCounter ----------------------------
(* Instances of CodeCounter for TLC. *)
EXTENDS CodeCounter, TLC

Site(c, b) == [co |-> c, br |-> b]

(* One company with two branches, and with one.                            *)
TwoBranches == {Site("c1", "b1"), Site("c1", "b2")}
OneBranch == {Site("c1", "b1")}

NoSeed == << >>
SeededCompany == 1 :> Partition(Site("c1", "b1"), 1)

TxnSymmetry == Permutations(Txns)
=============================================================================
