---------------------------- MODULE MCDataImport ----------------------------
(* Instances of DataImport for TLC: the constants are given in the configs. *)
EXTENDS DataImport
=============================================================================
