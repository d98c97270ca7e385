------------------------------ MODULE MCWorker ------------------------------
(* Worker for TLC: clients are interchangeable (no safety property names   *)
(* one), so states that differ in their names only are explored once.      *)
EXTENDS Worker, TLC

ClientSymmetry == Permutations(Client)
=============================================================================
