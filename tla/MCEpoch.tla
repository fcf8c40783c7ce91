------------------------------ MODULE MCEpoch ------------------------------
(* Epoch for TLC: the objects of a pool are interchangeable.               *)
EXTENDS Epoch, TLC

ObjectSymmetry == Permutations(Objects)
=============================================================================
