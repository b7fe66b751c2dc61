------------------------------ MODULE MCGarage ------------------------------
EXTENDS Garage, TLC
CarSymmetry == Permutations(Uids)
=============================================================================
