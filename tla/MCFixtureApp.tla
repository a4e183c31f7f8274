---------------------------- MODULE MCFixtureApp ----------------------------
EXTENDS FixtureApp, TLC
CONSTANTS a, b
SlotSymmetry == Permutations(Slots)
MCPrice == [i \in Items |-> IF i = a THEN 3 ELSE 5]
=============================================================================
