-------------------------- MODULE MCArmController --------------------------
EXTENDS ArmController, TLC

Slots == Permutations(Tasks)
=============================================================================
