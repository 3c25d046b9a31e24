----------------------------- MODULE MCPosScreen -----------------------------
EXTENDS PosScreen, TLC
CONSTANT p1
TwentyPercent == p1 :> 20
Symmetric == Permutations(Slots) \cup Permutations(Shifts)
=============================================================================
