----------------------------- MODULE MCToolGate -----------------------------
EXTENDS ToolGate, TLC

CallSymmetry == Permutations(Calls)

=============================================================================
