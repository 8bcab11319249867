----------------------------- MODULE MCDispatch -----------------------------
EXTENDS DispatchInv, TLC
FdSymmetry == Permutations(Fds)
=============================================================================
