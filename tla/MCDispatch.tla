----------------------------- MODULE MCDispatch -----------------------------
(* Model checking of Dispatch on small pools.                              *)
EXTENDS Dispatch, TLC

\* The descriptors are interchangeable: accept may return any of them.
FdSymmetry == Permutations(Fds)
=============================================================================
