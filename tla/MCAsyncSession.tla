--------------------------- MODULE MCAsyncSession ---------------------------
(* Small instances of AsyncSession for TLC.                                *)
EXTENDS AsyncSession, TLC

\* The calls are interchangeable.
Symmetry == Permutations(Ops)
=============================================================================
