----------------------------- MODULE MCSession -----------------------------
(* Small instances of Session for TLC.                                     *)
EXTENDS SessionPromise

\* The calls are interchangeable, and so are the messages the router pushes.
Symmetry == Permutations(Ops) \cup Permutations(Pushes)
=============================================================================
