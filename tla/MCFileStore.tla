----------------------------- MODULE MCFileStore -----------------------------
(* Writers are interchangeable.                                            *)
EXTENDS FileStore, TLC

Symmetry == Permutations(Writers)
=============================================================================
