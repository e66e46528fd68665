---------------------------- MODULE MCSQLiteStore ----------------------------
(***************************************************************************)
(* SQLiteStore for TLC.  Clients are interchangeable: no definition names  *)
(* one, and no property is temporal beyond a single step.                  *)
(***************************************************************************)
EXTENDS SQLiteStore, TLC

ClientSymmetry == Permutations(Clients)
=============================================================================
