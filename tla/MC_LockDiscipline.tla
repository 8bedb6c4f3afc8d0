--------------------------- MODULE MC_LockDiscipline ---------------------------
(* Instantiates LockDiscipline for TLC; the constants are given in the      *)
(* lock_*.cfg files.                                                        *)
EXTENDS LockDiscipline
=============================================================================
