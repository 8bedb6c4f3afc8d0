--------------------------- MODULE MC_FileCache ---------------------------
(* Instantiates FileCache with a 2-byte page, a 2-page window and a       *)
(* 3-page file.  Each byte of the initial file is its own offset, so a    *)
(* byte taken from the wrong position is visible.                         *)
EXTENDS FileCache

MC_InitContent == [i \in 0 .. NOFF - 1 |-> i]
=============================================================================
