------------------------------- MODULE MCRpc -------------------------------
(* Small instances of Rpc for TLC. *)
EXTENDS Rpc

CONSTANTS main, sub

\* First and last pages of the blocks of lib/test.c, which opens i * 2^18 ...
BlockStarts == {0, BlockPages, 127 * BlockPages}
\* ... and pages the kernel may store to first.
AnyPages == {1, 255, BlockPages + 2, 128 * BlockPages - 1}
=============================================================================
