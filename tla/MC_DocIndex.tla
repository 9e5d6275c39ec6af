---------------------------- MODULE MC_DocIndex ----------------------------
(* DocIndex with a few files and interchangeable inodes and texts.          *)
EXTENDS DocIndex
Interchangeable == Permutations(Inode) \cup Permutations(Text)
=============================================================================
