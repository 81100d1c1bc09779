------------------------------- MODULE MCPipe -------------------------------
(* A small instance of Pipe for TLC; the processes of a side are           *)
(* interchangeable.                                                        *)
EXTENDS Pipe, TLC

Symmetry == Permutations(Readers) \union Permutations(Writers)
=============================================================================
