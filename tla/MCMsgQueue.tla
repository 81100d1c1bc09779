----------------------------- MODULE MCMsgQueue -----------------------------
(* A small instance of MsgQueue for TLC; processes are interchangeable.    *)
EXTENDS MsgQueue, TLC

Symmetry == Permutations(Proc)
=============================================================================
