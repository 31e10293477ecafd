---------------------------- MODULE MCMesgQueue ----------------------------
(* One message queue, its callers and its posts, for TLC.                  *)
EXTENDS MesgQueue, TLC

CONSTANTS t1, t2, t3, m1, m2, m3, m4

\* Threads and tokens are interchangeable: nothing orders or names them.
ThreadSymmetry == Permutations(Thread) \union Permutations(Msg)
=============================================================================
