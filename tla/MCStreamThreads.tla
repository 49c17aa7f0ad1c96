--------------------------- MODULE MCStreamThreads ---------------------------
(* Instances of StreamThreads for TLC.                                      *)
EXTENDS StreamThreads, TLC

\* Threads are interchangeable; used by the safety run only.
ThreadSymmetry == Permutations(Threads)
=============================================================================
