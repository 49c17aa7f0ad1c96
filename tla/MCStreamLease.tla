---------------------------- MODULE MCStreamLease ----------------------------
(* Instances of StreamLease for TLC.                                        *)
EXTENDS StreamLease, TLC

LeaseSymmetry == Permutations(Workers) \cup Permutations(Streams)
=============================================================================
