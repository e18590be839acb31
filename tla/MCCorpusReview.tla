--------------------------- MODULE MCCorpusReview ---------------------------
(* Instances of CorpusReview for TLC.                                      *)
EXTENDS CorpusReview, TLC

MCOneJob == 1 .. 1

\* Both processes run on one host and so share the hostname as worker id.
MCSharedHost == [p \in Procs |-> "host"]

\* Processes and requests are interchangeable.
MCSymmetry == Permutations(Procs) \cup Permutations(Requests)

MCDistinctRefs == [j \in Jobs |-> <<"d1", "d2">>]
MCRepeatedRefs == [j \in Jobs |-> <<"d1", "d2", "d1">>]
=============================================================================
