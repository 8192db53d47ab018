---------------------------- MODULE MCH2Scheduler ----------------------------
(* A ring with one entry, so that every closing stream evicts the last.    *)
(* Larger weights than the run can afford are tried on Share alone.        *)
EXTENDS H2Scheduler, TLC
CONSTANT r1
McRing == <<r1>>
Symmetry == Permutations(OfStreams)

SampleWeights == {1, 2, 3, 7, 16, 100, 220, 255, 256, 257}

ASSUME SharesOfSamples ==
    \A w, c, d, e \in SampleWeights :
        /\ Proportional(Share(w, c, c), w, c, c)
        /\ Proportional(Share(w, c + d, c), w, c + d, c)
        /\ Proportional(Share(w, c + d + e, c), w, c + d + e, c)
==============================================================================
