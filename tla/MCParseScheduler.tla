---- MODULE MCParseScheduler ----
(* Two loop slots, one more than the document should ever use.             *)
EXTENDS ParseScheduler, TLC

CONSTANTS l1, l2

TwoLoops == {l1, l2}
AnyLoop == Permutations(TwoLoops)
====
