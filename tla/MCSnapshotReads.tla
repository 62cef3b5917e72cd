---- MODULE MCSnapshotReads ----
(* A reader beside two passes, over two languages, one declared by the     *)
(* settings and one that may have to be installed.                         *)
EXTENDS SnapshotReads, TLC

CONSTANTS p1, p2, rust, ruby   \* model values

TwoPasses == {p1, p2}
AnyPass == Permutations(TwoPasses)
BothLangs == {rust, ruby}
RustLoaded == {{rust}}
OnlyRuby == {ruby}
====
