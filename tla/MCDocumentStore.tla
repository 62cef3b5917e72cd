---- MODULE MCDocumentStore ----
(* Two passes at once: every race here is between one pass and either the  *)
(* handlers or one other pass.  There is one language, whose grammar a     *)
(* reload replaces.                                                        *)
EXTENDS DocumentStore, TLC

CONSTANTS p1, p2, rust   \* model values

TwoPasses == {p1, p2}
AnyPass == Permutations(TwoPasses)
OnlyRust == {rust}
NoLanguages == {}
RustLoaded == {{rust}}
RustOrNone == {{rust}, {}}
====
