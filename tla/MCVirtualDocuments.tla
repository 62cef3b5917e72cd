------------------------- MODULE MCVirtualDocuments -------------------------
EXTENDS VirtualDocuments, TLC

-----------------------------------------------------------------------------
(* The run of stale fingerprints, narrowed to passes that only forward and *)
(* to eager opens that end as soon as they are cancelled: each execution   *)
(* of it is one of the specification.                                      *)

AnyNames == Permutations(Pass) \cup Permutations(Eager) \cup Permutations(Text)

\* No region goes and no server is deselected.
RegionsStay ==
  \A p \in Pass : at'[p].pc = "closing" => at'[p].left = {} /\ at'[p].live = Doc

CancelledOpensEnd == \A e \in cancelled : at'[e] # at[e] => at'[e].pc = "done"

OnlyForwards == RegionsStay /\ CancelledOpensEnd
=============================================================================
