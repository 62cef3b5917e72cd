--------------------------- MODULE MCBridgeRequests ---------------------------
(***************************************************************************)
(* Small instances of BridgeRequests.                                      *)
(***************************************************************************)
EXTENDS BridgeRequests

CONSTANTS a, p, r, u, none

OneUser == {a}
OnePeer == {p}
OneRouting == {r}
None == {}
OneUpstream == {u}

(* A shutdown and a peer's request are not explored together.              *)
Apart == shut' # "none" => \A q \in Peer : waiter'[q] = "new"
=============================================================================
