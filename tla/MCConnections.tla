--------------------------- MODULE MCConnections ---------------------------
(* One document and one slot for commands, which is used again and again;  *)
(* a process and its replacement, and a claim more than there are debts.   *)
EXTENDS Connections

CONSTANTS d, c   \* model values

Docs == {d}
Commands1 == {c}
=============================================================================
