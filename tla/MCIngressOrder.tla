---- MODULE MCIngressOrder ----
(* One document with four requests: sequencing is per document, and four   *)
(* are a removed entry, a straggler that holds it, and a fresh entry with  *)
(* a writer and a reader in it.                                            *)
EXTENDS IngressOrder, TLC

CONSTANTS u1

OneDocument == {u1}
====
