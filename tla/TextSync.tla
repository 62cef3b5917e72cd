------------------------------- MODULE TextSync -------------------------------
(***************************************************************************)
(* What the bridge promises one language server process about the virtual  *)
(* documents it is given, as the Language Server Protocol demands it:      *)
(* didOpen only of a document that is closed, didChange only of one that   *)
(* is open and always with a greater version.  A didClose may be repeated  *)
(* (close_scratch_document: "a harmless duplicate close").  A new process  *)
(* has nothing open.                                                       *)
(*                                                                         *)
(* VirtualDocuments refines this module.                                   *)
(***************************************************************************)
EXTENDS Naturals

CONSTANTS Doc,        \* the virtual documents
          Text,       \* their contents
          NoText,
          MaxVersion  \* bound on the versions explored

VARIABLE server       \* server[d]: the process's copy of d

Version == 1..MaxVersion
Closed == [version |-> 0, text |-> NoText]
Copy == {Closed} \cup [version : Version, text : Text]

Init == server = [d \in Doc |-> Closed]

DidOpen(d) ==
  /\ server[d] = Closed
  /\ \E t \in Text : server' = [server EXCEPT ![d] = [version |-> 1, text |-> t]]

DidChange(d) ==
  /\ server[d] # Closed
  /\ \E v \in Version, t \in Text :
       /\ v > server[d].version
       /\ server' = [server EXCEPT ![d] = [version |-> v, text |-> t]]

DidClose(d) == server' = [server EXCEPT ![d] = Closed]

Restart == server' = [d \in Doc |-> Closed]

Next ==
  \/ \E d \in Doc : DidOpen(d) \/ DidChange(d) \/ DidClose(d)
  \/ Restart

Spec == Init /\ [][Next]_server
=============================================================================
