------------------------------ MODULE WireOrder ------------------------------
(***************************************************************************)
(* What the ingress layer promises the LSP handlers, without tickets:      *)
(* requests arrive in wire order, a handler may run once every writer      *)
(* (didOpen, didChange, didSave, didClose) of the same document that       *)
(* preceded it on the wire is over, and every request is answered.         *)
(*                                                                         *)
(* IngressOrder refines this module.                                       *)
(***************************************************************************)
EXTENDS Naturals, Sequences

CONSTANTS Uri,          \* the documents
          MaxRequests   \* bound on the requests received

VARIABLES wire,         \* the requests, in the order the transport delivered them
          pc            \* how far each one is

vars == <<wire, pc>>

WriterKind == {"open", "change", "save", "close"}
Kind == WriterKind \cup {"reader"}

Waiting == "waiting"
Running == "running"
Finished == {"done", "dropped"}

IsWriter(m) == m.kind \in WriterKind

\* Every writer of r's document that precedes r on the wire is over.
PredecessorsOver(r) ==
  \A q \in 1..(r - 1) :
    IsWriter(wire[q]) /\ wire[q].uri = wire[r].uri => pc[q] \in Finished

Init == wire = <<>> /\ pc = <<>>

Receive(k, u) ==
  /\ Len(wire) < MaxRequests
  /\ wire' = Append(wire, [kind |-> k, uri |-> u])
  /\ pc' = Append(pc, Waiting)

Start(r) ==
  /\ pc[r] = Waiting
  /\ PredecessorsOver(r)
  /\ pc' = [pc EXCEPT ![r] = Running]
  /\ UNCHANGED wire

Finish(r) ==
  /\ pc[r] = Running
  /\ pc' = [pc EXCEPT ![r] = "done"]
  /\ UNCHANGED wire

\* The transport drops the handler's future: before its turn or while it runs.
Drop(r) ==
  /\ pc[r] \in {Waiting, Running}
  /\ pc' = [pc EXCEPT ![r] = "dropped"]
  /\ UNCHANGED wire

Next ==
  \/ \E k \in Kind, u \in Uri : Receive(k, u)
  \/ \E r \in 1..Len(wire) : Start(r) \/ Finish(r) \/ Drop(r)

Safety == Init /\ [][Next]_vars

Progress(r) == r \in 1..Len(wire) /\ (Start(r) \/ Finish(r))

Spec == Safety /\ \A r \in 1..MaxRequests : WF_vars(Progress(r))

(* Every request that was received is eventually over: no document's queue *)
(* wedges, whatever is dropped, closed and reopened in between.            *)
EveryRequestIsOver ==
  \A r \in 1..MaxRequests :
    (Len(wire) >= r) ~> (Len(wire) >= r /\ pc[r] \in Finished)
=============================================================================
