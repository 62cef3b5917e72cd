----------------------------- MODULE IngressOrder -----------------------------
(***************************************************************************)
(* lsp/ingress_order.rs: the middleware in front of the LSP handlers.      *)
(*                                                                         *)
(* `call` runs synchronously in wire order: it gives a writer the next     *)
(* ticket of its document, and a reader the tail to wait for.  The future  *)
(* it returns is polled later, in any order: it waits, runs the handler,   *)
(* marks its ticket complete (also when it is dropped), and a didClose, or *)
(* a didSave that found no document, removes the document's entry when no  *)
(* later writer was ticketed.  A writer's completion and the removal are   *)
(* one synchronous stretch of one future: one action here.                 *)
(*                                                                         *)
(* An entry's DocSeq outlives its removal from the map (its gates and      *)
(* barriers still hold the completion channel), so `seqs` keeps every one  *)
(* ever allocated and `docs` names the one in the map.                     *)
(***************************************************************************)
EXTENDS Naturals, Sequences

CONSTANTS Uri,          \* the documents
          MaxRequests   \* bound on the requests received

ASSUME IngressAssumption == MaxRequests \in Nat

VARIABLES
  wire,      \* requests in wire order: [kind, uri]
  pc,        \* pc[r]: how far request r's future is
  gate,      \* gate[r]: [seq, ticket], what `call` gave request r
  seqs,      \* every DocSeq allocated: [tail, done, early]
  docs,      \* docs[u]: the DocSeq in the map for u, 0 when there is none
  open       \* open[u]: the document store has u (the handlers' effect)

vars == <<wire, pc, gate, seqs, docs, open>>

WriterKind == {"open", "change", "save", "close"}
Kind == WriterKind \cup {"reader"}
Finished == {"done", "dropped"}

IsWriter(r) == wire[r].kind \in WriterKind

-----------------------------------------------------------------------------
(* DocumentSequencer *)

FreshSeq == [tail |-> 0, done |-> 0, early |-> {}]

(* DocumentSequencer::next_ticket.                                         *)
NextTicket(s) == [tail |-> s.tail + 1, done |-> s.done, early |-> s.early]

\* Mutant: a ticket completed out of turn counts for those before it.
CompletionsJump(s, t) ==
  { [tail |-> s.tail, done |-> IF t > s.done THEN t ELSE s.done, early |-> {}] }

\* Mutant: a ticket completed out of turn is not remembered.
CompletionsForget(s, t) ==
  { [tail |-> s.tail, done |-> IF t = s.done + 1 THEN t ELSE s.done, early |-> {}] }

(* DocCompletion::complete.  `done` passes a ticket only when everything   *)
(* before it is complete; the others wait in `early`.  The set has exactly *)
(* one member: m is where the cascade stops.                               *)
Completions(s, t) ==
  IF t = s.done + 1
    THEN { [tail |-> s.tail, done |-> m, early |-> s.early \ (t..m)] :
             m \in { n \in t..s.tail :
                       (t + 1)..n \subseteq s.early /\ (n + 1) \notin s.early } }
    ELSE { [tail |-> s.tail, done |-> s.done,
            early |-> IF t > s.done THEN s.early \cup {t} ELSE s.early] }

(* The channel's sender lives in the map's entry and in every gate.        *)
SenderDropped(g) ==
  /\ \A u \in Uri : docs[u] # g
  /\ \A q \in 1..Len(wire) :
       IsWriter(q) /\ gate[q].seq = g => pc[q] \in Finished

\* Mutant: a writer waits for its own completion.
TurnCameTooLate(r) ==
  LET g == gate[r] IN
  IF IsWriter(r)
    THEN seqs[g.seq].done >= g.ticket
    ELSE g.ticket > 0 => seqs[g.seq].done >= g.ticket

(* WriterGate::wait_turn and ReaderBarrier::wait.  A gate holds a sender   *)
(* itself; a reader with nothing to wait for has ticket 0.                 *)
TurnCame(r) ==
  LET g == gate[r] IN
  IF IsWriter(r)
    THEN seqs[g.seq].done >= g.ticket - 1
    ELSE g.ticket > 0 => \/ seqs[g.seq].done >= g.ticket
                         \/ SenderDropped(g.seq)

-----------------------------------------------------------------------------
Init ==
  /\ wire = <<>> /\ pc = <<>> /\ gate = <<>> /\ seqs = <<>>
  /\ docs = [u \in Uri |-> 0]
  /\ open = [u \in Uri |-> FALSE]

Receive(k, u) ==
  /\ Len(wire) < MaxRequests
  /\ wire' = Append(wire, [kind |-> k, uri |-> u])
  /\ pc' = Append(pc, "waiting")
  /\ UNCHANGED open

(* issue_writer_ticket on a document that has an entry.                    *)
CallWriter(k, u) ==
  LET g == docs[u] IN
  /\ g # 0
  /\ Receive(k, u)
  /\ seqs' = [seqs EXCEPT ![g] = NextTicket(@)]
  /\ gate' = Append(gate, [seq |-> g, ticket |-> seqs[g].tail + 1])
  /\ UNCHANGED docs

\* Mutant: the new entry's index is off by one.
CallFirstWriterOffByOne(k, u) ==
  /\ docs[u] = 0
  /\ Receive(k, u)
  /\ seqs' = Append(seqs, NextTicket(FreshSeq))
  /\ gate' = Append(gate, [seq |-> Len(seqs) + 1, ticket |-> 1])
  /\ docs' = [docs EXCEPT ![u] = Len(seqs) + 2]

(* issue_writer_ticket on one that has none: tickets start again at 1.     *)
CallFirstWriter(k, u) ==
  LET g == Len(seqs) + 1 IN
  /\ docs[u] = 0
  /\ Receive(k, u)
  /\ seqs' = Append(seqs, NextTicket(FreshSeq))
  /\ gate' = Append(gate, [seq |-> g, ticket |-> 1])
  /\ docs' = [docs EXCEPT ![u] = g]

(* reader_barrier_and_tail: no barrier without an entry, nor when every    *)
(* ticket issued so far is complete.                                       *)
CallReader(u) ==
  LET g == docs[u]
      pending == g # 0 /\ seqs[g].done < seqs[g].tail
  IN
  /\ Receive("reader", u)
  /\ gate' = Append(gate, [seq |-> g, ticket |-> IF pending THEN seqs[g].tail ELSE 0])
  /\ UNCHANGED <<seqs, docs>>

(* The future is polled past its wait: the handler starts.                 *)
Start(r) ==
  /\ pc[r] = "waiting"
  /\ TurnCame(r)
  /\ pc' = [pc EXCEPT ![r] = "running"]
  /\ UNCHANGED <<wire, gate, seqs, docs, open>>

(* What the handler leaves in the document store.                          *)
OpenAfter(k, was) ==
  CASE k = "open" -> TRUE
    [] k = "close" -> FALSE
    [] OTHER -> was

\* Mutant: a didClose of a document that is not open reclaims nothing.
ReclaimsIfOpen(r) == wire[r].kind \in {"close", "save"} /\ open[wire[r].uri]

(* finish_close is called: after a didClose, and after a didSave whose     *)
(* handler found no document.                                              *)
Reclaims(r) ==
  \/ wire[r].kind = "close"
  \/ wire[r].kind = "save" /\ ~open[wire[r].uri]

\* Mutant: the entry is removed whatever was ticketed meanwhile.
FinishCloseAlways(u, t) == [docs EXCEPT ![u] = 0]

(* finish_close: remove_if no later writer holds a ticket.                 *)
FinishClose(u, t) ==
  IF docs[u] # 0 /\ seqs[docs[u]].tail = t
    THEN [docs EXCEPT ![u] = 0]
    ELSE docs

(* The handler returns: drop(gate), then finish_close.                     *)
FinishWriter(r) ==
  LET u == wire[r].uri
      g == gate[r]
  IN
  /\ pc[r] = "running" /\ IsWriter(r)
  /\ pc' = [pc EXCEPT ![r] = "done"]
  /\ open' = [open EXCEPT ![u] = OpenAfter(wire[r].kind, @)]
  /\ \E s \in Completions(seqs[g.seq], g.ticket) :
       seqs' = [seqs EXCEPT ![g.seq] = s]
  /\ docs' = IF Reclaims(r) THEN FinishClose(u, g.ticket) ELSE docs
  /\ UNCHANGED <<wire, gate>>

FinishReader(r) ==
  /\ pc[r] = "running" /\ ~IsWriter(r)
  /\ pc' = [pc EXCEPT ![r] = "done"]
  /\ UNCHANGED <<wire, gate, seqs, docs, open>>

(* A writer's future is dropped, waiting or running: the gate's Drop       *)
(* completes the ticket, and finish_close is never reached.  A running     *)
(* handler is dropped before or after it changed the store.                *)
DropWriter(r) ==
  LET u == wire[r].uri
      g == gate[r]
  IN
  /\ pc[r] \in {"waiting", "running"} /\ IsWriter(r)
  /\ pc' = [pc EXCEPT ![r] = "dropped"]
  /\ \/ UNCHANGED open
     \/ /\ pc[r] = "running"
        /\ open' = [open EXCEPT ![u] = OpenAfter(wire[r].kind, @)]
  /\ \E s \in Completions(seqs[g.seq], g.ticket) :
       seqs' = [seqs EXCEPT ![g.seq] = s]
  /\ UNCHANGED <<wire, gate, docs>>

DropReader(r) ==
  /\ pc[r] \in {"waiting", "running"} /\ ~IsWriter(r)
  /\ pc' = [pc EXCEPT ![r] = "dropped"]
  /\ UNCHANGED <<wire, gate, seqs, docs, open>>

Next ==
  \/ \E u \in Uri : \/ \E k \in WriterKind : CallWriter(k, u) \/ CallFirstWriter(k, u)
                    \/ CallReader(u)
  \/ \E r \in 1..Len(wire) : \/ Start(r)
                             \/ FinishWriter(r) \/ FinishReader(r)
                             \/ DropWriter(r) \/ DropReader(r)

(* buffer_unordered polls every future it was given.                       *)
Progress(r) ==
  r \in 1..Len(wire) /\ (Start(r) \/ FinishWriter(r) \/ FinishReader(r))

Safety == Init /\ [][Next]_vars
Spec == Safety /\ \A r \in 1..MaxRequests : WF_vars(Progress(r))

-----------------------------------------------------------------------------
(* Types. *)
Seqs == [tail : Nat, done : Nat, early : SUBSET Nat]

TypeOK ==
  /\ wire \in Seq([kind : Kind, uri : Uri])
  /\ pc \in Seq({"waiting", "running"} \cup Finished)
  /\ gate \in Seq([seq : Nat, ticket : Nat])
  /\ seqs \in Seq(Seqs)
  /\ docs \in [Uri -> Nat]
  /\ open \in [Uri -> BOOLEAN]
  /\ Len(pc) = Len(wire) /\ Len(gate) = Len(wire)
  /\ \A u \in Uri : docs[u] <= Len(seqs)

(* A handler runs only when every writer of its document that preceded it  *)
(* on the wire is over: no didChange overtakes its didOpen, no reopen its  *)
(* didClose, and no reader snapshots a document missing an earlier edit.   *)
(* It must survive dropped futures (the ledger), a removal that races a    *)
(* later writer's ticket, and tickets that restart at 1.                   *)
NoOvertaking ==
  \A r \in 1..Len(wire), q \in 1..Len(wire) :
    /\ q < r /\ IsWriter(q) /\ wire[q].uri = wire[r].uri
    /\ pc[r] \in {"running", "done"}
    => pc[q] \in Finished

(* A document whose last writer was a didClose that ran to its end keeps   *)
(* no sequencing state, whatever was dropped before it and however its     *)
(* predecessors and successors were interleaved: entries do not accumulate *)
(* over open/close cycles.                                                 *)
ClosedEntryReclaimed ==
  \A r \in 1..Len(wire) :
    /\ wire[r].kind = "close" /\ pc[r] = "done"
    /\ \A q \in (r + 1)..Len(wire) : wire[q].uri = wire[r].uri => ~IsWriter(q)
    => docs[wire[r].uri] = 0

(* The entry of a document that is open, or that still has writers queued, *)
(* is never removed: a removal then would restart tickets at 1 beside the  *)
(* pending ones.                                                           *)
LiveEntryKept ==
  \A u \in Uri :
    \/ docs[u] # 0
    \/ /\ ~open[u]
       /\ \A q \in 1..Len(wire) : IsWriter(q) /\ wire[q].uri = u => pc[q] \in Finished

(* The map of sequencing state holds what is live and nothing else: both    *)
(* mistakes of a reclaim, too early and never.                             *)
EntriesAreExact == LiveEntryKept /\ ClosedEntryReclaimed

Wire == INSTANCE WireOrder
  WITH Uri <- Uri, MaxRequests <- MaxRequests, wire <- wire, pc <- pc

(* The tickets implement the wire order, and the waits are no stronger     *)
(* than it: whenever the promise lets a handler run, the gate opens.       *)
ImplementsWireOrder == Wire!Spec

(* Every request received is eventually over: no document's queue wedges   *)
(* behind a dropped future, a ticket completed out of turn or a removed    *)
(* entry, which would stall every later request for the document.          *)
EveryRequestIsOver == Wire!EveryRequestIsOver
=============================================================================
