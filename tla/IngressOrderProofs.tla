-------------------------- MODULE IngressOrderProofs --------------------------
(***************************************************************************)
(* For any set of documents and any number of requests: the tickets keep   *)
(* the wire order and implement WireOrder.                                 *)
(*                                                                         *)
(* NoOvertaking says nothing about tickets, so it is not inductive.  IInv  *)
(* adds what the ledger means (Ledger), what an entry's removal relies on  *)
(* (Current, TurnTaken) and how tickets relate to the wire (WritersOrdered, *)
(* ReadersOrdered).                                                        *)
(***************************************************************************)
EXTENDS IngressOrder, TLAPS

Requests == 1..Len(wire)

(* Tickets are within what their DocSeq issued, and a DocSeq serves one    *)
(* document.                                                               *)
Issued ==
  \A r \in Requests : IsWriter(r) =>
    /\ gate[r].seq \in 1..Len(seqs)
    /\ gate[r].ticket \in 1..seqs[gate[r].seq].tail

SeqPerDocument ==
  /\ \A q, r \in Requests :
       IsWriter(q) /\ IsWriter(r) /\ gate[q].seq = gate[r].seq => wire[q].uri = wire[r].uri
  /\ \A u \in Uri, r \in Requests :
       IsWriter(r) /\ docs[u] = gate[r].seq => wire[r].uri = u
  /\ \A u, v \in Uri : docs[u] = docs[v] /\ docs[u] # 0 => u = v

(* A ticket is recorded, in `done` or in `early`, exactly when its writer  *)
(* is over.                                                                *)
Recorded(r) ==
  LET s == seqs[gate[r].seq] IN gate[r].ticket <= s.done \/ gate[r].ticket \in s.early

(* Nothing is recorded that was not issued.                                *)
Bounded ==
  \A h \in 1..Len(seqs) : \A n \in Nat :
    n <= seqs[h].done \/ n \in seqs[h].early => n <= seqs[h].tail

Ledger == \A r \in Requests : IsWriter(r) => (pc[r] \in Finished <=> Recorded(r))

TurnTaken ==
  \A r \in Requests :
    IsWriter(r) /\ pc[r] = "running" => gate[r].ticket <= seqs[gate[r].seq].done + 1

(* A writer that is not over belongs to the entry in the map.              *)
Current ==
  \A r \in Requests :
    IsWriter(r) /\ pc[r] \notin Finished => docs[wire[r].uri] = gate[r].seq

WritersOrdered ==
  \A q, r \in Requests :
    q < r /\ IsWriter(q) /\ IsWriter(r) /\ wire[q].uri = wire[r].uri
    => IF gate[q].seq = gate[r].seq
         THEN gate[q].ticket < gate[r].ticket
         ELSE pc[q] \in Finished

ReadersOrdered ==
  \A q, r \in Requests :
    q < r /\ IsWriter(q) /\ ~IsWriter(r) /\ wire[q].uri = wire[r].uri
    => \/ pc[q] \in Finished
       \/ gate[q].seq = gate[r].seq /\ gate[q].ticket <= gate[r].ticket

(* The last ticket of an entry is some writer's.                           *)
TailHeld ==
  \A u \in Uri : docs[u] # 0 =>
    \E q \in Requests : /\ IsWriter(q) /\ wire[q].uri = u
                        /\ gate[q].seq = docs[u]
                        /\ gate[q].ticket = seqs[docs[u]].tail

IInv == /\ TypeOK
        /\ Issued /\ SeqPerDocument /\ Bounded /\ Ledger /\ TurnTaken /\ Current
        /\ WritersOrdered /\ ReadersOrdered /\ TailHeld
-----------------------------------------------------------------------------
(* Completing ticket t of a DocSeq records t, keeps every other ticket as  *)
(* it was, and moves `done` forward only.                                  *)
LEMMA CompletionRecords ==
  ASSUME NEW s \in Seqs, NEW t \in 1..s.tail, NEW s2 \in Completions(s, t)
  PROVE  /\ s2 \in Seqs
         /\ s2.tail = s.tail
         /\ s2.done >= s.done
         /\ \A n \in Nat : n <= s2.done \/ n \in s2.early
                             <=> n = t \/ n <= s.done \/ n \in s.early
  <1>1. CASE t = s.done + 1
    <2>1. PICK m \in t..s.tail :
            /\ (t + 1)..m \subseteq s.early
            /\ s2 = [tail |-> s.tail, done |-> m, early |-> s.early \ (t..m)]
      BY <1>1 DEF Completions
    <2>2. m \in Nat /\ s.tail \in Nat /\ s.done \in Nat /\ s.early \subseteq Nat
      BY <2>1 DEF Seqs
    <2>3. ASSUME NEW n \in Nat
          PROVE  n <= m \/ n \in s.early \ (t..m) <=> n = t \/ n <= s.done \/ n \in s.early
      BY <1>1, <2>1, <2>2, <2>3
    <2> QED
      BY <1>1, <2>1, <2>2, <2>3 DEF Seqs
  <1>2. CASE t # s.done + 1
    BY <1>2 DEF Completions, Seqs
  <1> QED
    BY <1>1, <1>2

(* The initial state satisfies the invariant.                               *)
LEMMA InitIInv == Init => IInv
  BY DEF Init, IInv, TypeOK, Issued, SeqPerDocument, Bounded, Ledger, TurnTaken, Current,
         WritersOrdered, ReadersOrdered, TailHeld, Requests, Seqs, Finished

(* Appending an element keeps a sequence typed and its prefix as it was.    *)
LEMMA AppendFacts ==
  ASSUME NEW S, NEW s \in Seq(S), NEW x \in S
  PROVE  /\ Append(s, x) \in Seq(S)
         /\ Len(s) \in Nat
         /\ Len(Append(s, x)) = Len(s) + 1
         /\ Append(s, x)[Len(s) + 1] = x
         /\ \A i \in 1..Len(s) : Append(s, x)[i] = s[i]
  OBVIOUS

(* What appending one request does to the requests already there.          *)
Appended(n, k, u, g) ==
  /\ Requests' = Requests \cup {n} /\ n \notin Requests /\ n \in Nat
  /\ \A r \in Requests : /\ wire'[r] = wire[r] /\ pc'[r] = pc[r]
                         /\ gate'[r] = gate[r] /\ r \in Nat /\ r < n
  /\ wire'[n].kind = k /\ wire'[n].uri = u /\ pc'[n] = "waiting" /\ gate'[n] = g
  /\ wire' \in Seq([kind : Kind, uri : Uri])
  /\ pc' \in Seq({"waiting", "running"} \cup Finished)
  /\ gate' \in Seq([seq : Nat, ticket : Nat])
  /\ Len(pc') = Len(wire') /\ Len(gate') = Len(wire')
  /\ UNCHANGED open

(* A call appends one waiting request and touches no other.                 *)
LEMMA ReceiveAppends ==
  ASSUME TypeOK, NEW k \in Kind, NEW u \in Uri, Receive(k, u),
         NEW g \in [seq : Nat, ticket : Nat], gate' = Append(gate, g)
  PROVE  \E n \in Nat : n = Len(wire) + 1 /\ Appended(n, k, u, g)
  <1> DEFINE m == [kind |-> k, uri |-> u]
             Messages == [kind : Kind, uri : Uri]
             Phases == {"waiting", "running"} \cup Finished
             Gates == [seq : Nat, ticket : Nat]
  <1>0. PICK n : n = Len(wire) + 1
    OBVIOUS
  <1>1. /\ wire \in Seq(Messages) /\ pc \in Seq(Phases) /\ gate \in Seq(Gates)
        /\ Len(pc) = Len(wire) /\ Len(gate) = Len(wire)
    BY DEF TypeOK
  <1>2. /\ wire' = Append(wire, m) /\ pc' = Append(pc, "waiting") /\ UNCHANGED open
        /\ gate' = Append(gate, g)
    BY DEF Receive
  <1>3. m \in Messages /\ m.kind = k /\ m.uri = u /\ "waiting" \in Phases /\ g \in Gates
    OBVIOUS
  <1> HIDE DEF m, Messages, Phases, Gates
  <1>4. wire' \in Seq(Messages) /\ Len(wire) \in Nat
        /\ Len(wire') = n /\ wire'[n] = m /\ \A r \in 1..Len(wire) : wire'[r] = wire[r]
    BY <1>1, <1>2, <1>3, AppendFacts, <1>0
  <1>5. /\ pc' \in Seq(Phases)
        /\ Len(pc') = n /\ pc'[n] = "waiting" /\ \A r \in 1..Len(wire) : pc'[r] = pc[r]
    BY <1>1, <1>2, <1>3, AppendFacts, <1>0
  <1>6. /\ gate' \in Seq(Gates)
        /\ Len(gate') = n /\ gate'[n] = g /\ \A r \in 1..Len(wire) : gate'[r] = gate[r]
    BY <1>1, <1>2, <1>3, AppendFacts, <1>0
  <1>7. /\ Requests' = Requests \cup {n} /\ n \notin Requests /\ n \in Nat
        /\ \A r \in Requests : r \in Nat /\ r < n
    BY <1>0, <1>4 DEF Requests
  <1> QED
    BY <1>0, <1>2, <1>3, <1>4, <1>5, <1>6, <1>7
       DEF Requests, Appended, Messages, Phases, Gates

(* The elements of a sequence over S are in S.                              *)
LEMMA ElementFacts ==
  ASSUME NEW S, NEW s \in Seq(S)
  PROVE  \A i \in 1..Len(s) : s[i] \in S
  OBVIOUS

(* Each DocSeq's fields have their types.                                   *)
LEMMA SeqsFacts ==
  ASSUME NEW x \in Seq(Seqs)
  PROVE  /\ Len(x) \in Nat
         /\ \A h \in 1..Len(x) : /\ x[h] \in Seqs
                                 /\ x[h].tail \in Nat /\ x[h].done \in Nat
                                 /\ x[h].early \subseteq Nat
  <1>1. \A s \in Seqs : s.tail \in Nat /\ s.done \in Nat /\ s.early \subseteq Nat
    BY DEF Seqs
  <1> QED
    BY <1>1, ElementFacts

(* The fields of each DocSeq and of each request have their types.         *)
LEMMA TypeFacts ==
  ASSUME TypeOK
  PROVE  /\ \A h \in 1..Len(seqs) : /\ seqs[h] \in Seqs
                                    /\ seqs[h].tail \in Nat /\ seqs[h].done \in Nat
                                    /\ seqs[h].early \subseteq Nat
         /\ \A r \in Requests : /\ wire[r].uri \in Uri /\ pc[r] \in {"waiting", "running"} \cup Finished
                                /\ gate[r].seq \in Nat /\ gate[r].ticket \in Nat
                                /\ r \in Nat
  <1> DEFINE Messages == [kind : Kind, uri : Uri]
             Phases == {"waiting", "running"} \cup Finished
             Gates == [seq : Nat, ticket : Nat]
  <1>1. /\ wire \in Seq(Messages) /\ pc \in Seq(Phases) /\ gate \in Seq(Gates)
        /\ Len(pc) = Len(wire) /\ Len(gate) = Len(wire) /\ seqs \in Seq(Seqs)
    BY DEF TypeOK
  <1>2. /\ \A s \in Seqs : s.tail \in Nat /\ s.done \in Nat /\ s.early \subseteq Nat
        /\ \A m \in Messages : m.uri \in Uri
        /\ \A e \in Gates : e.seq \in Nat /\ e.ticket \in Nat
    BY DEF Seqs
  <1> HIDE DEF Messages, Phases, Gates
  <1>3. \A h \in 1..Len(seqs) : seqs[h] \in Seqs
    BY <1>1, ElementFacts
  <1>4. \A r \in Requests : wire[r] \in Messages /\ pc[r] \in Phases /\ gate[r] \in Gates
    BY <1>1, ElementFacts DEF Requests
  <1>5. \A r \in Requests : r \in Nat
    BY DEF Requests
  <1> QED
    BY <1>2, <1>3, <1>4, <1>5 DEF Phases

(* What the three calls have in common: no DocSeq shrinks or completes     *)
(* anything, and only g issues tickets.                                    *)
Grows(g) ==
  /\ Len(seqs) <= Len(seqs')
  /\ \A h \in 1..Len(seqs) : /\ seqs'[h].done = seqs[h].done
                             /\ seqs'[h].early = seqs[h].early
                             /\ seqs'[h].tail >= seqs[h].tail
                             /\ h # g => seqs'[h].tail = seqs[h].tail

(* What a writer is given: the entry's next ticket, after every other.     *)
Issues(u, g, new) ==
  /\ g \in 1..Len(seqs')
  /\ docs' = [docs EXCEPT ![u] = g]
  /\ docs[u] = g \/ (docs[u] = 0 /\ g \notin 1..Len(seqs))
  /\ new.ticket = seqs'[g].tail
  /\ new.ticket \in Nat \ {0}
  /\ ~(new.ticket <= seqs'[g].done \/ new.ticket \in seqs'[g].early)
  /\ \A q \in Requests : IsWriter(q) /\ gate[q].seq = g => gate[q].ticket < new.ticket

(* What a reader is given: a tail no unfinished writer is behind.          *)
Snapshots(u, g, new) ==
  /\ docs' = docs /\ seqs' = seqs
  /\ \A q \in Requests : IsWriter(q) /\ wire[q].uri = u =>
       \/ pc[q] \in Finished
       \/ gate[q].seq = g /\ gate[q].ticket <= new.ticket

(* Any call keeps the invariant, whether its gate comes from the entry, a  *)
(* fresh DocSeq or a reader's snapshot.                                    *)
LEMMA CallInv ==
  ASSUME IInv, TypeOK', Bounded',
         NEW k \in Kind, NEW u \in Uri, NEW n \in Nat, NEW new, NEW g,
         n = Len(wire) + 1, Appended(n, k, u, new), g = new.seq,
         Grows(g),
         IF k \in WriterKind THEN Issues(u, g, new) ELSE Snapshots(u, g, new)
  PROVE  IInv'
  <1> USE DEF Grows, Issues, Snapshots
  <1>1. /\ \A h \in 1..Len(seqs) : seqs[h].tail \in Nat
        /\ \A h \in 1..Len(seqs') : seqs'[h].tail \in Nat
        /\ Len(seqs) \in Nat /\ Len(seqs') \in Nat
    <2>1. seqs \in Seq(Seqs) /\ seqs' \in Seq(Seqs)
      BY DEF IInv, TypeOK
    <2> QED
      BY <2>1, SeqsFacts
  <1>2. /\ Requests' = Requests \cup {n} /\ n \notin Requests
        /\ \A r \in Requests : /\ wire'[r] = wire[r] /\ pc'[r] = pc[r]
                               /\ gate'[r] = gate[r] /\ r < n
                               /\ IsWriter(r)' <=> IsWriter(r)
        /\ wire'[n].uri = u /\ pc'[n] = "waiting" /\ gate'[n] = new
        /\ IsWriter(n)' <=> k \in WriterKind
    BY DEF Appended, IsWriter
  <1>3. \A r \in Requests : IsWriter(r) =>
          /\ gate[r].seq \in 1..Len(seqs) /\ gate[r].ticket \in 1..seqs[gate[r].seq].tail
          /\ Recorded(r)' <=> Recorded(r)
    BY <1>2 DEF IInv, Issued, Recorded
  <1>4. Issued'
    <2> SUFFICES ASSUME NEW r \in Requests', IsWriter(r)'
                 PROVE  gate'[r].seq \in 1..Len(seqs') /\ gate'[r].ticket \in 1..seqs'[gate'[r].seq].tail
      BY DEF Issued
    <2>1. CASE r = n
      BY <2>1, <1>1, <1>2
    <2>2. CASE r \in Requests
      <3>1. /\ gate'[r] = gate[r] /\ gate[r].seq \in 1..Len(seqs)
            /\ gate[r].ticket \in 1..seqs[gate[r].seq].tail
        BY <2>2, <1>2, <1>3
      <3>2. seqs'[gate[r].seq].tail \in Nat /\ seqs[gate[r].seq].tail \in Nat
        BY <3>1, <1>1
      <3>3. seqs'[gate[r].seq].tail >= seqs[gate[r].seq].tail
        BY <3>1
      <3> QED
        BY <3>1, <3>2, <3>3, <1>1
    <2> QED
      BY <2>1, <2>2, <1>2
  <1>5. SeqPerDocument'
    <2>1. SeqPerDocument /\ docs \in [Uri -> Nat] /\ \A v \in Uri : docs[v] \in 0..Len(seqs)
      BY DEF IInv, TypeOK
    <2>2. CASE k \in WriterKind
      <3>1. \A r \in Requests : IsWriter(r) /\ gate[r].seq = g => wire[r].uri = u
        BY <2>1, <2>2, <1>3 DEF SeqPerDocument
      <3>2. \A v \in Uri : v # u => docs'[v] = docs[v] /\ docs[v] # g
        BY <2>1, <2>2, <1>1 DEF SeqPerDocument
      <3>3. docs'[u] = g
        BY <2>1, <2>2
      <3>4. \A r \in Requests : IsWriter(r) =>
              /\ gate'[r].seq = gate[r].seq /\ wire'[r].uri = wire[r].uri
              /\ gate[r].seq = g => wire[r].uri = u
        BY <1>2, <3>1
      <3>5. gate'[n].seq = g /\ wire'[n].uri = u
        BY <1>2
      <3>6. ASSUME NEW q \in Requests', NEW r \in Requests',
                   IsWriter(q)', IsWriter(r)', gate'[q].seq = gate'[r].seq
            PROVE  wire'[q].uri = wire'[r].uri
        <4>1. CASE q = n
          <5>1. CASE r = n
            BY <4>1, <5>1
          <5>2. CASE r \in Requests
            BY <4>1, <5>2, <3>4, <3>5, <3>6, <1>2
          <5> QED
            BY <5>1, <5>2, <1>2
        <4>2. CASE q \in Requests /\ r = n
          BY <4>2, <3>4, <3>5, <3>6, <1>2
        <4>3. CASE q \in Requests /\ r \in Requests
          BY <4>3, <3>4, <3>6, <1>2, <2>1 DEF SeqPerDocument
        <4> QED
          BY <4>1, <4>2, <4>3, <1>2
      <3>7. ASSUME NEW v \in Uri, NEW r \in Requests', IsWriter(r)', docs'[v] = gate'[r].seq
            PROVE  wire'[r].uri = v
        <4>1. CASE v = u
          <5>1. CASE r = n
            BY <4>1, <5>1, <3>5
          <5>2. CASE r \in Requests
            BY <4>1, <5>2, <3>3, <3>4, <3>7, <1>2
          <5> QED
            BY <5>1, <5>2, <1>2
        <4>2. CASE v # u
          <5>1. docs'[v] = docs[v] /\ docs[v] # g
            BY <4>2, <3>2
          <5>2. r # n
            BY <5>1, <3>5, <3>7
          <5>3. r \in Requests /\ IsWriter(r) /\ docs[v] = gate[r].seq
            BY <5>1, <5>2, <3>4, <3>7, <1>2
          <5> QED
            BY <5>3, <3>4, <2>1 DEF SeqPerDocument
        <4> QED
          BY <4>1, <4>2
      <3>8. ASSUME NEW v \in Uri, NEW w \in Uri, docs'[v] = docs'[w], docs'[v] # 0
            PROVE  v = w
        <4>1. CASE v = u \/ w = u
          BY <4>1, <3>2, <3>3, <3>8
        <4>2. CASE v # u /\ w # u
          BY <4>2, <3>2, <3>8, <2>1 DEF SeqPerDocument
        <4> QED
          BY <4>1, <4>2
      <3> QED
        BY <3>6, <3>7, <3>8 DEF SeqPerDocument
    <2>3. CASE k \notin WriterKind
      BY <2>1, <2>3, <1>2 DEF SeqPerDocument
    <2> QED
      BY <2>2, <2>3
  <1>6. Ledger'
    <2> SUFFICES ASSUME NEW r \in Requests', IsWriter(r)'
                 PROVE  pc'[r] \in Finished <=> Recorded(r)'
      BY DEF Ledger, Finished
    <2>1. CASE r = n
      BY <2>1, <1>2 DEF Recorded, Finished
    <2>2. CASE r \in Requests
      BY <2>2, <1>2, <1>3 DEF IInv, Ledger
    <2> QED
      BY <2>1, <2>2, <1>2
  <1>7. TurnTaken'
    <2> SUFFICES ASSUME NEW r \in Requests', IsWriter(r)', pc'[r] = "running"
                 PROVE  gate'[r].ticket <= seqs'[gate'[r].seq].done + 1
      BY DEF TurnTaken
    <2>1. r \in Requests
      BY <1>2
    <2> QED
      BY <2>1, <1>2, <1>3 DEF IInv, TurnTaken
  <1>8. Current'
    <2> SUFFICES ASSUME NEW r \in Requests', IsWriter(r)', pc'[r] \notin Finished
                 PROVE  docs'[wire'[r].uri] = gate'[r].seq
      BY DEF Current, Finished
    <2>1. docs \in [Uri -> Nat]
      BY DEF IInv, TypeOK
    <2>2. CASE r = n
      BY <2>1, <2>2, <1>2
    <2>3. CASE r \in Requests
      <3>1. docs[wire[r].uri] = gate[r].seq /\ gate[r].seq \in 1..Len(seqs)
        BY <2>3, <1>2, <1>3 DEF IInv, Current
      <3>2. wire[r].uri \in Uri
        BY <2>3, TypeFacts DEF IInv
      <3>3. CASE k \in WriterKind /\ wire[r].uri = u
        BY <2>1, <2>3, <3>1, <3>2, <3>3, <1>1, <1>2
      <3>4. CASE k \in WriterKind /\ wire[r].uri # u
        BY <2>1, <2>3, <3>1, <3>2, <3>4, <1>1, <1>2
      <3>5. CASE k \notin WriterKind
        BY <2>1, <2>3, <3>1, <3>2, <3>5, <1>1, <1>2
      <3> QED
        BY <3>3, <3>4, <3>5
    <2> QED
      BY <2>2, <2>3, <1>2
  <1>9. WritersOrdered'
    <2> SUFFICES ASSUME NEW q \in Requests', NEW r \in Requests', q < r, IsWriter(q)', IsWriter(r)',
                        wire'[q].uri = wire'[r].uri
                 PROVE  IF gate'[q].seq = gate'[r].seq
                          THEN gate'[q].ticket < gate'[r].ticket
                          ELSE pc'[q] \in Finished
      BY DEF WritersOrdered, Finished
    <2>1. q \in Requests
      BY <1>2 DEF Requests
    <2>2. CASE r = n
      <3>1. CASE gate[q].seq = g
        BY <2>1, <2>2, <3>1, <1>2
      <3>2. CASE gate[q].seq # g
        BY <2>1, <2>2, <3>2, <1>1, <1>2, <1>3 DEF IInv, Current
      <3> QED
        BY <3>1, <3>2
    <2>3. CASE r \in Requests
      BY <2>1, <2>3, <1>2 DEF IInv, WritersOrdered
    <2> QED
      BY <2>2, <2>3, <1>2
  <1>10. ReadersOrdered'
    <2> SUFFICES ASSUME NEW q \in Requests', NEW r \in Requests', q < r, IsWriter(q)', ~IsWriter(r)',
                        wire'[q].uri = wire'[r].uri
                 PROVE  \/ pc'[q] \in Finished
                        \/ gate'[q].seq = gate'[r].seq /\ gate'[q].ticket <= gate'[r].ticket
      BY DEF ReadersOrdered, Finished
    <2>1. q \in Requests
      BY <1>2 DEF Requests
    <2>2. CASE r = n
      BY <2>1, <2>2, <1>2
    <2>3. CASE r \in Requests
      BY <2>1, <2>3, <1>2 DEF IInv, ReadersOrdered
    <2> QED
      BY <2>2, <2>3, <1>2
  <1>11. TailHeld'
    <2> SUFFICES ASSUME NEW v \in Uri, docs'[v] # 0
                 PROVE  \E q \in Requests' : /\ IsWriter(q)' /\ wire'[q].uri = v
                                             /\ gate'[q].seq = docs'[v]
                                             /\ gate'[q].ticket = seqs'[docs'[v]].tail
      BY DEF TailHeld
    <2>1. docs \in [Uri -> Nat] /\ \A w \in Uri : docs[w] \in 0..Len(seqs)
      BY DEF IInv, TypeOK
    <2>2. CASE k \in WriterKind /\ v = u
      BY <2>1, <2>2, <1>2
    <2>3. CASE ~(k \in WriterKind /\ v = u)
      <3>1. docs'[v] = docs[v] /\ docs[v] \in 1..Len(seqs)
        BY <2>1, <2>3, <1>1
      <3>2. seqs'[docs[v]].tail = seqs[docs[v]].tail
        BY <2>1, <2>3, <3>1, <1>1 DEF IInv, SeqPerDocument
      <3>3. PICK q \in Requests : /\ IsWriter(q) /\ wire[q].uri = v
                                  /\ gate[q].seq = docs[v]
                                  /\ gate[q].ticket = seqs[docs[v]].tail
        BY <3>1 DEF IInv, TailHeld
      <3> QED
        BY <3>1, <3>2, <3>3, <1>2
    <2> QED
      BY <2>2, <2>3
  <1> QED
    BY <1>4, <1>5, <1>6, <1>7, <1>8, <1>9, <1>10, <1>11 DEF IInv

(* A writer's call on a document with an entry keeps the invariant.         *)
LEMMA CallWriterInv ==
  ASSUME IInv, NEW k \in WriterKind, NEW u \in Uri, CallWriter(k, u)
  PROVE  IInv'
  <1>0. PICK g : g = docs[u]
    OBVIOUS
  <1>1. TypeOK /\ g \in 1..Len(seqs) /\ seqs \in Seq(Seqs) /\ docs \in [Uri -> Nat]
    BY <1>0 DEF IInv, TypeOK, CallWriter
  <1>2. PICK new : new = [seq |-> g, ticket |-> seqs[g].tail + 1]
    OBVIOUS
  <1>3. /\ Receive(k, u) /\ gate' = Append(gate, new) /\ UNCHANGED docs
        /\ seqs' = [seqs EXCEPT ![g] = NextTicket(seqs[g])]
    BY <1>0, <1>2 DEF CallWriter
  <1>4. k \in Kind /\ seqs[g] \in Seqs
    BY <1>1 DEF Kind
  <1>5. new \in [seq : Nat, ticket : Nat] /\ NextTicket(seqs[g]) \in Seqs
    BY <1>1, <1>2, <1>4 DEF Seqs, NextTicket
  <1>6. /\ seqs' \in Seq(Seqs) /\ Len(seqs') = Len(seqs)
        /\ seqs'[g].tail = seqs[g].tail + 1
        /\ seqs'[g].done = seqs[g].done /\ seqs'[g].early = seqs[g].early
        /\ \A h \in 1..Len(seqs) : h # g => seqs'[h] = seqs[h]
    BY <1>1, <1>3, <1>4, <1>5 DEF NextTicket
  <1>7. PICK n \in Nat : n = Len(wire) + 1 /\ Appended(n, k, u, new)
    BY <1>1, <1>3, <1>4, <1>5, ReceiveAppends
  <1>8. TypeOK'
    BY <1>1, <1>3, <1>6, <1>7 DEF TypeOK, Appended
  <1>9. new.seq = g /\ new.ticket = seqs[g].tail + 1
    BY <1>2
  <1>10. \A h \in 1..Len(seqs) : seqs[h].tail \in Nat /\ seqs[h].done \in Nat
    BY <1>1, SeqsFacts
  <1>11. Bounded'
    BY <1>1, <1>6, <1>10 DEF IInv, Bounded
  <1>12. \A h \in 1..Len(seqs) : /\ seqs'[h].done = seqs[h].done
                                 /\ seqs'[h].early = seqs[h].early
                                 /\ seqs'[h].tail >= seqs[h].tail
                                 /\ h # g => seqs'[h].tail = seqs[h].tail
    BY <1>1, <1>6, <1>10
  <1>13. \A q \in Requests : IsWriter(q) /\ gate[q].seq = g => gate[q].ticket < new.ticket
    BY <1>1, <1>9, <1>10 DEF IInv, Issued
  <1>14. ~(new.ticket <= seqs'[g].done \/ new.ticket \in seqs'[g].early)
    BY <1>1, <1>6, <1>9, <1>10 DEF IInv, Bounded
  <1>15. docs' = [docs EXCEPT ![u] = g]
    BY <1>0, <1>1, <1>3
  <1>16. new.ticket = seqs'[g].tail /\ new.ticket \in Nat \ {0} /\ Len(seqs) <= Len(seqs')
    BY <1>1, <1>6, <1>9, <1>10
  <1>17. /\ g \in 1..Len(seqs') /\ docs[u] = g
    BY <1>0, <1>1, <1>6
  <1>18. Grows(g)
    BY <1>12, <1>16 DEF Grows
  <1>19. Issues(u, g, new)
    BY <1>13, <1>14, <1>15, <1>16, <1>17 DEF Issues
  <1> QED
    BY <1>4, <1>7, <1>8, <1>9, <1>11, <1>18, <1>19, CallInv

(* A writer's call that allocates the entry keeps the invariant.            *)
LEMMA CallFirstWriterInv ==
  ASSUME IInv, NEW k \in WriterKind, NEW u \in Uri, CallFirstWriter(k, u)
  PROVE  IInv'
  <1>0. PICK g : g = Len(seqs) + 1
    OBVIOUS
  <1>1. TypeOK /\ seqs \in Seq(Seqs) /\ docs \in [Uri -> Nat] /\ docs[u] = 0 /\ Len(seqs) \in Nat
    BY DEF IInv, TypeOK, CallFirstWriter
  <1>2. PICK new : new = [seq |-> g, ticket |-> 1]
    OBVIOUS
  <1>3. PICK s : s = NextTicket(FreshSeq)
    OBVIOUS
  <1>4. s \in Seqs /\ s.tail = 1 /\ s.done = 0 /\ s.early = {}
    BY <1>3 DEF Seqs, FreshSeq, NextTicket
  <1>5. /\ Receive(k, u) /\ gate' = Append(gate, new) /\ docs' = [docs EXCEPT ![u] = g]
        /\ seqs' = Append(seqs, s)
    BY <1>0, <1>2, <1>3 DEF CallFirstWriter
  <1>6. k \in Kind /\ new \in [seq : Nat, ticket : Nat] /\ new.seq = g /\ new.ticket = 1
    BY <1>0, <1>1, <1>2 DEF Kind
  <1>7. /\ seqs' \in Seq(Seqs) /\ Len(seqs') = g /\ seqs'[g] = s
        /\ \A h \in 1..Len(seqs) : seqs'[h] = seqs[h]
    BY <1>0, <1>1, <1>4, <1>5, AppendFacts
  <1>8. PICK n \in Nat : n = Len(wire) + 1 /\ Appended(n, k, u, new)
    BY <1>1, <1>5, <1>6, ReceiveAppends
  <1>9. TypeOK'
    BY <1>0, <1>1, <1>5, <1>7, <1>8 DEF TypeOK, Appended
  <1>10. \A h \in 1..Len(seqs) : seqs[h].tail \in Nat /\ seqs[h].done \in Nat
    BY <1>1, SeqsFacts
  <1>11. Bounded'
    BY <1>0, <1>1, <1>4, <1>7, <1>10 DEF IInv, Bounded
  <1>12. /\ \A h \in 1..Len(seqs) : /\ seqs'[h].done = seqs[h].done
                                    /\ seqs'[h].early = seqs[h].early
                                    /\ seqs'[h].tail >= seqs[h].tail
                                    /\ h # g => seqs'[h].tail = seqs[h].tail
         /\ Len(seqs) <= Len(seqs') /\ g \in 1..Len(seqs') /\ g \notin 1..Len(seqs)
    BY <1>0, <1>1, <1>7, <1>10
  <1>13. \A q \in Requests : ~(IsWriter(q) /\ gate[q].seq = g)
    BY <1>0, <1>1 DEF IInv, Issued
  <1>14. ~(new.ticket <= seqs'[g].done \/ new.ticket \in seqs'[g].early)
    BY <1>4, <1>6, <1>7
  <1>15. new.ticket = seqs'[g].tail /\ new.ticket \in Nat \ {0}
    BY <1>4, <1>6, <1>7
  <1>16. Grows(g) /\ Issues(u, g, new)
    BY <1>1, <1>5, <1>12, <1>13, <1>14, <1>15 DEF Grows, Issues
  <1> QED
    BY <1>6, <1>8, <1>9, <1>11, <1>16, CallInv

(* A reader's call keeps the invariant.                                     *)
LEMMA CallReaderInv ==
  ASSUME IInv, NEW u \in Uri, CallReader(u)
  PROVE  IInv'
  <1>0. PICK g : g = docs[u]
    OBVIOUS
  <1>1. TypeOK /\ seqs \in Seq(Seqs) /\ g \in 0..Len(seqs) /\ Len(seqs) \in Nat
    BY <1>0 DEF IInv, TypeOK
  <1>2. \A h \in 1..Len(seqs) : seqs[h].tail \in Nat /\ seqs[h].done \in Nat
    BY <1>1, SeqsFacts
  <1>3. PICK new : new = [seq |-> g, ticket |-> IF g # 0 /\ seqs[g].done < seqs[g].tail
                                                 THEN seqs[g].tail ELSE 0]
    OBVIOUS
  <1>4. Receive("reader", u) /\ gate' = Append(gate, new) /\ UNCHANGED <<seqs, docs>>
    BY <1>0, <1>3 DEF CallReader
  <1>5. "reader" \in Kind /\ "reader" \notin WriterKind
    BY DEF Kind, WriterKind
  <1>6. new.seq = g /\ new.ticket \in Nat /\ new \in [seq : Nat, ticket : Nat]
    BY <1>1, <1>2, <1>3
  <1>7. PICK n \in Nat : n = Len(wire) + 1 /\ Appended(n, "reader", u, new)
    BY <1>1, <1>4, <1>5, <1>6, ReceiveAppends
  <1>8. TypeOK'
    BY <1>1, <1>4, <1>7 DEF TypeOK, Appended
  <1>9. Bounded'
    BY <1>4 DEF IInv, Bounded
  <1>10. ASSUME NEW q \in Requests, IsWriter(q), wire[q].uri = u
         PROVE  \/ pc[q] \in Finished
                \/ gate[q].seq = g /\ gate[q].ticket <= new.ticket
    <2>1. SUFFICES ASSUME pc[q] \notin Finished
                   PROVE  gate[q].seq = g /\ gate[q].ticket <= new.ticket
      OBVIOUS
    <2>2. gate[q].seq = g
      BY <1>0, <1>10, <2>1 DEF IInv, Current
    <2>3. g \in 1..Len(seqs) /\ gate[q].ticket \in 1..seqs[g].tail
      BY <1>10, <2>2 DEF IInv, Issued
    <2>4. ~(gate[q].ticket <= seqs[g].done)
      BY <1>10, <2>1, <2>2 DEF IInv, Ledger, Recorded
    <2>5. new.ticket = seqs[g].tail
      BY <1>1, <1>2, <1>3, <2>3, <2>4
    <2> QED
      BY <1>2, <2>2, <2>3, <2>5
  <1>11. /\ Len(seqs) <= Len(seqs')
         /\ \A h \in 1..Len(seqs) : /\ seqs'[h].done = seqs[h].done
                                    /\ seqs'[h].early = seqs[h].early
                                    /\ seqs'[h].tail >= seqs[h].tail
                                    /\ h # g => seqs'[h].tail = seqs[h].tail
    BY <1>1, <1>2, <1>4
  <1>12. Grows(g) /\ Snapshots(u, g, new)
    BY <1>4, <1>10, <1>11 DEF Grows, Snapshots
  <1> QED
    BY <1>5, <1>6, <1>7, <1>8, <1>9, <1>12, CallInv

(* A writer's end: its ticket is recorded, and finish_close may remove the *)
(* entry, when the writer ran and holds the entry's last ticket.           *)
Completes(r, g, t, d) ==
  /\ IsWriter(r) /\ pc[r] \notin Finished
  /\ g = gate[r].seq /\ t = gate[r].ticket
  /\ d \in Finished /\ pc' = [pc EXCEPT ![r] = d]
  /\ \E s \in Completions(seqs[g], t) : seqs' = [seqs EXCEPT ![g] = s]
  /\ UNCHANGED <<wire, gate>>

Keeps == docs' = docs

Removes(r, t) ==
  LET u == wire[r].uri IN
  /\ pc[r] = "running"
  /\ docs[u] # 0 /\ seqs[docs[u]].tail = t
  /\ docs' = [docs EXCEPT ![u] = 0]

(* Completing a ticket, with or without the removal, keeps the invariant.   *)
LEMMA CompleteInv ==
  ASSUME IInv, TypeOK', NEW r \in Requests, NEW g, NEW t, NEW d,
         Completes(r, g, t, d), Keeps \/ Removes(r, t)
  PROVE  IInv'
  <1>1. /\ IsWriter(r) /\ pc[r] \notin Finished
        /\ g = gate[r].seq /\ t = gate[r].ticket /\ d \in Finished
        /\ wire' = wire /\ gate' = gate
    BY DEF Completes
  <1>2. /\ Requests' = Requests
        /\ \A q \in Requests : /\ pc'[q] = IF q = r THEN d ELSE pc[q]
                               /\ IsWriter(q)' <=> IsWriter(q)
                               /\ wire'[q] = wire[q] /\ gate'[q] = gate[q]
    BY <1>1 DEF Completes, IInv, TypeOK, Requests, IsWriter
  <1>3. /\ TypeOK /\ seqs \in Seq(Seqs) /\ Len(seqs) \in Nat
        /\ docs \in [Uri -> Nat] /\ \A v \in Uri : docs[v] \in 0..Len(seqs)
    BY DEF IInv, TypeOK
  <1>4. g \in 1..Len(seqs) /\ seqs[g] \in Seqs /\ t \in 1..seqs[g].tail
    BY <1>1, <1>3, SeqsFacts DEF IInv, Issued
  <1>5. PICK s \in Completions(seqs[g], t) : seqs' = [seqs EXCEPT ![g] = s]
    BY DEF Completes
  <1>6. /\ s \in Seqs /\ s.tail = seqs[g].tail /\ s.done >= seqs[g].done
        /\ \A n \in Nat : n <= s.done \/ n \in s.early
                            <=> n = t \/ n <= seqs[g].done \/ n \in seqs[g].early
    BY <1>4, CompletionRecords
  <1>7. /\ Len(seqs') = Len(seqs) /\ seqs'[g] = s
        /\ \A h \in 1..Len(seqs) : h # g => seqs'[h] = seqs[h]
        /\ \A h \in 1..Len(seqs) : seqs'[h].tail = seqs[h].tail
    BY <1>3, <1>4, <1>5, <1>6
  <1>8. /\ \A q \in Requests : /\ wire[q].uri \in Uri /\ q \in Nat
                               /\ gate[q].seq \in Nat /\ gate[q].ticket \in Nat
        /\ \A h \in 1..Len(seqs) : /\ seqs[h].tail \in Nat /\ seqs[h].done \in Nat
    BY <1>3, TypeFacts
  <1>9. \A q \in Requests : IsWriter(q) =>
          gate[q].seq \in 1..Len(seqs) /\ gate[q].ticket \in 1..seqs[gate[q].seq].tail
    BY DEF IInv, Issued
  (* No other writer holds r's ticket. *)
  <1>10. ASSUME NEW q \in Requests, IsWriter(q), gate[q].seq = g, q # r
         PROVE  gate[q].ticket # t
    <2>1. wire[q].uri = wire[r].uri
      BY <1>1, <1>10 DEF IInv, SeqPerDocument
    <2>2. q < r \/ r < q
      BY <1>8, <1>10
    <2> QED
      BY <1>1, <1>8, <1>10, <2>1, <2>2 DEF IInv, WritersOrdered
  <1>11. Issued'
    BY <1>2, <1>7, <1>9 DEF Issued
  <1>12. SeqPerDocument'
    <2>1. \A v \in Uri : docs'[v] = docs[v] \/ docs'[v] = 0
      BY <1>3 DEF Keeps, Removes
    <2>2. \A q \in Requests : IsWriter(q) => gate[q].seq # 0
      BY <1>3, <1>9
    <2> QED
      BY <1>2, <2>1, <2>2 DEF IInv, SeqPerDocument
  <1>13. Bounded'
    <2> SUFFICES ASSUME NEW h \in 1..Len(seqs), NEW n \in Nat,
                        n <= seqs'[h].done \/ n \in seqs'[h].early
                 PROVE  n <= seqs[h].tail
      BY <1>7 DEF Bounded
    <2>1. CASE h = g
      BY <1>3, <1>4, <1>6, <1>7, <1>8, <2>1 DEF IInv, Bounded
    <2>2. CASE h # g
      BY <1>7, <2>2 DEF IInv, Bounded
    <2> QED
      BY <2>1, <2>2
  <1>14. Ledger'
    <2> SUFFICES ASSUME NEW q \in Requests, IsWriter(q)
                 PROVE  pc'[q] \in Finished <=> Recorded(q)'
      BY <1>2 DEF Ledger, Finished
    <2>1. CASE gate[q].seq = g
      <3>1. Recorded(q)' <=> gate[q].ticket = t \/ Recorded(q)
        BY <1>2, <1>6, <1>7, <1>8, <2>1 DEF Recorded
      <3>2. gate[q].ticket = t <=> q = r
        BY <1>1, <1>10, <2>1
      <3> QED
        BY <1>1, <1>2, <3>1, <3>2 DEF IInv, Ledger
    <2>2. CASE gate[q].seq # g
      <3>1. Recorded(q)' <=> Recorded(q)
        BY <1>2, <1>7, <1>9, <2>2 DEF Recorded
      <3> QED
        BY <1>1, <1>2, <2>2, <3>1 DEF IInv, Ledger
    <2> QED
      BY <2>1, <2>2
  <1>15. TurnTaken'
    <2> SUFFICES ASSUME NEW q \in Requests, IsWriter(q), pc'[q] = "running"
                 PROVE  gate[q].ticket <= seqs'[gate[q].seq].done + 1
      BY <1>1, <1>2 DEF TurnTaken
    <2>1. pc[q] = "running"
      BY <1>1, <1>2 DEF Finished
    <2>2. gate[q].ticket <= seqs[gate[q].seq].done + 1
      BY <2>1 DEF IInv, TurnTaken
    <2>3. CASE gate[q].seq = g
      BY <1>4, <1>6, <1>7, <1>8, <2>2, <2>3, SeqsFacts DEF Seqs
    <2>4. CASE gate[q].seq # g
      BY <1>7, <1>9, <2>2, <2>4
    <2> QED
      BY <2>3, <2>4
  <1>16. Current'
    <2> SUFFICES ASSUME NEW q \in Requests, IsWriter(q), pc'[q] \notin Finished
                 PROVE  docs'[wire[q].uri] = gate[q].seq
      BY <1>1, <1>2 DEF Current, Finished
    <2>1. q # r /\ pc[q] \notin Finished /\ docs[wire[q].uri] = gate[q].seq
      BY <1>1, <1>2 DEF IInv, Current
    <2>2. CASE Keeps
      BY <2>1, <2>2 DEF Keeps
    <2>3. CASE Removes(r, t)
      <3>1. docs[wire[r].uri] = g
        BY <1>1 DEF IInv, Current
      <3>2. seqs[g].tail = t /\ t <= seqs[g].done + 1
        BY <1>1, <2>3, <3>1 DEF Removes, IInv, TurnTaken
      <3>3. CASE wire[q].uri = wire[r].uri
        (* q would hold a ticket above `done` and below r's. *)
        <4>1. gate[q].seq = g /\ gate[q].ticket # t
          BY <1>10, <2>1, <3>1, <3>3
        <4>2. gate[q].ticket <= t /\ ~(gate[q].ticket <= seqs[g].done)
          BY <1>9, <2>1, <3>2, <4>1 DEF IInv, Ledger, Recorded
        <4> QED
          BY <1>4, <1>8, <3>2, <4>1, <4>2
      <3>4. CASE wire[q].uri # wire[r].uri
        BY <1>3, <1>8, <2>1, <2>3, <3>4 DEF Removes
      <3> QED
        BY <3>3, <3>4
    <2> QED
      BY <2>2, <2>3
  <1>17. WritersOrdered'
    BY <1>1, <1>2 DEF IInv, WritersOrdered, Finished
  <1>18. ReadersOrdered'
    BY <1>1, <1>2 DEF IInv, ReadersOrdered, Finished
  <1>19. TailHeld'
    <2> SUFFICES ASSUME NEW v \in Uri, docs'[v] # 0
                 PROVE  \E q \in Requests : /\ IsWriter(q)' /\ wire'[q].uri = v
                                            /\ gate'[q].seq = docs'[v]
                                            /\ gate'[q].ticket = seqs'[docs'[v]].tail
      BY <1>2 DEF TailHeld
    <2>1. docs'[v] = docs[v] /\ docs[v] \in 1..Len(seqs)
      BY <1>3 DEF Keeps, Removes
    <2>2. PICK q \in Requests : /\ IsWriter(q) /\ wire[q].uri = v
                                /\ gate[q].seq = docs[v]
                                /\ gate[q].ticket = seqs[docs[v]].tail
      BY <2>1 DEF IInv, TailHeld
    <2> QED
      BY <1>2, <1>7, <2>1, <2>2
  <1> QED
    BY <1>11, <1>12, <1>13, <1>14, <1>15, <1>16, <1>17, <1>18, <1>19 DEF IInv

(* A writer that returns keeps the invariant.                               *)
LEMMA FinishWriterInv ==
  ASSUME IInv, NEW r \in Requests, FinishWriter(r)
  PROVE  IInv'
  <1> DEFINE g == gate[r]
             u == wire[r].uri
  <1>1. TypeOK /\ u \in Uri /\ g.seq \in 1..Len(seqs) /\ g.ticket \in 1..seqs[g.seq].tail
    BY TypeFacts DEF IInv, Issued, FinishWriter, FinishClose
  <1>2. seqs \in Seq(Seqs) /\ seqs[g.seq] \in Seqs
    BY <1>1, SeqsFacts DEF TypeOK
  <1>3. PICK s \in Completions(seqs[g.seq], g.ticket) : seqs' = [seqs EXCEPT ![g.seq] = s]
    BY DEF FinishWriter, FinishClose
  <1>4. seqs' \in Seq(Seqs) /\ Len(seqs') = Len(seqs)
    BY <1>1, <1>2, <1>3, CompletionRecords
  <1>5. docs' \in [Uri -> Nat] /\ \A v \in Uri : docs'[v] <= Len(seqs)
    BY <1>1, <1>2 DEF TypeOK, FinishWriter, FinishClose
  <1>6. open' \in [Uri -> BOOLEAN]
    <2>1. OpenAfter(wire[r].kind, open[u]) \in BOOLEAN
      BY <1>1 DEF OpenAfter, TypeOK
    <2> QED
      BY <1>1, <2>1 DEF TypeOK, FinishWriter, FinishClose
  <1>7. pc' \in Seq({"waiting", "running"} \cup Finished) /\ Len(pc') = Len(pc)
    <2>1. pc' = [pc EXCEPT ![r] = "done"]
      BY DEF FinishWriter, FinishClose
    <2>2. pc \in Seq({"waiting", "running"} \cup Finished) /\ r \in 1..Len(pc)
      BY <1>1 DEF TypeOK, Requests
    <2> QED
      BY <2>1, <2>2 DEF Finished
  <1>8. TypeOK'
    BY <1>1, <1>4, <1>5, <1>6, <1>7 DEF TypeOK, FinishWriter, FinishClose
  <1>9. Completes(r, g.seq, g.ticket, "done")
    BY <1>3 DEF FinishWriter, FinishClose, Completes, Finished
  <1>10. Keeps \/ Removes(r, g.ticket)
    BY DEF FinishWriter, FinishClose, Keeps, Removes
  <1> QED
    BY <1>8, <1>9, <1>10, CompleteInv

(* A writer whose future is dropped keeps the invariant.                    *)
LEMMA DropWriterInv ==
  ASSUME IInv, NEW r \in Requests, DropWriter(r)
  PROVE  IInv'
  <1> DEFINE g == gate[r]
             u == wire[r].uri
  <1>1. TypeOK /\ u \in Uri /\ g.seq \in 1..Len(seqs) /\ g.ticket \in 1..seqs[g.seq].tail
    BY TypeFacts DEF IInv, Issued, DropWriter
  <1>2. seqs \in Seq(Seqs) /\ seqs[g.seq] \in Seqs
    BY <1>1, SeqsFacts DEF TypeOK
  <1>3. PICK s \in Completions(seqs[g.seq], g.ticket) : seqs' = [seqs EXCEPT ![g.seq] = s]
    BY DEF DropWriter
  <1>4. seqs' \in Seq(Seqs) /\ Len(seqs') = Len(seqs)
    BY <1>1, <1>2, <1>3, CompletionRecords
  <1>5. open' \in [Uri -> BOOLEAN]
    <2>1. OpenAfter(wire[r].kind, open[u]) \in BOOLEAN
      BY <1>1 DEF OpenAfter, TypeOK
    <2> QED
      BY <1>1, <2>1 DEF TypeOK, DropWriter
  <1>6. pc' \in Seq({"waiting", "running"} \cup Finished) /\ Len(pc') = Len(pc)
    <2>1. pc' = [pc EXCEPT ![r] = "dropped"]
      BY DEF DropWriter
    <2>2. pc \in Seq({"waiting", "running"} \cup Finished) /\ r \in 1..Len(pc)
      BY <1>1 DEF TypeOK, Requests
    <2> QED
      BY <2>1, <2>2 DEF Finished
  <1>7. TypeOK'
    BY <1>1, <1>4, <1>5, <1>6 DEF TypeOK, DropWriter
  <1>8. Completes(r, g.seq, g.ticket, "dropped")
    BY <1>3 DEF DropWriter, Completes, Finished
  <1>9. Keeps
    BY DEF DropWriter, Keeps
  <1> QED
    BY <1>7, <1>8, <1>9, CompleteInv

(* A step that only moves one request's pc, and ends no writer.            *)
LEMMA MoveInv ==
  ASSUME IInv, NEW r \in Requests, NEW d \in {"running"} \cup Finished,
         pc' = [pc EXCEPT ![r] = d],
         UNCHANGED <<wire, gate, seqs, docs, open>>,
         pc[r] \notin Finished,
         IsWriter(r) => d = "running" /\ gate[r].ticket <= seqs[gate[r].seq].done + 1
  PROVE  IInv'
  <1>1. /\ Requests' = Requests
        /\ \A q \in Requests : /\ pc'[q] = IF q = r THEN d ELSE pc[q]
                               /\ IsWriter(q)' <=> IsWriter(q)
        /\ pc' \in Seq({"waiting", "running"} \cup Finished) /\ Len(pc') = Len(pc)
    BY DEF IInv, TypeOK, Requests, IsWriter, Finished
  <1>2. TypeOK'
    BY <1>1 DEF IInv, TypeOK
  <1>3. Issued' /\ SeqPerDocument' /\ Bounded' /\ TailHeld'
    BY <1>1 DEF IInv, Issued, SeqPerDocument, Bounded, TailHeld
  <1>4. \A q \in Requests : IsWriter(q) => (pc'[q] \in Finished <=> pc[q] \in Finished)
    BY <1>1 DEF Finished
  <1>5. Ledger'
    BY <1>1, <1>4 DEF IInv, Ledger, Recorded, Finished
  <1>6. TurnTaken'
    BY <1>1 DEF IInv, TurnTaken
  <1>7. Current'
    BY <1>1, <1>4 DEF IInv, Current, Finished
  <1>8. WritersOrdered'
    BY <1>1, <1>4 DEF IInv, WritersOrdered, Finished
  <1>9. ReadersOrdered'
    BY <1>1, <1>4 DEF IInv, ReadersOrdered, Finished
  <1> QED
    BY <1>2, <1>3, <1>5, <1>6, <1>7, <1>8, <1>9 DEF IInv

(* A handler that starts keeps the invariant.                               *)
LEMMA StartInv ==
  ASSUME IInv, NEW r \in Requests, Start(r)
  PROVE  IInv'
  <1>1. pc' = [pc EXCEPT ![r] = "running"] /\ pc[r] \notin Finished
    BY DEF Start, Finished
  <1>2. IsWriter(r) => gate[r].ticket <= seqs[gate[r].seq].done + 1
    <2> SUFFICES ASSUME IsWriter(r)
                 PROVE  gate[r].ticket <= seqs[gate[r].seq].done + 1
      OBVIOUS
    <2>1. gate[r].seq \in 1..Len(seqs) /\ gate[r].ticket \in Nat
      BY TypeFacts DEF IInv, Issued
    <2>2. seqs[gate[r].seq].done \in Nat
      BY <2>1, SeqsFacts DEF IInv, TypeOK
    <2>3. seqs[gate[r].seq].done >= gate[r].ticket - 1
      BY DEF Start, TurnCame
    <2> QED
      BY <2>1, <2>2, <2>3
  <1> QED
    BY <1>1, <1>2, MoveInv DEF Start

(* A reader that returns or is dropped keeps the invariant.                 *)
LEMMA ReaderEndsInv ==
  ASSUME IInv, NEW r \in Requests, FinishReader(r) \/ DropReader(r)
  PROVE  IInv'
  <1>1. PICK d \in Finished : pc' = [pc EXCEPT ![r] = d]
    BY DEF FinishReader, DropReader, Finished
  <1>2. ~IsWriter(r) /\ pc[r] \notin Finished /\ UNCHANGED <<wire, gate, seqs, docs, open>>
    BY DEF FinishReader, DropReader, Finished
  <1> QED
    BY <1>1, <1>2, MoveInv

(* Every step keeps the invariant.                                          *)
LEMMA NextIInv == IInv /\ [Next]_vars => IInv'
  <1> SUFFICES ASSUME IInv, [Next]_vars
               PROVE  IInv'
    OBVIOUS
  <1>1. ASSUME NEW u \in Uri, NEW k \in WriterKind, CallWriter(k, u)
        PROVE  IInv'
    BY <1>1, CallWriterInv
  <1>2. ASSUME NEW u \in Uri, NEW k \in WriterKind, CallFirstWriter(k, u)
        PROVE  IInv'
    BY <1>2, CallFirstWriterInv
  <1>3. ASSUME NEW u \in Uri, CallReader(u)
        PROVE  IInv'
    BY <1>3, CallReaderInv
  <1>4. ASSUME NEW r \in Requests, Start(r)
        PROVE  IInv'
    BY <1>4, StartInv
  <1>5. ASSUME NEW r \in Requests, FinishWriter(r)
        PROVE  IInv'
    BY <1>5, FinishWriterInv
  <1>6. ASSUME NEW r \in Requests, DropWriter(r)
        PROVE  IInv'
    BY <1>6, DropWriterInv
  <1>7. ASSUME NEW r \in Requests, FinishReader(r) \/ DropReader(r)
        PROVE  IInv'
    BY <1>7, ReaderEndsInv
  <1>8. CASE UNCHANGED vars
    BY <1>8 DEF vars, IInv, TypeOK, Issued, SeqPerDocument, Bounded, Ledger, Recorded,
                TurnTaken, Current, WritersOrdered, ReadersOrdered, TailHeld, Requests,
                IsWriter, Finished
  <1> QED
    BY <1>1, <1>2, <1>3, <1>4, <1>5, <1>6, <1>7, <1>8 DEF Next, Requests

(* The invariant holds of every behaviour. *)
THEOREM InvariantHolds == Safety => []IInv
  BY InitIInv, NextIInv, PTL DEF Safety

(* Every state of the sequencer is well typed. *)
THEOREM TypeCorrect == Safety => []TypeOK
  <1>1. IInv => TypeOK
    BY DEF IInv
  <1> QED
    BY <1>1, InvariantHolds, PTL

-----------------------------------------------------------------------------
(* When a handler starts, every writer of its document that preceded it on *)
(* the wire is over: what the tickets, the barrier and the dropped-sender  *)
(* wake-up add up to.                                                      *)
LEMMA StartIsInTurn ==
  ASSUME IInv, NEW r \in Requests, Start(r)
  PROVE  \A q \in Requests :
           q < r /\ IsWriter(q) /\ wire[q].uri = wire[r].uri => pc[q] \in Finished
  <1> SUFFICES ASSUME NEW q \in Requests, q < r, IsWriter(q), wire[q].uri = wire[r].uri,
                      pc[q] \notin Finished
               PROVE  FALSE
    OBVIOUS
  <1> DEFINE g == gate[r].seq
             t == gate[r].ticket
  <1>1. /\ gate[q].seq \in 1..Len(seqs) /\ gate[q].ticket \in Nat /\ t \in Nat
        /\ seqs[gate[q].seq].done \in Nat
    BY TypeFacts, SeqsFacts DEF IInv, Issued
  <1>2. ~(gate[q].ticket <= seqs[gate[q].seq].done)
    BY DEF IInv, Ledger, Recorded
  <1>3. CASE IsWriter(r)
    <2>1. gate[q].seq = g /\ gate[q].ticket < t
      BY <1>3 DEF IInv, WritersOrdered
    <2>2. seqs[g].done >= t - 1
      BY <1>3 DEF Start, TurnCame
    <2> QED
      BY <1>1, <1>2, <2>1, <2>2
  <1>4. CASE ~IsWriter(r)
    <2>1. gate[q].seq = g /\ gate[q].ticket <= t
      BY <1>4 DEF IInv, ReadersOrdered
    <2>2. gate[q].ticket # 0
      BY <1>1, <1>2
    <2>3. seqs[g].done >= t \/ SenderDropped(g)
      BY <1>1, <1>4, <2>1, <2>2 DEF Start, TurnCame
    <2>4. CASE seqs[g].done >= t
      BY <1>1, <1>2, <2>1, <2>4
    <2>5. CASE SenderDropped(g)
      BY <2>1, <2>5 DEF SenderDropped, Requests
    <2> QED
      BY <2>3, <2>4, <2>5
  <1> QED
    BY <1>3, <1>4

(* What any step does to the requests: none is forgotten or changed, a     *)
(* request that is over stays over, and a handler runs only by Start.      *)
StepKeeps ==
  /\ Requests \subseteq Requests'
  /\ \A r \in Requests' \ Requests : pc'[r] = "waiting"
  /\ \A r \in Requests, q \in Requests' : q < r => q \in Requests
  /\ \A r \in Requests :
       /\ wire'[r] = wire[r]
       /\ pc[r] \in Finished => pc'[r] = pc[r]
       /\ pc'[r] \in {"running", "done"} => pc[r] \in {"running", "done"} \/ Start(r)

(* A step that only moves one pc meets StepKeeps.                           *)
LEMMA MoveKeeps ==
  ASSUME TypeOK, NEW r \in Requests, NEW d \in {"running"} \cup Finished,
         pc' = [pc EXCEPT ![r] = d], wire' = wire, pc[r] \notin Finished,
         pc[r] = "running" \/ d = "dropped" \/ Start(r)
  PROVE  StepKeeps
  <1>1. Requests' = Requests /\ \A q \in Requests : pc'[q] = IF q = r THEN d ELSE pc[q]
    BY DEF TypeOK, Requests
  <1> QED
    BY <1>1 DEF StepKeeps, Finished

(* A call meets StepKeeps.                                                  *)
LEMMA ReceiveKeeps ==
  ASSUME TypeOK, NEW k \in Kind, NEW u \in Uri, Receive(k, u)
  PROVE  StepKeeps
  <1>1. PICK m : wire' = Append(wire, m) /\ m \in [kind : Kind, uri : Uri]
    BY DEF Receive
  <1>2. pc' = Append(pc, "waiting") /\ "waiting" \in {"waiting", "running"} \cup Finished
    BY DEF Receive
  <1> DEFINE Messages == [kind : Kind, uri : Uri]
             Phases == {"waiting", "running"} \cup Finished
  <1>3. wire \in Seq(Messages) /\ pc \in Seq(Phases) /\ Len(pc) = Len(wire)
        /\ m \in Messages /\ "waiting" \in Phases
    BY <1>1, <1>2 DEF TypeOK
  <1> HIDE DEF Messages, Phases
  <1>4. /\ Len(wire) \in Nat /\ Len(wire') = Len(wire) + 1
        /\ \A r \in 1..Len(wire) : wire'[r] = wire[r]
    BY <1>1, <1>3, AppendFacts
  <1>5. /\ pc'[Len(wire) + 1] = "waiting" /\ \A r \in 1..Len(wire) : pc'[r] = pc[r]
    BY <1>2, <1>3, AppendFacts
  <1> QED
    BY <1>4, <1>5 DEF StepKeeps, Requests

(* Every step meets StepKeeps.                                              *)
LEMMA NextKeeps ==
  ASSUME IInv, [Next]_vars
  PROVE  StepKeeps
  <1>1. TypeOK
    BY DEF IInv
  <1>2. ASSUME NEW u \in Uri, NEW k \in WriterKind, CallWriter(k, u) \/ CallFirstWriter(k, u)
        PROVE  StepKeeps
    BY <1>1, <1>2, ReceiveKeeps DEF CallWriter, CallFirstWriter, Kind
  <1>3. ASSUME NEW u \in Uri, CallReader(u)
        PROVE  StepKeeps
    BY <1>1, <1>3, ReceiveKeeps DEF CallReader, Kind
  <1>4. ASSUME NEW r \in Requests, Start(r)
        PROVE  StepKeeps
    <2>1. pc' = [pc EXCEPT ![r] = "running"] /\ wire' = wire /\ pc[r] \notin Finished
      BY <1>4 DEF Start, Finished
    <2> QED
      BY <1>1, <1>4, <2>1, MoveKeeps
  <1>5. ASSUME NEW r \in Requests, FinishWriter(r) \/ FinishReader(r)
        PROVE  StepKeeps
    <2>1. /\ pc' = [pc EXCEPT ![r] = "done"] /\ wire' = wire
          /\ pc[r] = "running" /\ pc[r] \notin Finished /\ "done" \in Finished
      BY <1>5 DEF FinishWriter, FinishClose, FinishReader, Finished
    <2> QED
      BY <1>1, <2>1, MoveKeeps
  <1>6. ASSUME NEW r \in Requests, DropWriter(r) \/ DropReader(r)
        PROVE  StepKeeps
    <2>1. /\ pc' = [pc EXCEPT ![r] = "dropped"] /\ wire' = wire
          /\ pc[r] \notin Finished /\ "dropped" \in Finished
      BY <1>6 DEF DropWriter, DropReader, Finished
    <2> QED
      BY <1>1, <2>1, MoveKeeps
  <1>7. CASE UNCHANGED vars
    BY <1>7 DEF vars, StepKeeps, Requests
  <1> QED
    BY <1>2, <1>3, <1>4, <1>5, <1>6, <1>7 DEF Next, Requests

(* No handler runs before a writer of its document that preceded it on the *)
(* wire is over (IngressOrder's NoOvertaking), for any documents and any   *)
(* number of requests.                                                     *)
THEOREM NoOvertakingHolds == Safety => []NoOvertaking
  <1>1. Init => NoOvertaking
    BY DEF Init, NoOvertaking
  <1>2. IInv /\ NoOvertaking /\ [Next]_vars => NoOvertaking'
    <2> SUFFICES ASSUME IInv, NoOvertaking, [Next]_vars
                 PROVE  NoOvertaking'
      OBVIOUS
    <2>1. StepKeeps
      BY NextKeeps
    <2>2. ASSUME NEW r \in Requests', NEW q \in Requests', q < r, wire'[q].kind \in WriterKind,
                 wire'[q].uri = wire'[r].uri, pc'[r] \in {"running", "done"}
          PROVE  pc'[q] \in Finished
      <3>1. r \in Requests /\ q \in Requests
        BY <2>1, <2>2 DEF StepKeeps
      <3>2. IsWriter(q) /\ wire[q].uri = wire[r].uri
        BY <2>1, <2>2, <3>1 DEF StepKeeps, IsWriter
      <3>3. pc[q] \in Finished
        <4>1. CASE pc[r] \in {"running", "done"}
          BY <2>2, <3>1, <3>2, <4>1 DEF NoOvertaking, Requests
        <4>2. CASE Start(r)
          BY <2>2, <3>1, <3>2, <4>2, StartIsInTurn
        <4> QED
          BY <2>1, <2>2, <3>1, <4>1, <4>2 DEF StepKeeps
      <3> QED
        BY <2>1, <3>1, <3>3 DEF StepKeeps
    <2> QED
      BY <2>2 DEF NoOvertaking, Requests, IsWriter, Finished
  <1> QED
    BY <1>1, <1>2, InvariantHolds, PTL DEF Safety

-----------------------------------------------------------------------------
(* The sequencer implements the wire order: every step it takes is one the *)
(* promise allows, for any documents and any number of requests.  (That it *)
(* also gives every request its turn is checked by TLC.)                   *)
THEOREM RefinesWireOrder == Safety => Wire!Safety
  <1>1. Init => Wire!Init
    BY DEF Init, Wire!Init
  <1>2. IInv /\ [Next]_vars => [Wire!Next]_Wire!vars
    <2> SUFFICES ASSUME IInv, [Next]_vars
                 PROVE  Wire!Next \/ UNCHANGED Wire!vars
      OBVIOUS
    <2>1. ASSUME NEW k \in Kind, NEW u \in Uri, Receive(k, u)
          PROVE  Wire!Next
      <3>1. Wire!Receive(k, u)
        BY <2>1 DEF Receive, Wire!Receive, Wire!Waiting
      <3> QED
        BY <2>1, <3>1 DEF Wire!Next, Wire!Kind, Wire!WriterKind, Kind, WriterKind
    <2>2. ASSUME NEW u \in Uri,
                 \/ \E k \in WriterKind : CallWriter(k, u) \/ CallFirstWriter(k, u)
                 \/ CallReader(u)
          PROVE  Wire!Next
      BY <2>1, <2>2 DEF CallWriter, CallFirstWriter, CallReader, Kind
    <2>3. ASSUME NEW r \in Requests, Start(r)
          PROVE  Wire!Next
      <3>1. Wire!PredecessorsOver(r)
        <4> SUFFICES ASSUME NEW q \in 1..(r - 1), IsWriter(q), wire[q].uri = wire[r].uri
                     PROVE  pc[q] \in Finished
          BY DEF Wire!PredecessorsOver, Wire!IsWriter, Wire!WriterKind, Wire!Finished,
                 IsWriter, WriterKind, Finished
        <4>1. q \in Requests /\ q < r
          BY DEF Requests, IInv, TypeOK
        <4> QED
          BY <2>3, <4>1, StartIsInTurn
      <3>2. Wire!Start(r)
        BY <2>3, <3>1 DEF Start, Wire!Start, Wire!Waiting, Wire!Running
      <3> QED
        BY <3>2 DEF Wire!Next, Requests
    <2>4. ASSUME NEW r \in Requests, FinishWriter(r) \/ FinishReader(r)
          PROVE  Wire!Next
      <3>1. Wire!Finish(r)
        BY <2>4 DEF FinishWriter, FinishClose, FinishReader, Wire!Finish, Wire!Running
      <3> QED
        BY <3>1 DEF Wire!Next, Requests
    <2>5. ASSUME NEW r \in Requests, DropWriter(r) \/ DropReader(r)
          PROVE  Wire!Next
      <3>1. Wire!Drop(r)
        BY <2>5 DEF DropWriter, DropReader, Wire!Drop, Wire!Waiting, Wire!Running
      <3> QED
        BY <3>1 DEF Wire!Next, Requests
    <2>6. CASE UNCHANGED vars
      BY <2>6 DEF vars, Wire!vars
    <2> QED
      BY <2>2, <2>3, <2>4, <2>5, <2>6 DEF Next, Requests
  <1> QED
    BY <1>1, <1>2, InvariantHolds, PTL DEF Safety, Wire!Safety

-----------------------------------------------------------------------------
(* A writer that is not over finds its document's entry in the map.        *)
LEMMA QueuedHasEntry ==
  ASSUME IInv, NEW r \in Requests, IsWriter(r), pc[r] \notin Finished
  PROVE  docs[wire[r].uri] = gate[r].seq /\ docs[wire[r].uri] # 0
  BY TypeFacts DEF IInv, Current, Issued

(* An open document has an entry, so LiveEntryKept needs only this and IInv.  *)
OpenHasEntry == \A u \in Uri : open[u] => docs[u] # 0

(* Every step keeps the entry of an open document.                          *)
LEMMA OpenHasEntryStep ==
  ASSUME IInv, OpenHasEntry, [Next]_vars
  PROVE  OpenHasEntry'
  <1>1. docs \in [Uri -> Nat] /\ open \in [Uri -> BOOLEAN] /\ Len(seqs) \in Nat
    BY DEF IInv, TypeOK
  <1>2. ASSUME NEW u \in Uri, NEW k \in WriterKind, CallWriter(k, u) \/ CallFirstWriter(k, u)
        PROVE  OpenHasEntry'
    BY <1>1, <1>2 DEF CallWriter, CallFirstWriter, Receive, OpenHasEntry
  <1>3. ASSUME NEW u \in Uri, CallReader(u)
        PROVE  OpenHasEntry'
    BY <1>3 DEF CallReader, Receive, OpenHasEntry
  <1>4. ASSUME NEW r \in Requests, FinishWriter(r)
        PROVE  OpenHasEntry'
    <2> DEFINE v == wire[r].uri
    <2>1. docs[v] # 0 /\ v \in Uri
      BY <1>4, QueuedHasEntry, TypeFacts DEF FinishWriter, FinishClose, IInv, Finished
    <2>2. CASE Reclaims(r)
      <3>1. ~open'[v]
        BY <1>1, <1>4, <2>1, <2>2 DEF FinishWriter, FinishClose, Reclaims, OpenAfter
      <3> QED
        BY <1>1, <1>4, <2>1, <3>1 DEF FinishWriter, FinishClose, OpenHasEntry
    <2>3. CASE ~Reclaims(r)
      BY <1>1, <1>4, <2>1, <2>3 DEF FinishWriter, FinishClose, OpenHasEntry
    <2> QED
      BY <2>2, <2>3
  <1>5. ASSUME NEW r \in Requests, DropWriter(r)
        PROVE  OpenHasEntry'
    <2>1. docs[wire[r].uri] # 0
      BY <1>5, QueuedHasEntry DEF DropWriter, Finished
    <2> QED
      BY <1>1, <1>5, <2>1 DEF DropWriter, OpenHasEntry
  <1>6. ASSUME UNCHANGED <<open, docs>>
        PROVE  OpenHasEntry'
    BY <1>6 DEF OpenHasEntry
  <1> QED
    BY <1>2, <1>3, <1>4, <1>5, <1>6
       DEF Next, Requests, Start, FinishReader, DropReader, vars

(* An open document, and one with queued writers, keeps its entry          *)
(* (IngressOrder's LiveEntryKept).                                         *)
THEOREM LiveEntryKeptHolds == Safety => []LiveEntryKept
  <1>1. Init => OpenHasEntry
    BY DEF Init, OpenHasEntry
  <1>2. IInv /\ OpenHasEntry /\ [Next]_vars => OpenHasEntry'
    BY OpenHasEntryStep
  <1>3. IInv /\ OpenHasEntry => LiveEntryKept
    BY QueuedHasEntry DEF OpenHasEntry, LiveEntryKept, Requests
  <1> QED
    BY <1>1, <1>2, <1>3, InvariantHolds, PTL DEF Safety

(* A didClose that ran to its end and is its document's last writer left   *)
(* no entry behind (IngressOrder's ClosedEntryReclaimed).                  *)
LastCloseDone(r) ==
  /\ wire[r].kind = "close" /\ pc[r] = "done"
  /\ \A q \in Requests : q > r /\ wire[q].uri = wire[r].uri => ~IsWriter(q)

Reclaimed == \A r \in Requests : LastCloseDone(r) => docs[wire[r].uri] = 0

(* The last writer's didClose, returning, leaves no entry in the map.       *)
LEMMA LastCloseRemoves ==
  ASSUME IInv, NEW r \in Requests, FinishWriter(r), wire[r].kind = "close",
         \A q \in Requests : q > r /\ wire[q].uri = wire[r].uri => ~IsWriter(q)
  PROVE  docs'[wire[r].uri] = 0
  <1> DEFINE u == wire[r].uri
  <1>1. u \in Uri /\ docs[u] = gate[r].seq /\ docs[u] # 0 /\ docs \in [Uri -> Nat]
    BY QueuedHasEntry, TypeFacts DEF FinishWriter, FinishClose, Finished, IInv, TypeOK
  <1>2. PICK q \in Requests : /\ IsWriter(q) /\ wire[q].uri = u
                              /\ gate[q].seq = docs[u]
                              /\ gate[q].ticket = seqs[docs[u]].tail
    BY <1>1 DEF IInv, TailHeld
  <1>3. ~(q < r)
    <2> SUFFICES ASSUME q < r
                 PROVE  FALSE
      OBVIOUS
    <2>1. gate[q].ticket < gate[r].ticket
      BY <1>1, <1>2 DEF FinishWriter, FinishClose, IInv, WritersOrdered
    <2>2. gate[r].ticket \in 1..seqs[gate[r].seq].tail /\ seqs[gate[r].seq].tail \in Nat
      BY SeqsFacts DEF FinishWriter, FinishClose, IInv, Issued, TypeOK
    <2> QED
      BY <1>1, <1>2, <2>1, <2>2
  <1>4. q = r
    BY <1>2, <1>3 DEF Requests
  <1> QED
    BY <1>1, <1>2, <1>4 DEF FinishWriter, FinishClose, Reclaims

(* A writer is done only by returning.                                     *)
LEMMA DoneByFinishing ==
  ASSUME IInv, [Next]_vars, NEW r \in Requests, IsWriter(r),
         pc[r] # "done", pc'[r] = "done"
  PROVE  FinishWriter(r)
  <1> USE DEF Requests
  <1>1. Len(pc) = Len(wire) /\ pc \in Seq({"waiting", "running"} \cup Finished)
    BY DEF IInv, TypeOK
  <1>2. ASSUME NEW k \in Kind, NEW u \in Uri, Receive(k, u)
        PROVE  FALSE
    BY <1>1, <1>2 DEF Receive
  <1>3. ASSUME NEW q \in Requests, NEW d, pc' = [pc EXCEPT ![q] = d], q # r \/ d # "done"
        PROVE  FALSE
    BY <1>1, <1>3
  <1>4. ASSUME NEW q \in Requests,
               Start(q) \/ DropWriter(q) \/ DropReader(q) \/ FinishReader(q)
        PROVE  FALSE
    <2>1. q # r \/ ~FinishReader(q)
      BY DEF FinishReader
    <2> QED
      BY <1>3, <1>4, <2>1 DEF Start, DropWriter, DropReader, FinishReader
  <1>5. ASSUME NEW q \in Requests, FinishWriter(q), q # r
        PROVE  FALSE
    BY <1>3, <1>5 DEF FinishWriter, FinishClose
  <1> QED
    BY <1>2, <1>4, <1>5
       DEF Next, vars, CallWriter, CallFirstWriter, CallReader, Kind

(* An entry appears only with a new writer of its document.                *)
LEMMA EntryByCalling ==
  ASSUME IInv, [Next]_vars, NEW u \in Uri, docs[u] = 0, docs'[u] # 0
  PROVE  \E n \in Requests' \ Requests : IsWriter(n)' /\ wire'[n].uri = u
  <1>1. docs \in [Uri -> Nat] /\ wire \in Seq([kind : Kind, uri : Uri])
    BY DEF IInv, TypeOK
  <1>2. PICK k \in WriterKind : CallFirstWriter(k, u)
    <2>1. ASSUME NEW v \in Uri, NEW k \in WriterKind, CallFirstWriter(k, v), v # u
          PROVE  FALSE
      BY <1>1, <2>1 DEF CallFirstWriter
    <2>2. ASSUME NEW r \in Requests, FinishWriter(r)
          PROVE  FALSE
      BY <1>1, <2>2 DEF FinishWriter, FinishClose
    <2> QED
      BY <2>1, <2>2 DEF Next, Requests, vars, CallWriter, CallReader, Start, FinishReader,
                        DropWriter, DropReader
  <1>3. wire' = Append(wire, [kind |-> k, uri |-> u])
    BY <1>2 DEF CallFirstWriter, Receive
  <1>4. [kind |-> k, uri |-> u] \in [kind : Kind, uri : Uri]
    BY DEF Kind
  <1>5. /\ Len(wire) \in Nat /\ Len(wire') = Len(wire) + 1
        /\ wire'[Len(wire) + 1] = [kind |-> k, uri |-> u]
    BY <1>1, <1>3, <1>4
  <1>6. PICK n : n = Len(wire) + 1
    OBVIOUS
  <1>7. n \in Requests' /\ n \notin Requests
    BY <1>5, <1>6 DEF Requests
  <1>8. wire'[n].kind = k /\ wire'[n].uri = u
    BY <1>5, <1>6
  <1> QED
    BY <1>7, <1>8 DEF IsWriter

(* Every step keeps a closed document's entry out of the map.               *)
LEMMA ReclaimedStep ==
  ASSUME IInv, Reclaimed, [Next]_vars
  PROVE  Reclaimed'
  <1> SUFFICES ASSUME NEW r \in Requests', LastCloseDone(r)'
               PROVE  docs'[wire'[r].uri] = 0
    BY DEF Reclaimed
  <1> DEFINE u == wire[r].uri
  <1>1. StepKeeps
    BY NextKeeps
  <1>2. pc'[r] = "done"
    BY DEF LastCloseDone
  <1>3. r \in Requests /\ wire'[r] = wire[r] /\ wire[r].kind = "close" /\ IsWriter(r)
    BY <1>1, <1>2 DEF StepKeeps, LastCloseDone, IsWriter, WriterKind
  <1>4. \A q \in Requests : q > r /\ wire[q].uri = u => ~IsWriter(q)
    BY <1>1, <1>3 DEF StepKeeps, LastCloseDone, IsWriter
  <1>5. u \in Uri /\ docs \in [Uri -> Nat]
    BY <1>3, TypeFacts DEF IInv, TypeOK
  <1>6. CASE pc[r] # "done"
    <2>1. FinishWriter(r)
      BY <1>2, <1>3, <1>6, DoneByFinishing
    <2> QED
      BY <1>3, <1>4, <2>1, LastCloseRemoves
  <1>7. CASE pc[r] = "done"
    <2>1. docs[u] = 0
      BY <1>3, <1>4, <1>7 DEF Reclaimed, LastCloseDone
    <2>2. ASSUME NEW n \in Requests' \ Requests, IsWriter(n)', wire'[n].uri = u
          PROVE  FALSE
      <3>1. n > r
        BY <1>1, <1>3 DEF StepKeeps, Requests, IInv, TypeOK
      <3> QED
        BY <1>3, <2>2, <3>1 DEF LastCloseDone
    <2> QED
      BY <1>3, <1>5, <2>1, <2>2, EntryByCalling
  <1> QED
    BY <1>6, <1>7

(* A document whose last writer was a completed didClose keeps no entry   *)
(* (IngressOrder's ClosedEntryReclaimed).                                   *)
THEOREM ClosedEntryReclaimedHolds == Safety => []ClosedEntryReclaimed
  <1>1. Init => Reclaimed
    BY DEF Init, Reclaimed, Requests
  <1>2. IInv /\ Reclaimed /\ [Next]_vars => Reclaimed'
    BY ReclaimedStep
  <1>3. IInv /\ Reclaimed => ClosedEntryReclaimed
    <2> SUFFICES ASSUME IInv, Reclaimed, NEW r \in Requests,
                        wire[r].kind = "close", pc[r] = "done",
                        \A q \in (r + 1)..Len(wire) : wire[q].uri = wire[r].uri => ~IsWriter(q)
                 PROVE  docs[wire[r].uri] = 0
      BY DEF ClosedEntryReclaimed, Requests
    <2>1. ASSUME NEW q \in Requests, q > r
          PROVE  q \in (r + 1)..Len(wire)
      BY <2>1 DEF Requests
    <2> QED
      BY <2>1 DEF Reclaimed, LastCloseDone
  <1> QED
    BY <1>1, <1>2, <1>3, InvariantHolds, PTL DEF Safety

(* The map keeps the entries of live documents and no others               *)
(* (IngressOrder's EntriesAreExact).                                        *)
THEOREM EntriesAreExactHolds == Safety => []EntriesAreExact
  <1>1. LiveEntryKept /\ ClosedEntryReclaimed => EntriesAreExact
    BY DEF EntriesAreExact
  <1> QED
    BY <1>1, LiveEntryKeptHolds, ClosedEntryReclaimedHolds, PTL
=============================================================================
