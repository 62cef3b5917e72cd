------------------------ MODULE DiagnosticPublishProofs ------------------------
(***************************************************************************)
(* SendsInOrder and NothingOutlivesClose of DiagnosticPublish, for any     *)
(* number of lifetimes, events and trailing publishes.                     *)
(*                                                                         *)
(* Behind the first is the invariant of the republish lock: whoever has    *)
(* taken its snapshot is first in the queue, and read the cache no earlier *)
(* than what the editor is shown.  Behind the second, CloseInv, which      *)
(* rests on it: from didClose's eviction on, whatever a publish in flight  *)
(* may still show of the closed document is followed by a queued publish   *)
(* that clears it.  The types (PubInv) come last.                          *)
(***************************************************************************)
EXTENDS DiagnosticPublish, SequenceTheorems, FiniteSetTheorems, TLAPS

Queued(p, q) == \E i \in 1..Len(q) : q[i] = p
Holds(p) == rep[p].pc \notin {"none", "want"}

IsRep(r) == r = [i \in {"pc", "rev", "at", "set", "activity"} |-> r[i]]

LockInv ==
  /\ queue \in Seq(Publisher)
  /\ allocated \in Nat /\ shownAt \in Nat /\ shownAt <= allocated
  /\ rep = [p \in Publisher |-> rep[p]]
  /\ \A p \in Publisher : IsRep(rep[p])
  /\ \A p \in Publisher : rep[p].pc # "none" => Queued(p, queue)
  /\ \A p \in Publisher : Holds(p) =>
        /\ queue # <<>> /\ Head(queue) = p
        /\ rep[p].at \in shownAt..allocated

-----------------------------------------------------------------------------
(* The queue.                                                              *)

(* Who leaves takes nobody's place: the others stay queued, and the first  *)
(* of them stays first.                                                    *)
LEMMA WithoutFacts ==
  ASSUME queue \in Seq(Publisher), NEW p
  PROVE  /\ Without(p) \in Seq(Publisher)
         /\ \A q \in Publisher : Queued(q, queue) /\ q # p => Queued(q, Without(p))
         /\ queue # <<>> /\ Head(queue) # p => Without(p) # <<>> /\ Head(Without(p)) = Head(queue)
  <1>. DEFINE n == Len(queue)
  <1>. n \in Nat
    OBVIOUS
  <1>1. CASE ~ \E i \in 1..n : queue[i] = p
    BY <1>1 DEF Without
  <1>2. CASE \E i \in 1..n : queue[i] = p
    <2>. DEFINE k == Place(p)
                a == SubSeq(queue, 1, k - 1)
                b == SubSeq(queue, k + 1, n)
                w == a \o b
    <2>1. k \in 1..n /\ queue[k] = p
      BY <1>2 DEF Place
    <2>2. Without(p) = w
      BY <1>2 DEF Without
    <2>. HIDE DEF k
    <2>3. /\ a \in Seq(Publisher) /\ Len(a) = k - 1
          /\ \A i \in 1..(k - 1) : a[i] = queue[i]
      <3>1. k - 1 \in Int /\ \A i \in 1..(k - 1) : queue[i] \in Publisher
        BY <2>1, ElementOfSeq
      <3>. HIDE DEF a
      <3>2. /\ a \in Seq(Publisher) /\ Len(a) = IF 1 <= k - 1 THEN k - 1 - 1 + 1 ELSE 0
            /\ \A i \in 1..(k - 1 - 1 + 1) : a[i] = queue[1 + i - 1]
        BY <3>1, SubSeqProperties DEF a
      <3>. QED  BY <2>1, <3>2
    <2>4. /\ b \in Seq(Publisher) /\ Len(b) = n - k
          /\ \A i \in 1..(n - k) : b[i] = queue[k + i]
      <3>1. k + 1 \in Int /\ \A i \in (k + 1)..n : queue[i] \in Publisher
        BY <2>1, ElementOfSeq
      <3>. HIDE DEF b
      <3>2. /\ b \in Seq(Publisher) /\ Len(b) = IF k + 1 <= n THEN n - (k + 1) + 1 ELSE 0
            /\ \A i \in 1..(n - (k + 1) + 1) : b[i] = queue[(k + 1) + i - 1]
        BY <3>1, SubSeqProperties DEF b
      <3>. QED  BY <2>1, <3>2
    <2>. HIDE DEF a, b
    <2>5. /\ w \in Seq(Publisher) /\ Len(w) = (k - 1) + (n - k)
          /\ \A i \in 1..((k - 1) + (n - k)) : w[i] = IF i <= k - 1 THEN a[i] ELSE b[i - (k - 1)]
      <3>1. /\ w \in Seq(Publisher) /\ Len(w) = Len(a) + Len(b)
            /\ \A i \in 1..(Len(a) + Len(b)) : w[i] = IF i <= Len(a) THEN a[i] ELSE b[i - Len(a)]
        BY <2>3, <2>4, ConcatProperties, Zenon
      <3>. HIDE DEF w
      <3>. QED  BY <2>3, <2>4, <3>1
    <2>. HIDE DEF w
    <2>6. w \in Seq(Publisher) /\ Len(w) = n - 1
      BY <2>1, <2>5
    <2>9. ASSUME NEW i \in 1..(n - 1), i < k PROVE w[i] = queue[i]
      <3>1. i \in 1..(k - 1) /\ i \in 1..((k - 1) + (n - k))
        BY <2>1, <2>9
      <3>2. w[i] = a[i]
        BY <2>1, <2>5, <3>1
      <3>. QED  BY <2>3, <3>1, <3>2
    <2>10. ASSUME NEW i \in 1..(n - 1), i >= k PROVE w[i] = queue[i + 1]
      <3>. DEFINE j == i - (k - 1)
      <3>1. j \in 1..(n - k) /\ i \in 1..((k - 1) + (n - k)) /\ ~(i <= k - 1) /\ k + j = i + 1
        BY <2>1, <2>10
      <3>2. w[i] = b[j]
        BY <2>5, <3>1
      <3>. HIDE DEF j
      <3>3. b[j] = queue[k + j]
        BY <2>4, <3>1
      <3>. QED  BY <3>1, <3>2, <3>3
    <2>7. ASSUME NEW q \in Publisher, Queued(q, queue), q # p PROVE Queued(q, w)
      <3>1. PICK i \in 1..n : queue[i] = q
        BY <2>7 DEF Queued
      <3>2. CASE i < k
        <4>1. i \in 1..(n - 1) /\ w[i] = queue[i]
          BY <2>1, <2>9, <3>2
        <4>. QED  BY <2>6, <3>1, <4>1 DEF Queued
      <3>3. CASE k < i
        <4>1. i - 1 \in 1..(n - 1) /\ w[i - 1] = queue[i]
          <5>1. i - 1 \in 1..(n - 1) /\ i - 1 >= k /\ (i - 1) + 1 = i
            BY <2>1, <3>3
          <5>. QED  BY <2>10, <5>1
        <4>. QED  BY <2>6, <3>1, <4>1 DEF Queued
      <3>4. i # k
        BY <2>1, <2>7, <3>1
      <3>5. i < k \/ k < i
        BY <2>1, <3>4
      <3>. QED  BY <3>2, <3>3, <3>5
    <2>8. ASSUME queue # <<>>, Head(queue) # p PROVE w # <<>> /\ Head(w) = Head(queue)
      <3>1. queue[1] = Head(queue)
        BY <2>8
      <3>2. k # 1 /\ n - 1 >= 1
        BY <2>1, <2>8, <3>1
      <3>3. w[1] = queue[1] /\ w # <<>>
        <4>1. 1 \in 1..(n - 1) /\ 1 < k
          BY <2>1, <3>2
        <4>. QED  BY <2>6, <2>9, <4>1
      <3>. QED  BY <2>6, <3>1, <3>3
    <2>. QED  BY <2>2, <2>6, <2>7, <2>8
  <1>. QED  BY <1>1, <1>2

LEMMA AppendFacts ==
  ASSUME queue \in Seq(Publisher), NEW p \in Publisher
  PROVE  /\ Append(queue, p) \in Seq(Publisher)
         /\ Queued(p, Append(queue, p))
         /\ \A q \in Publisher : Queued(q, queue) => Queued(q, Append(queue, p))
         /\ queue # <<>> => Append(queue, p) # <<>> /\ Head(Append(queue, p)) = Head(queue)
  <1>1. /\ Append(queue, p) \in Seq(Publisher) /\ Append(queue, p) # <<>>
        /\ Len(Append(queue, p)) = Len(queue) + 1
        /\ \A i \in 1..Len(queue) : Append(queue, p)[i] = queue[i]
        /\ Append(queue, p)[Len(queue) + 1] = p
    BY AppendProperties
  <1>2. Len(queue) \in Nat
    OBVIOUS
  <1>. QED  BY <1>1, <1>2, HeadTailAppend DEF Queued

-----------------------------------------------------------------------------
(* What a step does to the lock.                                           *)

Counts == allocated' \in {allocated, allocated + 1}

(* A publisher queues.                                                     *)
LEMMA WantKeeps ==
  ASSUME LockInv, NEW p \in Publisher, Want(p), Counts, UNCHANGED sent
  PROVE  LockInv'
  <1>1. rep' = [rep EXCEPT ![p] = [NoRep EXCEPT !.pc = "want"]] /\ queue' = Append(queue, p)
    BY DEF Want
  <1>2. rep'[p].pc = "want" /\ IsRep(rep'[p]) /\ \A q \in Publisher : q # p => rep'[q] = rep[q]
    BY <1>1 DEF LockInv, NoRep, IsRep
  <1>3. rep' = [q \in Publisher |-> rep'[q]]
    BY <1>1 DEF LockInv
  <1>4. shownAt' = shownAt
    BY DEF sent
  <1>. QED  BY <1>1, <1>2, <1>3, <1>4, AppendFacts DEF LockInv, Holds, Counts

(* Nothing is sent, or what the holder read is.                            *)
Sends(p) == shownAt' = shownAt \/ (Holds(p) /\ shownAt' = rep[p].at)

(* A publisher is done, or is aborted.                                     *)
LEMMA FinishKeeps ==
  ASSUME LockInv, NEW p \in Publisher, Finish(p), Counts, Sends(p)
  PROVE  LockInv'
  <1>1. rep' = [rep EXCEPT ![p] = NoRep] /\ queue' = Without(p)
    BY DEF Finish
  <1>2. rep'[p].pc = "none" /\ IsRep(rep'[p]) /\ \A q \in Publisher : q # p => rep'[q] = rep[q]
    BY <1>1 DEF LockInv, NoRep, IsRep
  <1>3. rep' = [q \in Publisher |-> rep'[q]]
    BY <1>1 DEF LockInv
  <1>4. allocated' \in Nat /\ shownAt' \in Nat /\ shownAt' <= allocated'
    BY DEF LockInv, Counts, Sends
  <1>5. ASSUME NEW q \in Publisher, Holds(q)'
        PROVE  queue' # <<>> /\ Head(queue') = q /\ rep'[q].at \in shownAt'..allocated'
    <2>1. q # p /\ Holds(q) /\ rep'[q] = rep[q]
      BY <1>2, <1>5 DEF Holds
    <2>2. queue # <<>> /\ Head(queue) = q /\ rep[q].at \in shownAt..allocated
      BY <2>1 DEF LockInv
    <2>3. shownAt' = shownAt
      BY <2>1, <2>2 DEF LockInv, Sends
    <2>4. queue' # <<>> /\ Head(queue') = q
      BY <1>1, <2>1, <2>2, WithoutFacts DEF LockInv
    <2>. QED  BY <2>1, <2>2, <2>3, <2>4 DEF LockInv, Counts
  <1>6. \A q \in Publisher : rep'[q].pc # "none" => Queued(q, queue')
    BY <1>1, <1>2, WithoutFacts DEF LockInv
  <1>. QED  BY <1>1, <1>2, <1>3, <1>4, <1>5, <1>6, WithoutFacts DEF LockInv

(* The holder goes on with its snapshot.                                   *)
LEMMA HolderKeeps ==
  ASSUME LockInv, NEW p \in Publisher, queue # <<>>, Head(queue) = p, rep[p].pc # "none",
         NEW r, IsRep(r), r.pc # "none", r.at \in shownAt..allocated,
         rep' = [rep EXCEPT ![p] = r],
         UNCHANGED <<queue, allocated, shownAt>>
  PROVE  LockInv'
  <1>1. rep'[p] = r /\ \A q \in Publisher : q # p => rep'[q] = rep[q]
    BY DEF LockInv
  <1>2. rep' = [q \in Publisher |-> rep'[q]]
    BY DEF LockInv
  <1>3. \A q \in Publisher : IsRep(rep'[q])
    BY <1>1 DEF LockInv
  <1>4. \A q \in Publisher : Holds(q)' => queue # <<>> /\ Head(queue) = q /\ rep'[q].at \in shownAt..allocated
    BY <1>1 DEF LockInv, Holds
  <1>. QED  BY <1>1, <1>2, <1>3, <1>4 DEF LockInv

(* A step that only queues or takes out of the queue.                      *)
Waits ==
  /\ UNCHANGED repVars \/ \E p \in Publisher : Want(p) \/ Finish(p)
  /\ Counts /\ UNCHANGED sent

LEMMA WaitsKeeps ==
  ASSUME LockInv, Waits
  PROVE  LockInv' /\ shownAt' = shownAt
  <1>1. shownAt' = shownAt
    BY DEF Waits, sent
  <1>2. CASE UNCHANGED repVars
    BY <1>1, <1>2 DEF Waits, LockInv, repVars, Holds, Counts
  <1>3. CASE \E p \in Publisher : Want(p) \/ Finish(p)
    <2>1. PICK p \in Publisher : Want(p) \/ Finish(p)
      BY <1>3
    <2>2. Counts /\ UNCHANGED sent
      BY DEF Waits
    <2>3. Sends(p)
      BY <1>1 DEF Sends
    <2>. QED  BY <1>1, <2>1, <2>2, <2>3, WantKeeps, FinishKeeps
  <1>. QED  BY <1>1, <1>2, <1>3 DEF Waits

-----------------------------------------------------------------------------
(* The republish                                                           *)

LEMMA BeginKeeps ==
  ASSUME LockInv, NEW p \in Publisher, Begin(p)
  PROVE  LockInv' /\ shownAt' = shownAt
  <1>1. rep[p].pc = "want" /\ Head(queue) = p /\ allocated' = allocated /\ UNCHANGED sent /\ shownAt' = shownAt
    BY DEF Begin, RepFrame, cacheVars, sent
  <1>4. Counts
    BY <1>1 DEF Counts
  <1>2. CASE Finish(p)
    <2>1. Sends(p)
      BY <1>1 DEF Sends
    <2>. QED  BY <1>1, <1>2, <1>4, <2>1, FinishKeeps
  <1>3. CASE Snapshot(p) /\ UNCHANGED queue
    <2>. DEFINE r == [rep[p] EXCEPT !.pc = "merged", !.rev = revision, !.at = allocated, !.set = Merged]
    <2>1. rep' = [rep EXCEPT ![p] = r]
      BY <1>3 DEF Snapshot
    <2>2. IsRep(r) /\ r.pc = "merged" /\ r.at = allocated
      <3>1. IsRep(rep[p])
        BY DEF LockInv
      <3>. QED  BY <3>1 DEF IsRep
    <2>3. queue # <<>>
      BY <1>1 DEF LockInv, Queued
    <2>4. r.at \in shownAt..allocated
      BY <2>2 DEF LockInv
    <2>. HIDE DEF r
    <2>. QED  BY <1>1, <1>3, <2>1, <2>2, <2>3, <2>4, HolderKeeps
  <1>. QED  BY <1>2, <1>3 DEF Begin

(* A step of the holder that keeps its snapshot.                           *)
LEMMA GoesOnKeeps ==
  ASSUME LockInv, NEW p \in Publisher, Holds(p), NEW pc \in {"recorded", "clearing", "sending"},
         NEW act, rep' = [rep EXCEPT ![p].pc = pc, ![p].activity = act],
         UNCHANGED <<queue, allocated, shownAt>>
  PROVE  LockInv'
  <1>. DEFINE r == [rep[p] EXCEPT !.pc = pc, !.activity = act]
  <1>1. rep' = [rep EXCEPT ![p] = r]
    <2>1. rep = [q \in Publisher |-> rep[q]]
      BY DEF LockInv
    <2>. QED  BY <2>1
  <1>2. IsRep(r) /\ r.pc = pc /\ r.at = rep[p].at
    <2>1. IsRep(rep[p])
      BY DEF LockInv
    <2>. QED  BY <2>1 DEF IsRep
  <1>3. queue # <<>> /\ Head(queue) = p /\ rep[p].at \in shownAt..allocated /\ rep[p].pc # "none"
    BY DEF LockInv, Holds
  <1>. HIDE DEF r
  <1>. QED  BY <1>1, <1>2, <1>3, HolderKeeps

LEMMA CompareKeeps ==
  ASSUME LockInv, NEW p \in Publisher, Compare(p)
  PROVE  LockInv' /\ shownAt' = shownAt
  <1>1. Holds(p) /\ allocated' = allocated /\ UNCHANGED sent /\ shownAt' = shownAt
    BY DEF Compare, Holds, RepFrame, cacheVars, sent
  <1>2. \/ Finish(p)
        \/ /\ \E pc \in {"recorded", "clearing"}, act \in BOOLEAN :
                 rep' = [rep EXCEPT ![p].pc = pc, ![p].activity = act]
           /\ UNCHANGED queue
    BY DEF Compare
  <1>4. Counts
    BY <1>1 DEF Counts
  <1>3. CASE Finish(p)
    <2>1. shownAt' = shownAt
      BY <1>1
    <2>2. Sends(p)
      BY <2>1 DEF Sends
    <2>. QED  BY <1>3, <1>4, <2>1, <2>2, FinishKeeps
  <1>. QED  BY <1>1, <1>2, <1>3, GoesOnKeeps

LEMMA AdmitKeeps ==
  ASSUME LockInv, NEW p \in Publisher, Admit(p)
  PROVE  LockInv' /\ shownAt' = shownAt
  <1>1. Holds(p) /\ allocated' = allocated /\ UNCHANGED sent /\ shownAt' = shownAt
    BY DEF Admit, Holds, RepFrame, cacheVars, sent
  <1>2. \/ Finish(p)
        \/ /\ rep' = [rep EXCEPT ![p].pc = "sending", ![p].activity = FALSE]
           /\ UNCHANGED queue
    BY DEF Admit, Settle
  <1>4. Counts
    BY <1>1 DEF Counts
  <1>3. CASE Finish(p)
    <2>1. shownAt' = shownAt
      BY <1>1
    <2>2. Sends(p)
      BY <2>1 DEF Sends
    <2>. QED  BY <1>3, <1>4, <2>1, <2>2, FinishKeeps
  <1>. QED  BY <1>1, <1>2, <1>3, GoesOnKeeps

(* What is sent was read no earlier than what was shown.                   *)
LEMMA SendKeeps ==
  ASSUME LockInv, NEW p \in Publisher, Send(p) \/ SendClosed(p)
  PROVE  LockInv' /\ shownAt' >= shownAt
  <1>1. Holds(p) /\ Finish(p) /\ allocated' = allocated /\ shownAt' = rep[p].at
    BY DEF Send, SendClosed, Shows, Holds, RepFrame, cacheVars
  <1>2. rep[p].at \in shownAt..allocated
    BY <1>1 DEF LockInv
  <1>3. Counts
    BY <1>1 DEF Counts
  <1>6. Sends(p)
    BY <1>1 DEF Sends
  <1>4. LockInv'
    BY <1>1, <1>3, <1>6, FinishKeeps
  <1>5. shownAt \in Nat /\ allocated \in Nat
    BY DEF LockInv
  <1>. QED  BY <1>1, <1>2, <1>4, <1>5

LEMMA RepublishKeeps ==
  ASSUME LockInv, NEW p \in Publisher, Republish(p)
  PROVE  LockInv' /\ shownAt' >= shownAt
  <1>1. shownAt \in Nat
    BY DEF LockInv
  <1>. QED  BY <1>1, BeginKeeps, CompareKeeps, AdmitKeeps, SendKeeps DEF Republish

-----------------------------------------------------------------------------
(* Everything else only queues or leaves the queue.                        *)

LEMMA Names == Task \subseteq Publisher /\ Trail \subseteq Publisher
  BY DEF Publisher

LEMMA RegisterWaits ==
  ASSUME NEW key, NEW pc, Register(key, pc)
  PROVE  UNCHANGED repVars \/ \E p \in Publisher : Finish(p)
  <1>1. "task" \in Publisher
    BY DEF Publisher, Task
  <1>. QED  BY <1>1 DEF Register

LEMMA PullsWait ==
  ASSUME TimerFires \/ SaveRegisters \/ PrefetchCommits \/ Pulls
  PROVE  Waits
  <1>1. UNCHANGED sent
    BY DEF TimerFires, SaveRegisters, PrefetchCommits, Pulls, TreeCame, Commit, PullFrame
  <1>2. CASE TimerFires \/ SaveRegisters
    <2>1. Counts
      BY <1>2 DEF TimerFires, SaveRegisters, Counts, cacheVars
    <2>2. UNCHANGED repVars \/ \E key, pc : Register(key, pc)
      BY <1>2 DEF TimerFires, SaveRegisters, repVars
    <2>. QED  BY <1>1, <2>1, <2>2, RegisterWaits DEF Waits
  <1>3. CASE PrefetchCommits \/ TreeCame \/ Commit
    <2>1. Counts
      BY <1>3 DEF PrefetchCommits, TreeCame, Commit, SetPull, Bump, Keep, Counts, cacheVars
    <2>2. UNCHANGED repVars \/ \E p \in Task : Want(p)
      BY <1>3 DEF PrefetchCommits, TreeCame, Commit, Task
    <2>. QED  BY <1>1, <2>1, <2>2, Names DEF Waits
  <1>. QED  BY <1>2, <1>3 DEF Pulls

LEMMA ParsesWait ==
  ASSUME Parse
  PROVE  Waits
  <1>1. UNCHANGED sent /\ Counts
    BY DEF Parse, OpenParsed, OpenRegisters, Pass, Remerge, Prepare, Arm, ParseFrame, Counts, cacheVars
  <1>2. UNCHANGED repVars \/ (\E key, pc : Register(key, pc)) \/ (\E p \in Task : Want(p))
    BY DEF Parse, OpenParsed, OpenRegisters, Pass, Remerge, Prepare, Arm, Task
  <1>. QED  BY <1>1, <1>2, RegisterWaits, Names DEF Waits

LEMMA HandlersWait ==
  ASSUME Outside \/ RecordPush \/ Edit
  PROVE  Waits
  <1>1. UNCHANGED sent
    BY DEF Outside, RecordPush, Edit, DidOpen, DidChange, DidClose, Save, Prefetch, Resolve, ServerDies,
           Invalidate, Evicts, Forgets, EditorFrame, PullFrame, ConsumerFrame, CloseFrame
  <1>2. Counts
    BY DEF Outside, RecordPush, Edit, DidOpen, DidChange, DidClose, Save, Prefetch, Resolve, ServerDies,
           Invalidate, Evicts, Forgets, Record, Evict, EvictHost, Bump, Keep, Counts, cacheVars
  <1>3. UNCHANGED repVars \/ \E p \in Task : Want(p)
    BY DEF Outside, RecordPush, Edit, DidOpen, DidChange, DidClose, Save, Prefetch, Resolve, ServerDies,
           Invalidate, Evicts, Forgets, Task
  <1>. QED  BY <1>1, <1>2, <1>3, Names DEF Waits

LEMMA TrailWaits ==
  ASSUME NEW t \in Trail, TrailWakes(t) \/ TrailDies(t)
  PROVE  Waits
  BY Names DEF TrailWakes, TrailDies, TrailFrame, Waits, Counts, cacheVars

-----------------------------------------------------------------------------
LEMMA LockInit == Init => LockInv
  <1>1. <<>> \in Seq(Publisher)
    OBVIOUS
  <1>. SUFFICES ASSUME Init PROVE LockInv
    OBVIOUS
  <1>2. queue = <<>> /\ rep = [p \in Publisher |-> NoRep] /\ allocated = 0 /\ shownAt = 0
    BY Zenon DEF Init
  <1>3. \A p \in Publisher : IsRep(rep[p]) /\ rep[p].pc = "none" /\ ~Holds(p)
    BY <1>2 DEF IsRep, NoRep, Holds
  <1>. QED  BY <1>1, <1>2, <1>3 DEF LockInv

LEMMA LockNext == LockInv /\ [Next]_vars => LockInv' /\ shownAt' >= shownAt
  <1>. SUFFICES ASSUME LockInv, [Next]_vars PROVE LockInv' /\ shownAt' >= shownAt
    OBVIOUS
  <1>1. shownAt \in Nat
    BY DEF LockInv
  <1>2. CASE \E p \in Publisher : Republish(p)
    BY <1>2, RepublishKeeps
  <1>3. CASE Waits
    BY <1>1, <1>3, WaitsKeeps
  <1>4. CASE UNCHANGED vars
    BY <1>4, <1>3 DEF vars, Waits, Counts, cacheVars
  <1>. QED  BY <1>2, <1>3, <1>4, PullsWait, ParsesWait, HandlersWait, TrailWaits DEF Next

(* The invariant of the republish lock holds throughout.                   *)
THEOREM LockInvariant == Spec => []LockInv
  <1>. QED  BY LockInit, LockNext, PTL DEF Spec

(* No merge is sent after one that was read later, for any trailing        *)
(* publishes, lifetimes and events.                                        *)
THEOREM SendsInOrderHolds == Spec => SendsInOrder
  <1>1. LockInv /\ [Next]_vars => [shownAt' >= shownAt]_vars
    BY LockNext
  <1>. QED  BY <1>1, LockInvariant, PTL DEF Spec, SendsInOrder

-----------------------------------------------------------------------------
(* What keeps a closed document off the screen: the invariant behind       *)
(* NothingOutlivesClose.                                                   *)

IsGate(g) == g = [i \in {"live", "sent", "seen", "due", "pending", "dirty"} |-> g[i]]

(* didClose has emptied the cache, and no didOpen came after it.           *)
Dark == ~doc.open /\ editor \in {"clearing", "idle"}

Showing == {"recorded", "clearing", "sending"}
Busy == \E p \in Publisher : rep[p].pc \in Showing
Going == \E p \in Publisher : rep[p].pc \in {"recorded", "sending"}

Records ==
  /\ IsGate(gate)
  /\ doc = [i \in {"inc", "ver", "open", "region"} |-> doc[i]]
  /\ loop = [i \in {"pc", "of", "snap"} |-> loop[i]]
  /\ trail = [t \in Trail |-> trail[t]]
  /\ slots = [r \in Region |-> slots[r]]

(* The counters keep below their bounds, so a merge is never Unknown.      *)
Counted ==
  /\ doc.inc \in Nat /\ doc.ver \in Nat /\ doc.region \in Nat /\ events \in Nat
  /\ doc.inc <= MaxOpens /\ events <= MaxEvents
  /\ doc.ver <= events + 1
  /\ doc.region <= doc.inc + events
  /\ doc.open => doc.region >= 1

(* Each publisher has one republish at a time, and those of the synthetic  *)
(* task and of didClose run under the edit lock.                           *)
Turns ==
  /\ editor \in {"idle", "changing", "closing", "clearing"}
  /\ editor = "changing" => doc.open
  /\ editor \in {"closing", "clearing"} => ~doc.open
  /\ ~Idle("editor") => editor = "clearing"
  /\ ~Idle("task") => doc.open /\ editor = "idle" /\ rep["task"].pc # "clearing"
  /\ resolved # 0 => Idle("consumer")
  /\ prefetch # None => Idle("prefetch")
  /\ loop.pc # "merging" => Idle("loop")
  /\ \A t \in Trail : trail[t] # "none" => Idle(t)

(* The pull layer is of the open lifetime; a host without a revision has   *)
(* nothing cached; and no revision is met twice.                           *)
Cached ==
  /\ pull # None => pull[1] = doc.inc /\ (doc.open \/ editor = "closing")
  /\ revision = 0 => pull = None /\ \A r \in Region : slots[r] = "absent"
  /\ revision \in Nat /\ revision <= allocated
  /\ \A p \in Publisher : rep[p].rev \in Nat /\ rep[p].rev <= allocated

(* A merge in flight.  One of a closed document that is not empty is       *)
(* followed by the clearing publish of didClose.                           *)
Read(p) ==
  /\ Holds(p) => rep[p].set # Unknown
  /\ rep[p].pc = "merged" /\ rep[p].rev = 0 => rep[p].set = Clear
  /\ rep[p].pc = "merged" /\ Dark /\ rep[p].rev = revision => rep[p].set = Clear
  /\ rep[p].pc \in {"recorded", "sending"} => recorded = rep[p].set
  /\ rep[p].pc = "sending" => gate.dirty
  /\ rep[p].pc = "clearing" => recorded \in {rep[p].set, Unknown}
  /\ rep[p].pc = "clearing" /\ doc.open => onWire = Unknown
  /\ Dark /\ (rep[p].pc \in {"recorded", "sending"} \/ (rep[p].pc = "clearing" /\ rep[p].set # Clear))
       => rep["editor"].pc = "want"

Reads == \A p \in Publisher : Read(p)

(* What was recorded as sent is what the editor was last shown.            *)
OnWire ==
  /\ ~doc.open /\ editor = "idle" => onWire = Unknown
  /\ (doc.open \/ Going) /\ onWire # Unknown => shown = onWire

Recorded == ~Busy /\ recorded # Unknown /\ ~gate.dirty => shown = recorded

(* While the editor is shown something of a closed document, a publish     *)
(* that clears it is queued or under way.                                  *)
Clears(p) ==
  \/ rep[p].pc = "clearing" /\ rep[p].set = Clear
  \/ rep[p].pc = "merged" /\ rep[p].rev = revision /\ rep[p].set = Clear

Clearing ==
  \/ rep["editor"].pc = "want" \/ rep["consumer"].pc = "want"
  \/ \E p \in Publisher : Clears(p)

Owed == Dark /\ shown # Clear => Clearing

CloseInv ==
  /\ LockInv /\ Records /\ Counted /\ Turns /\ Cached
  /\ Reads /\ OnWire /\ Recorded /\ Owed

-----------------------------------------------------------------------------
(* Who is who.                                                             *)

LEMMA Actors ==
  /\ {"consumer", "task", "loop", "editor", "prefetch"} \subseteq Publisher
  /\ \A t \in Trail : t \in Publisher /\ t \notin {"consumer", "task", "loop", "editor", "prefetch"}
  BY PublishAssumption DEF Publisher, Task

LEMMA OneHolder ==
  ASSUME LockInv, NEW p \in Publisher, NEW q \in Publisher, Holds(p), Holds(q)
  PROVE  p = q
  BY DEF LockInv

Others(p) == \A q \in Publisher : q # p => rep'[q] = rep[q]

LEMMA RepAt ==
  ASSUME LockInv, NEW p \in Publisher, NEW r, rep' = [rep EXCEPT ![p] = r]
  PROVE  rep'[p] = r /\ Others(p)
  BY DEF LockInv, Others

LEMMA WantAt ==
  ASSUME LockInv, NEW p \in Publisher, Want(p)
  PROVE  rep'[p].pc = "want" /\ rep'[p].rev = 0 /\ Others(p)
  <1>1. rep'[p] = [NoRep EXCEPT !.pc = "want"] /\ Others(p)
    BY RepAt DEF Want
  <1>. QED  BY <1>1 DEF NoRep

LEMMA FinishAt ==
  ASSUME LockInv, NEW p \in Publisher, Finish(p)
  PROVE  rep'[p].pc = "none" /\ rep'[p].rev = 0 /\ Others(p)
  <1>1. rep'[p] = NoRep /\ Others(p)
    BY RepAt DEF Finish
  <1>. QED  BY <1>1 DEF NoRep

LEMMA PcAt ==
  ASSUME LockInv, NEW p \in Publisher, NEW pc, NEW act,
         rep' = [rep EXCEPT ![p].pc = pc, ![p].activity = act]
  PROVE  /\ rep'[p].pc = pc /\ rep'[p].rev = rep[p].rev /\ rep'[p].set = rep[p].set
         /\ Others(p)
  <1>. DEFINE r == [rep[p] EXCEPT !.pc = pc, !.activity = act]
  <1>1. rep' = [rep EXCEPT ![p] = r]
    <2>1. rep = [q \in Publisher |-> rep[q]]
      BY DEF LockInv
    <2>. QED  BY <2>1
  <1>2. IsRep(r) /\ r.pc = pc /\ r.rev = rep[p].rev /\ r.set = rep[p].set
    <2>1. IsRep(rep[p])
      BY DEF LockInv
    <2>. QED  BY <2>1 DEF IsRep
  <1>. HIDE DEF r
  <1>. QED  BY <1>1, <1>2, RepAt

(* The cache, merged.                                                      *)
LEMMA MergedFacts ==
  ASSUME CloseInv
  PROVE  Merged # Unknown /\ (revision = 0 \/ Dark => Merged = Clear)
  <1>1. doc.ver <= MaxEvents + 1 /\ doc.ver \in Nat /\ MaxEvents \in Nat /\ MaxOpens \in Nat
    BY PublishAssumption DEF CloseInv, Counted
  <1>2. Merged # Unknown
    <2>1. Merged.anchor \in {0, doc.ver} /\ Unknown.anchor = MaxEvents + 2
      BY DEF Merged, Unknown
    <2>. QED  BY <1>1, <2>1
  <1>3. CASE revision = 0
    <2>1. doc.open => doc.region \in Region
      BY <1>1 DEF CloseInv, Counted, Region
    <2>2. pull = None /\ ~(doc.open /\ slots[doc.region] = "full")
      BY <1>3, <2>1 DEF CloseInv, Cached
    <2>. QED  BY <1>2, <2>2 DEF Merged, Clear
  <1>4. CASE Dark
    <2>1. pull = None /\ ~doc.open
      BY <1>4 DEF CloseInv, Cached, Dark
    <2>. QED  BY <1>2, <2>1 DEF Merged, Clear
  <1>. QED  BY <1>2, <1>3, <1>4
-----------------------------------------------------------------------------
(* Whoever is not in a republish queues, or the synthetic task is aborted. *)
Joins(p) == Idle(p) /\ Others(p) /\ rep'[p].pc = "want" /\ rep'[p].rev = 0
Aborts == Others("task") /\ rep'["task"].pc = "none" /\ rep'["task"].rev = 0 /\ rep["task"].pc # "recorded"

(* A step of a feed: the cache's revision stays or is a new one, and in    *)
(* the dark only the consumer, which queues, makes a new one.              *)
Feeds ==
  /\ doc'.open = doc.open /\ (editor' = editor \/ doc.open)
  /\ recorded' = recorded /\ onWire' = onWire /\ shown' = shown
  /\ gate'.dirty <=> gate.dirty
  /\ rep' = rep \/ Aborts \/ \E p \in Publisher : Joins(p)
  /\ revision' = revision \/ (revision' = allocated + 1 /\ (Dark => rep'["consumer"].pc = "want"))

LEMMA FeedsKeep ==
  ASSUME CloseInv, Feeds
  PROVE  Reads' /\ OnWire' /\ Recorded' /\ Owed'
  <1>. USE DEF Feeds
  <1>1. PICK p \in Publisher :
           /\ Others(p)
           /\ rep'[p] = rep[p] \/ (Idle(p) /\ rep'[p].pc = "want") \/ (p = "task" /\ Aborts)
    <2>1. "task" \in Publisher
      BY Actors
    <2>2. rep' = rep => Others("task")
      BY DEF Others
    <2>. QED  BY <2>1, <2>2 DEF Joins, Aborts
  <1>2. Dark' <=> Dark
    BY DEF Dark
  <1>3. ASSUME NEW q \in Publisher, rep'[q].pc \notin {"none", "want"}
        PROVE  rep'[q] = rep[q]
    BY <1>1, <1>3 DEF Others, Aborts
  <1>4. ASSUME NEW q \in Publisher, rep[q].pc = "want"
        PROVE  rep'[q].pc = "want" \/ (q = "task" /\ Aborts)
    BY <1>1, <1>4 DEF Others, Idle
  <1>5. rep["editor"].pc = "want" => rep'["editor"].pc = "want"
    BY <1>4, Actors
  <1>6. Reads'
    <2>. SUFFICES ASSUME NEW q \in Publisher PROVE Read(q)'
      BY DEF Reads
    <2>1. CASE rep'[q].pc \in {"none", "want"}
      BY <2>1 DEF Read, Holds
    <2>2. CASE rep'[q].pc \notin {"none", "want"}
      <3>1. rep'[q] = rep[q] /\ Read(q)
        BY <1>3, <2>2 DEF CloseInv, Reads
      <3>2. rep[q].rev = revision' => revision' = revision
        BY DEF CloseInv, Cached, LockInv
      <3>. QED  BY <1>2, <1>5, <3>1, <3>2 DEF Read, Holds
    <2>. QED  BY <2>1, <2>2
  <1>7. Going' => Going
    BY <1>3 DEF Going
  <1>8. OnWire'
    BY <1>7 DEF CloseInv, OnWire
  <1>9. Recorded'
    <2>1. CASE Busy' \/ ~Busy
      BY <2>1 DEF CloseInv, Recorded
    <2>2. CASE ~Busy' /\ Busy
      <3>1. PICK q \in Publisher : rep[q].pc \in Showing /\ rep'[q] # rep[q]
        BY <2>2 DEF Busy
      <3>2. q = "task" /\ Aborts
        BY <1>1, <3>1 DEF Others, Idle, Showing
      <3>3. rep["task"].pc = "sending"
        BY <3>1, <3>2 DEF Showing, Aborts, CloseInv, Turns, Idle
      <3>4. gate.dirty
        BY <3>2, <3>3 DEF CloseInv, Reads, Read
      <3>. QED  BY <3>4 DEF Recorded
    <2>. QED  BY <2>1, <2>2
  <1>10. Owed'
    <2>. SUFFICES ASSUME Dark, shown # Clear PROVE Clearing'
      BY <1>2 DEF Owed
    <2>1. Clearing
      BY DEF CloseInv, Owed
    <2>2. CASE revision' # revision
      BY <2>2 DEF Clearing
    <2>3. CASE revision' = revision
      <3>1. rep["consumer"].pc = "want" => rep'["consumer"].pc = "want"
        BY <1>4, Actors
      <3>2. ASSUME NEW q \in Publisher, Clears(q) PROVE Clears(q)'
        <4>1. q # "task"
          BY <3>2 DEF CloseInv, Turns, Idle, Dark, Clears
        <4>2. rep'[q] = rep[q]
          BY <1>1, <3>2, <4>1 DEF Others, Clears, Idle
        <4>. QED  BY <2>3, <3>2, <4>2 DEF Clears
      <3>. QED  BY <1>5, <2>1, <3>1, <3>2 DEF Clearing
    <2>. QED  BY <2>2, <2>3
  <1>. QED  BY <1>6, <1>8, <1>9, <1>10

(* The rest of the invariant, under a step that opens and closes nothing.  *)
LEMMA TurnsKept ==
  ASSUME CloseInv, editor' = editor, doc' = doc, NEW p \in Publisher, Others(p),
         rep'[p] = rep[p] \/ rep'[p].pc = "none" \/ ~Idle(p) \/ p \in Trail,
         p = "task" => rep'[p].pc # "clearing",
         resolved' # 0 => resolved # 0, prefetch' # None => prefetch # None,
         loop'.pc # "merging" => loop.pc # "merging" \/ Idle("loop"),
         \A t \in Trail : trail'[t] # "none" => (trail[t] # "none" \/ Idle(t)) /\ (p = t => Idle(t)')
  PROVE  Turns'
  BY Actors DEF CloseInv, Turns, Idle, Others
-----------------------------------------------------------------------------
(* The republish and what is shown.                                        *)

(* Trailing publishes are cancelled, and only a free one is parked.        *)
Trails ==
  /\ trail' = [t \in Trail |-> trail'[t]]
  /\ \A t \in Trail : trail'[t] # "none" => trail[t] # "none" \/ Idle(t)

LEMMA ParkFacts ==
  ASSUME CloseInv, NEW parked, NEW trails \in {trail, Cancelled}, Park(parked, trails)
  PROVE  Trails
  <1>1. trails = [t \in Trail |-> trails[t]] /\ \A t \in Trail : trails[t] # "none" => trail[t] # "none"
    BY DEF CloseInv, Records, Cancelled
  <1>2. PICK u \in Trail : FreeTrail(u) /\ (trail' = trails \/ trail' = [trails EXCEPT ![u] = "parked"])
    BY DEF Park
  <1>. QED  BY <1>1, <1>2 DEF Trails, FreeTrail

LEMMA SameTrails == CloseInv /\ trail' = trail => Trails
  BY DEF CloseInv, Records, Trails

LEMMA GateFacts ==
  ASSUME CloseInv, NEW p
  PROVE  /\ IsGate(Minted) /\ Minted.dirty
         /\ IsGate(Admitted(p, TRUE)) /\ Admitted(p, TRUE).dirty
         /\ IsGate(Admitted(p, FALSE)) /\ Admitted(p, FALSE).dirty
  <1>1. IsGate(gate)
    BY DEF CloseInv, Records
  <1>2. IsGate(Minted) /\ Minted.dirty
    BY DEF Minted, NoGate, IsGate
  <1>. DEFINE g == IF gate.live THEN gate ELSE Minted
  <1>3. IsGate(g)
    BY <1>1, <1>2
  <1>. HIDE DEF g
  <1>4. ASSUME NEW h, h = [g EXCEPT !.dirty = TRUE] PROVE IsGate(h) /\ h.dirty
    BY <1>3, <1>4 DEF IsGate
  <1>5. ASSUME NEW h, IsGate(h), h.dirty
        PROVE  IsGate([h EXCEPT !.due = FALSE, !.seen = revision]) /\ [h EXCEPT !.due = FALSE, !.seen = revision].dirty
    BY <1>5 DEF IsGate
  <1>6. ASSUME NEW s \in BOOLEAN PROVE IsGate(Admitted(p, s)) /\ Admitted(p, s).dirty
    <2>. DEFINE h == [g EXCEPT !.dirty = TRUE]
    <2>1. IsGate(h) /\ h.dirty
      BY <1>4
    <2>2. Admitted(p, s) \in {h, [h EXCEPT !.due = FALSE, !.seen = revision]}
      BY DEF Admitted, g
    <2>. HIDE DEF h
    <2>. QED  BY <1>5, <2>1, <2>2
  <1>. QED  BY <1>2, <1>6

LEMMA ScheduleFacts ==
  ASSUME CloseInv, ScheduleLatest
  PROVE  IsGate(gate') /\ gate'.dirty /\ Trails
  <1>. DEFINE g == IF gate.live THEN gate ELSE Minted
  <1>1. IsGate(g)
    BY GateFacts DEF CloseInv, Records
  <1>2. PICK idle \in BOOLEAN :
          /\ gate' = [g EXCEPT !.due = FALSE, !.seen = revision, !.dirty = TRUE, !.pending = TRUE]
          /\ Park(g.pending /\ ~idle, IF idle THEN Cancelled ELSE trail)
    <2>1. \A idle \in {FALSE, gate.live /\ ~gate.dirty} : idle \in BOOLEAN
      OBVIOUS
    <2>. QED  BY <2>1, Zenon DEF ScheduleLatest, g
  <1>. HIDE DEF g
  <1>3. Trails
    BY <1>2, ParkFacts
  <1>. QED  BY <1>1, <1>2, <1>3 DEF IsGate

(* Nobody else has a snapshot.                                             *)
Alone(p) == \A q \in Publisher : q # p => ~Holds(q)

(* A step of the republish p, up to what it does to the wire.              *)
Steps(p) ==
  /\ Alone(p) /\ ~Idle(p) /\ Others(p) /\ RepFrame
  /\ rep'[p].rev \in {0, revision, rep[p].rev} /\ rep'[p].pc # "want"
  /\ p = "task" => rep'[p].pc # "clearing"
  /\ IsGate(gate') /\ Trails

LEMMA StepsRest ==
  ASSUME CloseInv, NEW p \in Publisher, Steps(p)
  PROVE  Records' /\ Counted' /\ Turns' /\ Cached'
  <1>1. /\ doc' = doc /\ editor' = editor /\ loop' = loop /\ resolved' = resolved
        /\ prefetch' = prefetch /\ events' = events
        /\ pull' = pull /\ slots' = slots /\ revision' = revision /\ allocated' = allocated
    BY DEF Steps, RepFrame, docVars, pullVars, cacheVars
  <1>2. Records'
    BY <1>1 DEF CloseInv, Records, Steps, Trails
  <1>3. Counted'
    BY <1>1 DEF CloseInv, Counted
  <1>4. Turns'
    <2>1. \A t \in Trail : trail'[t] # "none" => (trail[t] # "none" \/ Idle(t)) /\ (p = t => Idle(t)')
      BY DEF Steps, Trails, CloseInv, Turns
    <2>. QED  BY <1>1, <2>1, TurnsKept DEF Steps
  <1>5. Cached'
    <2>1. \A q \in Publisher : rep'[q].rev \in Nat /\ rep'[q].rev <= allocated
      BY DEF CloseInv, Cached, LockInv, Steps, Others
    <2>. QED  BY <1>1, <2>1 DEF CloseInv, Cached
  <1>. QED  BY <1>2, <1>3, <1>4, <1>5

LEMMA StepsRead ==
  ASSUME CloseInv, NEW p \in Publisher, Steps(p), Read(p)'
  PROVE  Reads' /\ (Going' <=> rep'[p].pc \in {"recorded", "sending"}) /\ (Busy' <=> rep'[p].pc \in Showing)
  <1>1. \A q \in Publisher : q # p => rep'[q].pc \in {"none", "want"}
    BY DEF Steps, Alone, Others, Holds
  <1>2. \A q \in Publisher : q # p => Read(q)'
    BY <1>1 DEF Read, Holds
  <1>. QED  BY <1>1, <1>2 DEF Reads, Going, Busy, Showing

(* The clearing publish of didClose stays queued.                          *)
LEMMA StepsWant ==
  ASSUME CloseInv, NEW p \in Publisher, Steps(p), NEW q \in Publisher, rep[q].pc = "want", rep[p].pc # "want"
  PROVE  rep'[q].pc = "want"
  BY DEF Steps, Others

LEMMA HolderAlone ==
  ASSUME CloseInv, NEW p \in Publisher, Holds(p)
  PROVE  Alone(p) /\ ~Idle(p)
  BY OneHolder DEF CloseInv, Alone, Holds, Idle

LEMMA Frames ==
  ASSUME RepFrame
  PROVE  doc' = doc /\ editor' = editor /\ revision' = revision /\ (Dark' <=> Dark)
  BY DEF RepFrame, docVars, cacheVars, Dark

LEMMA NoneReads ==
  ASSUME NEW p, rep'[p].pc = "none" PROVE Read(p)'
  BY DEF Read, Holds

LEMMA BeginShows ==
  ASSUME CloseInv, NEW p \in Publisher, Begin(p)
  PROVE  Records' /\ Counted' /\ Turns' /\ Cached' /\ Reads' /\ OnWire' /\ Recorded' /\ Owed'
  <1>1. /\ rep[p].pc = "want" /\ Head(queue) = p /\ RepFrame
        /\ gate' = gate /\ recorded' = recorded /\ onWire' = onWire /\ trail' = trail /\ shown' = shown
    BY DEF Begin, wireVars, sent
  <1>2. Alone(p) /\ ~Idle(p) /\ ~Busy
    BY <1>1 DEF CloseInv, LockInv, Alone, Holds, Idle, Busy, Showing
  <1>3. /\ Others(p) /\ rep'[p].rev \in {0, revision}
        /\ \/ rep'[p].pc = "none" /\ doc.open
           \/ rep'[p].pc = "merged" /\ rep'[p].set = Merged /\ rep'[p].rev = revision
    <2>1. CASE GeometryIsUnknown /\ Finish(p)
      BY <2>1, FinishAt DEF CloseInv, GeometryIsUnknown
    <2>2. CASE Snapshot(p)
      <3>. DEFINE r == [rep[p] EXCEPT !.pc = "merged", !.rev = revision, !.at = allocated, !.set = Merged]
      <3>1. rep'[p] = r /\ Others(p)
        BY <2>2, RepAt DEF CloseInv, Snapshot
      <3>2. IsRep(rep[p])
        BY DEF CloseInv, LockInv
      <3>3. r.pc = "merged" /\ r.rev = revision /\ r.set = Merged
        BY <3>2 DEF IsRep
      <3>. HIDE DEF r
      <3>. QED  BY <3>1, <3>3
    <2>. QED  BY <2>1, <2>2 DEF Begin
  <1>4. Steps(p)
    BY <1>1, <1>2, <1>3, SameTrails DEF Steps, CloseInv, Records
  <1>5. Dark' <=> Dark
    BY <1>1, Frames
  <1>6. Read(p)'
    BY <1>1, <1>3, <1>5, Frames, MergedFacts DEF Read, Holds
  <1>7. Reads' /\ ~Going' /\ ~Busy'
    BY <1>3, <1>4, <1>6, StepsRead DEF Showing
  <1>8. OnWire' /\ Recorded'
    BY <1>1, <1>2, <1>7, Frames DEF CloseInv, OnWire, Recorded
  <1>9. Owed'
    <2>. SUFFICES ASSUME Dark PROVE Clearing'
      BY <1>5 DEF Owed
    <2>1. rep'[p].pc = "merged" /\ rep'[p].rev = revision' /\ rep'[p].set = Clear
      BY <1>1, <1>3, Frames, MergedFacts DEF Dark
    <2>. QED  BY <2>1 DEF Clearing, Clears
  <1>. QED  BY <1>4, <1>7, <1>8, <1>9, StepsRest
LEMMA CompareShows ==
  ASSUME CloseInv, NEW p \in Publisher, Compare(p)
  PROVE  Records' /\ Counted' /\ Turns' /\ Cached' /\ Reads' /\ OnWire' /\ Recorded' /\ Owed'
  <1>1. rep[p].pc = "merged" /\ Holds(p) /\ RepFrame /\ onWire' = onWire /\ shown' = shown
    BY DEF Compare, sent, Holds
  <1>2. Alone(p) /\ ~Idle(p) /\ ~Busy
    BY <1>1, HolderAlone DEF Alone, Holds, Busy, Showing
  <1>3. rep[p].set # Unknown /\ (Dark /\ rep[p].rev = revision => rep[p].set = Clear)
    BY <1>1 DEF CloseInv, Reads, Read
  <1>4. doc' = doc /\ editor' = editor /\ revision' = revision /\ (Dark' <=> Dark)
    BY <1>1, Frames
  <1>5. CASE rep[p].rev # revision
    <2>1. ScheduleLatest /\ Finish(p) /\ recorded' = recorded
      BY <1>5 DEF Compare
    <2>2. rep'[p].pc = "none" /\ rep'[p].rev = 0 /\ Others(p)
      BY <2>1, FinishAt DEF CloseInv
    <2>3. IsGate(gate') /\ gate'.dirty /\ Trails
      BY <2>1, ScheduleFacts
    <2>4. Steps(p)
      BY <1>1, <1>2, <2>2, <2>3 DEF Steps
    <2>5. Reads' /\ ~Going'
      BY <2>2, <2>4, NoneReads, StepsRead
    <2>6. OnWire' /\ Recorded'
      BY <1>1, <1>4, <2>3, <2>5 DEF CloseInv, OnWire, Recorded
    <2>7. Owed'
      <3>. SUFFICES ASSUME Dark, shown # Clear PROVE Clearing'
        BY <1>1, <1>4 DEF Owed
      <3>1. Clearing
        BY DEF CloseInv, Owed
      <3>2. \A q \in Publisher : ~Clears(q)
        BY <1>1, <1>2, <1>5 DEF Clears, Alone, Holds
      <3>. QED  BY <1>1, <2>4, <3>1, <3>2, StepsWant, Actors DEF Clearing
    <2>. QED  BY <2>4, <2>5, <2>6, <2>7, StepsRest
  <1>6. CASE rep[p].rev = revision
    <2>1. recorded' = rep[p].set /\ gate' = gate /\ trail' = trail
      BY <1>6 DEF Compare
    <2>2. IsGate(gate') /\ Trails
      BY <2>1, SameTrails DEF CloseInv, Records
    <2>3. CASE recorded = rep[p].set /\ ~gate.dirty /\ Finish(p)
      <3>1. rep'[p].pc = "none" /\ rep'[p].rev = 0 /\ Others(p)
        BY <2>3, FinishAt DEF CloseInv
      <3>2. Steps(p)
        BY <1>1, <1>2, <2>2, <3>1 DEF Steps
      <3>3. Reads' /\ ~Going'
        BY <3>1, <3>2, NoneReads, StepsRead
      <3>4. shown = rep[p].set
        BY <1>2, <1>3, <2>3 DEF CloseInv, Recorded
      <3>5. OnWire' /\ Recorded' /\ Owed'
        BY <1>1, <1>3, <1>4, <1>6, <2>1, <3>3, <3>4 DEF CloseInv, OnWire, Recorded, Owed
      <3>. QED  BY <3>2, <3>3, <3>5, StepsRest
    <2>4. CASE \E act \in BOOLEAN :
                 rep' = [rep EXCEPT ![p].pc = IF doc.open THEN "recorded" ELSE "clearing", ![p].activity = act]
      <3>1. /\ rep'[p].pc = IF doc.open THEN "recorded" ELSE "clearing"
            /\ rep'[p].rev = rep[p].rev /\ rep'[p].set = rep[p].set /\ Others(p)
        <4>1. PICK act \in BOOLEAN, pc \in {"recorded", "clearing"} :
                /\ pc = IF doc.open THEN "recorded" ELSE "clearing"
                /\ rep' = [rep EXCEPT ![p].pc = pc, ![p].activity = act]
          <5>1. (IF doc.open THEN "recorded" ELSE "clearing") \in {"recorded", "clearing"}
            OBVIOUS
          <5>. QED  BY <2>4, <5>1, Zenon
        <4>2. LockInv
          BY DEF CloseInv
        <4>3. rep'[p].pc = pc /\ rep'[p].rev = rep[p].rev /\ rep'[p].set = rep[p].set /\ Others(p)
          <5>1. rep' = [rep EXCEPT ![p].pc = pc, ![p].activity = act]
            BY <4>1, Zenon
          <5>. QED  BY <4>2, <5>1, PcAt
        <4>. QED  BY <4>1, <4>3
      <3>2. p = "task" => doc.open
        BY <1>2 DEF CloseInv, Turns
      <3>3. Steps(p)
        BY <1>1, <1>2, <2>2, <3>1, <3>2 DEF Steps
      <3>4. Read(p)'
        BY <1>3, <1>4, <1>6, <2>1, <3>1 DEF Read, Holds, Dark
      <3>5. Reads' /\ (Going' => doc.open) /\ Busy'
        BY <3>1, <3>3, <3>4, StepsRead DEF Showing
      <3>6. OnWire' /\ Recorded'
        BY <1>1, <1>4, <3>5 DEF CloseInv, OnWire, Recorded
      <3>7. Owed'
        BY <1>3, <1>4, <1>6, <3>1 DEF Owed, Clearing, Clears, Dark
      <3>. QED  BY <3>3, <3>5, <3>6, <3>7, StepsRest
    <2>. QED  BY <1>6, <2>3, <2>4 DEF Compare
  <1>. QED  BY <1>5, <1>6

LEMMA AdmitShows ==
  ASSUME CloseInv, NEW p \in Publisher, Admit(p)
  PROVE  Records' /\ Counted' /\ Turns' /\ Cached' /\ Reads' /\ OnWire' /\ Recorded' /\ Owed'
  <1>1. rep[p].pc = "recorded" /\ Holds(p) /\ RepFrame /\ recorded' = recorded /\ onWire' = onWire /\ shown' = shown
    BY DEF Admit, sent, Holds
  <1>2. Alone(p) /\ ~Idle(p) /\ Going
    BY <1>1, HolderAlone DEF Going
  <1>3. rep[p].set # Unknown /\ recorded = rep[p].set /\ (Dark => rep["editor"].pc = "want")
    BY <1>1 DEF CloseInv, Reads, Read, Holds
  <1>4. doc' = doc /\ editor' = editor /\ revision' = revision /\ (Dark' <=> Dark)
    BY <1>1, Frames
  <1>5. ASSUME Steps(p) PROVE Owed'
    BY <1>1, <1>3, <1>4, <1>5, StepsWant, Actors DEF Owed, Clearing
  <1>6. CASE Finish(p) /\ IsGate(gate') /\ Trails /\ (gate'.dirty \/ onWire = rep[p].set)
    <2>1. rep'[p].pc = "none" /\ rep'[p].rev = 0 /\ Others(p)
      BY <1>6, FinishAt DEF CloseInv
    <2>2. Steps(p)
      BY <1>1, <1>2, <1>6, <2>1 DEF Steps
    <2>3. Reads' /\ ~Going'
      BY <2>1, <2>2, NoneReads, StepsRead
    <2>4. onWire = rep[p].set => shown = recorded
      BY <1>2, <1>3 DEF CloseInv, OnWire
    <2>5. OnWire' /\ Recorded'
      BY <1>1, <1>4, <1>6, <2>3, <2>4 DEF CloseInv, OnWire, Recorded
    <2>. QED  BY <1>5, <2>2, <2>3, <2>5, StepsRest
  <1>7. CASE /\ rep' = [rep EXCEPT ![p].pc = "sending", ![p].activity = FALSE]
             /\ gate' = Admitted(p, TRUE) /\ trail' = trail
    <2>1. rep'[p].pc = "sending" /\ rep'[p].rev = rep[p].rev /\ rep'[p].set = rep[p].set /\ Others(p)
      BY <1>7, PcAt DEF CloseInv
    <2>2. IsGate(gate') /\ gate'.dirty /\ Trails
      BY <1>7, GateFacts, SameTrails
    <2>3. Steps(p)
      BY <1>1, <1>2, <2>1, <2>2 DEF Steps
    <2>4. rep'["editor"].pc = "want" \/ ~Dark
      BY <1>1, <1>3, <2>3, StepsWant, Actors
    <2>5. Read(p)'
      BY <1>1, <1>3, <1>4, <2>1, <2>2, <2>4 DEF Read, Holds
    <2>6. Reads' /\ Busy'
      BY <2>1, <2>3, <2>5, StepsRead DEF Showing
    <2>7. OnWire' /\ Recorded'
      BY <1>1, <1>2, <1>4, <2>6 DEF CloseInv, OnWire, Recorded
    <2>. QED  BY <1>5, <2>3, <2>6, <2>7, StepsRest
  <1>8. CASE ScheduleLatest /\ Finish(p)
    BY <1>6, <1>8, ScheduleFacts
  <1>9. CASE onWire = rep[p].set /\ Settle(p)
    <2>1. IsGate(gate) /\ IsGate([gate EXCEPT !.due = FALSE, !.dirty = FALSE])
      BY DEF CloseInv, Records, IsGate
    <2>. QED  BY <1>6, <1>9, <2>1, SameTrails DEF Settle
  <1>10. CASE gate' = [Admitted(p, FALSE) EXCEPT !.pending = TRUE] /\ Finish(p) /\ Park(gate.pending, trail)
    <2>1. PICK a : a = Admitted(p, FALSE) /\ IsGate(a) /\ a.dirty
      BY GateFacts
    <2>2. IsGate([a EXCEPT !.pending = TRUE]) /\ [a EXCEPT !.pending = TRUE].dirty
      BY <2>1 DEF IsGate
    <2>. QED  BY <1>6, <1>10, <2>1, <2>2, ParkFacts
  <1>. QED  BY <1>7, <1>8, <1>9, <1>10 DEF Admit

LEMMA SendShows ==
  ASSUME CloseInv, NEW p \in Publisher, Send(p)
  PROVE  Records' /\ Counted' /\ Turns' /\ Cached' /\ Reads' /\ OnWire' /\ Recorded' /\ Owed'
  <1>1. /\ rep[p].pc = "sending" /\ Holds(p) /\ RepFrame /\ Finish(p)
        /\ recorded' = recorded /\ onWire' = recorded /\ shown' = rep[p].set
    BY DEF Send, Shows, Holds
  <1>2. Alone(p) /\ ~Idle(p)
    BY <1>1, HolderAlone
  <1>3. rep[p].set # Unknown /\ recorded = rep[p].set /\ (Dark => rep["editor"].pc = "want")
    BY <1>1 DEF CloseInv, Reads, Read, Holds
  <1>4. doc' = doc /\ editor' = editor /\ revision' = revision /\ (Dark' <=> Dark)
    BY <1>1, Frames
  <1>5. IsGate(gate') /\ Trails
    <2>1. PICK g : g = [gate EXCEPT !.sent = TRUE, !.due = FALSE]
      OBVIOUS
    <2>2. IsGate(g)
      BY <2>1 DEF CloseInv, Records, IsGate
    <2>3. /\ IsGate([g EXCEPT !.dirty = FALSE])
          /\ IsGate([g EXCEPT !.seen = revision, !.dirty = TRUE, !.pending = TRUE])
      BY <2>2 DEF IsGate
    <2>4. IsGate(gate')
      BY <2>1, <2>3 DEF Send
    <2>5. trail' = trail \/ Park(gate.pending, trail)
      BY DEF Send
    <2>. QED  BY <2>4, <2>5, ParkFacts, SameTrails
  <1>6. rep'[p].pc = "none" /\ rep'[p].rev = 0 /\ Others(p)
    BY <1>1, FinishAt DEF CloseInv
  <1>7. Steps(p)
    BY <1>1, <1>2, <1>5, <1>6 DEF Steps
  <1>8. Reads'
    BY <1>6, <1>7, NoneReads, StepsRead
  <1>9. Owed'
    BY <1>1, <1>3, <1>4, <1>7, StepsWant, Actors DEF Owed, Clearing
  <1>10. ~(~doc.open /\ editor = "idle")
    BY <1>3 DEF CloseInv, Turns, Idle, Dark
  <1>11. OnWire' /\ Recorded'
    BY <1>1, <1>3, <1>4, <1>10 DEF OnWire, Recorded
  <1>. QED  BY <1>7, <1>8, <1>9, <1>11, StepsRest

LEMMA SendClosedShows ==
  ASSUME CloseInv, NEW p \in Publisher, SendClosed(p)
  PROVE  Records' /\ Counted' /\ Turns' /\ Cached' /\ Reads' /\ OnWire' /\ Recorded' /\ Owed'
  <1>1. /\ rep[p].pc = "clearing" /\ Holds(p) /\ RepFrame /\ Finish(p)
        /\ gate' = gate /\ trail' = trail /\ recorded' = recorded /\ onWire' = onWire /\ shown' = rep[p].set
    BY DEF SendClosed, Shows, Holds, wireVars
  <1>2. Alone(p) /\ ~Idle(p)
    BY <1>1, HolderAlone
  <1>3. /\ recorded \in {rep[p].set, Unknown}
        /\ doc.open => onWire = Unknown
        /\ Dark /\ rep[p].set # Clear => rep["editor"].pc = "want"
    BY <1>1 DEF CloseInv, Reads, Read
  <1>4. doc' = doc /\ editor' = editor /\ revision' = revision /\ (Dark' <=> Dark)
    BY <1>1, Frames
  <1>6. rep'[p].pc = "none" /\ rep'[p].rev = 0 /\ Others(p)
    BY <1>1, FinishAt DEF CloseInv
  <1>7. Steps(p)
    BY <1>1, <1>2, <1>6, SameTrails DEF Steps, CloseInv, Records
  <1>8. Reads' /\ ~Going'
    BY <1>6, <1>7, NoneReads, StepsRead
  <1>9. Owed'
    BY <1>1, <1>3, <1>4, <1>7, StepsWant, Actors DEF Owed, Clearing
  <1>10. OnWire' /\ Recorded'
    BY <1>1, <1>3, <1>4, <1>8 DEF CloseInv, OnWire, Recorded
  <1>. QED  BY <1>7, <1>8, <1>9, <1>10, StepsRest
-----------------------------------------------------------------------------
(* The feeds.                                                              *)

(* What a feed does to the republishes and to the cache's revision.        *)
LEMMA JoinAt ==
  ASSUME CloseInv, NEW p \in Publisher, Idle(p), Want(p)
  PROVE  Joins(p)
  BY WantAt DEF CloseInv, Joins

LEMMA RegisterAborts ==
  ASSUME CloseInv, NEW key, NEW pc, Register(key, pc)
  PROVE  rep' = rep \/ Aborts
  <1>1. CASE UNCHANGED <<task, repVars>>
    BY <1>1 DEF repVars
  <1>2. CASE rep["task"].pc # "recorded" /\ Finish("task")
    <2>1. "task" \in Publisher
      BY Actors
    <2>. QED  BY <1>2, <2>1, FinishAt DEF CloseInv, Aborts
  <1>. QED  BY <1>1, <1>2 DEF Register

(* A step that changes neither the document, nor the cache, nor the wire.  *)
Calm ==
  /\ doc' = doc /\ editor' = editor /\ recorded' = recorded /\ onWire' = onWire /\ shown' = shown
  /\ pull' = pull /\ slots' = slots /\ revision' = revision /\ allocated' = allocated
  /\ gate' = gate /\ trail' = trail

LEMMA RevsKept ==
  ASSUME CloseInv, rep' = rep \/ Aborts \/ (\E p \in Publisher : Joins(p)),
         Counts
  PROVE  \A q \in Publisher : rep'[q].rev \in Nat /\ rep'[q].rev <= allocated'
  <1>1. allocated \in Nat /\ allocated' >= allocated /\ allocated' \in Nat
    BY DEF CloseInv, LockInv, Counts
  <1>2. ASSUME NEW q \in Publisher PROVE rep'[q].rev \in {0, rep[q].rev}
    BY DEF Aborts, Joins, Others
  <1>. QED  BY <1>1, <1>2 DEF CloseInv, Cached

(* A step of a synthetic pull that registers or waits, or of a parse.      *)
LEMMA CalmKeeps ==
  ASSUME CloseInv, Calm, rep' = rep \/ Aborts \/ (\E p \in Publisher : Joins(p)),
         LockInv', Records', Turns', events' = events \/ Happens
  PROVE  CloseInv'
  <1>1. Reads' /\ OnWire' /\ Recorded' /\ Owed'
    BY FeedsKeep DEF Calm, Feeds
  <1>2. Counted'
    BY PublishAssumption DEF CloseInv, Counted, Calm, Happens
  <1>3. Cached'
    <2>1. Counts
      BY DEF Calm, Counts
    <2>. QED  BY <2>1, RevsKept DEF CloseInv, Cached, Calm
  <1>. QED  BY <1>1, <1>2, <1>3 DEF CloseInv
LEMMA RegistersKeep ==
  ASSUME CloseInv, LockInv', TimerFires \/ SaveRegisters \/ OpenRegisters
  PROVE  CloseInv'
  <1>1. /\ Calm /\ UNCHANGED <<loop, resolved, prefetch, events>>
        /\ rep' = rep \/ Aborts
    <2>1. /\ Calm /\ UNCHANGED <<loop, resolved, prefetch, events>>
      BY DEF TimerFires, SaveRegisters, OpenRegisters, PullFrame, ParseFrame, Calm, docVars, cacheVars, wireVars, sent
    <2>2. UNCHANGED <<task, repVars>> \/ \E key, pc : Register(key, pc)
      BY Zenon DEF TimerFires, SaveRegisters, OpenRegisters
    <2>3. rep' = rep \/ Aborts
      BY <2>2, RegisterAborts DEF repVars
    <2>. QED  BY <2>1, <2>3
  <1>2. Records'
    BY <1>1 DEF CloseInv, Records, Calm
  <1>3. Turns'
    <2>1. PICK p \in Publisher : Others(p) /\ (rep'[p] = rep[p] \/ (p = "task" /\ rep'[p].pc = "none"))
      BY <1>1, Actors DEF Others, Aborts
    <2>2. p = "task" => rep'[p].pc # "clearing"
      BY <2>1 DEF CloseInv, Turns, Idle
    <2>3. \A t \in Trail : trail'[t] # "none" => (trail[t] # "none" \/ Idle(t)) /\ (p = t => Idle(t)')
      BY <1>1, <2>1 DEF Calm, CloseInv, Turns, Idle
    <2>. QED  BY <1>1, <2>1, <2>2, <2>3, TurnsKept DEF Calm
  <1>. QED  BY <1>1, <1>2, <1>3, CalmKeeps

(* Steps that touch neither the republishes nor the cache.                 *)
LEMMA StillKeeps ==
  ASSUME CloseInv, LockInv', TreeCame \/ Save \/ Prefetch \/ OpenParsed \/ Pass \/ Prepare \/ Arm \/ Resolve
  PROVE  CloseInv'
  <1>1. Calm /\ rep' = rep /\ (events' = events \/ Happens)
    BY DEF TreeCame, Save, Prefetch, OpenParsed, Pass, Prepare, Arm, Resolve,
           PullFrame, ParseFrame, ConsumerFrame, Calm, docVars, cacheVars, wireVars, repVars, sent
  <1>2. /\ loop' = [i \in {"pc", "of", "snap"} |-> loop'[i]]
        /\ loop'.pc # "merging" => loop.pc # "merging" \/ Idle("loop")
    <2>1. loop' = loop \/ Pass \/ Prepare \/ Arm
      BY DEF TreeCame, Save, Prefetch, OpenParsed, Resolve, PullFrame, ConsumerFrame, docVars
    <2>2. CASE Pass
      BY <2>2 DEF Pass, CloseInv, Records
    <2>3. CASE Prepare \/ Arm
      <3>1. loop' = [i \in {"pc", "of", "snap"} |-> loop'[i]]
        BY <2>3 DEF Prepare, Arm, NoPass
      <3>. QED  BY <2>3, <3>1 DEF Prepare, Arm
    <2>. QED  BY <2>1, <2>2, <2>3 DEF CloseInv, Records
  <1>3. /\ resolved' # 0 => Idle("consumer")
        /\ prefetch' # None => Idle("prefetch")
    BY DEF TreeCame, Save, Prefetch, OpenParsed, Pass, Prepare, Arm, Resolve,
           PullFrame, ParseFrame, ConsumerFrame, pullVars, CloseInv, Turns
  <1>4. Records'
    BY <1>1, <1>2 DEF CloseInv, Records, Calm
  <1>5. Turns'
    BY <1>1, <1>2, <1>3 DEF CloseInv, Turns, Calm, Idle
  <1>. QED  BY <1>1, <1>4, <1>5, CalmKeeps

LEMMA RemergeKeeps ==
  ASSUME CloseInv, LockInv', Remerge
  PROVE  CloseInv'
  <1>1. /\ Calm /\ events' = events /\ resolved' = resolved /\ prefetch' = prefetch
        /\ loop' = [loop EXCEPT !.pc = "merging"] /\ loop.pc = "parsed"
    BY DEF Remerge, ParseFrame, Calm, cacheVars, wireVars, sent
  <1>2. loop' = [i \in {"pc", "of", "snap"} |-> loop'[i]] /\ loop'.pc = "merging"
    BY <1>1 DEF CloseInv, Records
  <1>3. rep' = rep \/ Joins("loop")
    BY <1>1, JoinAt, Actors DEF Remerge, repVars, CloseInv, Turns
  <1>4. Records'
    BY <1>1, <1>2 DEF CloseInv, Records, Calm
  <1>5. Turns'
    BY <1>1, <1>2, <1>3, Actors DEF CloseInv, Turns, Calm, Idle, Joins, Others
  <1>. QED  BY <1>1, <1>3, <1>4, <1>5, Actors, CalmKeeps

LEMMA TrailKeeps ==
  ASSUME CloseInv, LockInv', NEW t \in Trail, TrailWakes(t) \/ TrailDies(t)
  PROVE  CloseInv'
  <1>1. /\ doc' = doc /\ editor' = editor /\ recorded' = recorded /\ onWire' = onWire /\ shown' = shown
        /\ pull' = pull /\ slots' = slots /\ revision' = revision /\ allocated' = allocated
        /\ events' = events /\ resolved' = resolved /\ prefetch' = prefetch /\ loop' = loop
        /\ trail' = [trail EXCEPT ![t] = "none"] /\ trail[t] # "none"
    BY DEF TrailWakes, TrailDies, TrailFrame, docVars, pullVars, cacheVars, sent
  <1>2. Idle(t) /\ t \in Publisher
    BY <1>1, Actors DEF CloseInv, Turns
  <1>3. rep' = rep \/ Joins(t)
    BY <1>2, JoinAt DEF TrailWakes, TrailDies, repVars
  <1>4. IsGate(gate') /\ (gate'.dirty <=> gate.dirty)
    <2>1. gate' = gate \/ gate' = [gate EXCEPT !.pending = FALSE, !.due = @ \/ gate.pending]
      BY DEF TrailWakes, TrailDies
    <2>2. PICK due : gate' = gate \/ gate' = [gate EXCEPT !.pending = FALSE, !.due = due]
      BY <2>1, Zenon
    <2>. QED  BY <2>2 DEF CloseInv, Records, IsGate
  <1>5. trail' = [u \in Trail |-> trail'[u]] /\ \A u \in Trail : trail'[u] # "none" => trail[u] # "none" /\ u # t
    BY <1>1 DEF CloseInv, Records
  <1>6. Records'
    BY <1>1, <1>4, <1>5 DEF CloseInv, Records
  <1>7. Turns'
    BY <1>1, <1>2, <1>3, <1>5, Actors DEF CloseInv, Turns, Idle, Joins, Others
  <1>8. Reads' /\ OnWire' /\ Recorded' /\ Owed'
    BY <1>1, <1>2, <1>3, <1>4, FeedsKeep DEF Feeds
  <1>9. Counted' /\ Cached'
    <2>1. Counts
      BY <1>1 DEF Counts
    <2>. QED  BY <1>1, <1>2, <1>3, <2>1, RevsKept DEF CloseInv, Counted, Cached
  <1>. QED  BY <1>6, <1>7, <1>8, <1>9 DEF CloseInv
-----------------------------------------------------------------------------
(* The cache's changes.                                                    *)

Bumps ==
  \/ revision' = revision /\ allocated' = allocated
  \/ Bump

SlotsOk == slots' = [r \in Region |-> slots'[r]]

LEMMA PullFacts ==
  ASSUME CloseInv, NEW l, SetPull(l)
  PROVE  Bumps /\ pull' = l /\ slots' = slots /\ (pull' # pull => Bump)
  BY DEF SetPull, Bumps, Bump, Keep

LEMMA RecordFacts ==
  ASSUME CloseInv, NEW r, NEW v, Record(r, v)
  PROVE  /\ Bumps /\ SlotsOk /\ pull' = pull
         /\ (\E q \in Region : slots'[q] # "absent" /\ slots[q] = "absent") => Bump
  <1>1. slots = [q \in Region |-> slots[q]] /\ slots' = [slots EXCEPT ![r] = v]
    BY DEF CloseInv, Records, Record
  <1>2. ASSUME NEW q \in Region, slots'[q] # "absent", slots[q] = "absent"
        PROVE  slots[r] # v
    BY <1>1, <1>2
  <1>. QED  BY <1>1, <1>2 DEF Record, Bumps, Bump, Keep, SlotsOk

LEMMA EvictFacts ==
  ASSUME CloseInv, NEW S, Evict(S)
  PROVE  /\ Bumps /\ SlotsOk /\ pull' = pull
         /\ \A q \in Region : slots[q] = "absent" => slots'[q] = "absent"
  BY DEF Evict, Bumps, Bump, Keep, SlotsOk

(* What a feed leaves of the cache.                                        *)
LEMMA FeedCached ==
  ASSUME CloseInv, Bumps, rep' = rep \/ Aborts \/ (\E p \in Publisher : Joins(p)),
         pull' # None => pull'[1] = doc'.inc /\ (doc'.open \/ editor' = "closing"),
         Bump \/ (pull' = pull /\ \A r \in Region : slots[r] = "absent" => slots'[r] = "absent")
  PROVE  Cached'
  <1>1. allocated \in Nat
    BY DEF CloseInv, LockInv
  <1>2. Counts
    BY DEF Bumps, Bump, Counts
  <1>3. revision' \in Nat /\ revision' <= allocated'
    BY <1>1 DEF CloseInv, Cached, Bumps, Bump
  <1>4. revision' = 0 => revision = 0 /\ pull' = pull /\ \A r \in Region : slots[r] = "absent" => slots'[r] = "absent"
    BY <1>1 DEF Bumps, Bump
  <1>. QED  BY <1>2, <1>3, <1>4, RevsKept DEF CloseInv, Cached

(* A feed changes the cache and queues.                                    *)
LEMMA FeedKeeps ==
  ASSUME CloseInv, LockInv', NEW p \in Publisher, Joins(p), p \notin Trail, Bumps, SlotsOk,
         doc' = doc, editor' = editor, UNCHANGED <<loop, wireVars, sent>>,
         events' = events \/ Happens,
         p = "editor" => editor = "clearing",
         p = "task" => doc.open /\ editor = "idle",
         p = "loop" => loop.pc = "merging",
         resolved' # 0 => resolved # 0 /\ p # "consumer",
         prefetch' # None => prefetch # None /\ p # "prefetch",
         pull' # None => pull'[1] = doc.inc /\ (doc.open \/ editor = "closing"),
         Bump \/ (pull' = pull /\ \A r \in Region : slots[r] = "absent" => slots'[r] = "absent"),
         Dark => p = "consumer"
  PROVE  CloseInv'
  <1>1. gate' = gate /\ recorded' = recorded /\ onWire' = onWire /\ trail' = trail /\ shown' = shown /\ loop' = loop
    BY DEF wireVars, sent
  <1>2. Records'
    BY <1>1 DEF CloseInv, Records, SlotsOk
  <1>3. Counted'
    BY PublishAssumption DEF CloseInv, Counted, Happens
  <1>4. Turns'
    BY <1>1, Actors DEF CloseInv, Turns, Joins, Others, Idle
  <1>5. Cached'
    BY FeedCached
  <1>6. Feeds
    <2>1. Dark => rep'["consumer"].pc = "want"
      BY DEF Joins
    <2>2. revision' = revision \/ revision' = allocated + 1
      BY DEF Bumps, Bump
    <2>. QED  BY <1>1, <2>1, <2>2 DEF Feeds
  <1>. QED  BY <1>2, <1>3, <1>4, <1>5, <1>6, FeedsKeep DEF CloseInv

LEMMA PushKeeps ==
  ASSUME CloseInv, LockInv', RecordPush \/ ServerDies
  PROVE  CloseInv'
  <1>1. /\ UNCHANGED <<docVars, pullVars, editor, wireVars, sent>>
        /\ Want("consumer") /\ Idle("consumer") /\ (resolved' # 0 => resolved # 0 /\ FALSE)
        /\ events' = events \/ Happens
    BY DEF RecordPush, ServerDies, ConsumerFrame, CloseInv, Turns
  <1>2. Joins("consumer")
    BY <1>1, JoinAt, Actors
  <1>3. /\ Bumps /\ SlotsOk /\ pull' = pull
        /\ Bump \/ \A r \in Region : slots[r] = "absent" => slots'[r] = "absent"
    <2>1. CASE RecordPush
      <3>1. PICK v : Record(resolved, v)
        BY <2>1 DEF RecordPush
      <3>. QED  BY <3>1, RecordFacts
    <2>2. CASE ServerDies
      BY <2>2, EvictFacts DEF ServerDies
    <2>. QED  BY <2>1, <2>2
  <1>4. doc' = doc /\ loop' = loop /\ prefetch' = prefetch /\ editor' = editor /\ UNCHANGED <<loop, wireVars, sent>>
    BY <1>1 DEF docVars, pullVars
  <1>5. pull' # None => pull'[1] = doc.inc /\ (doc.open \/ editor = "closing")
    BY <1>3 DEF CloseInv, Cached
  <1>6. "consumer" \in Publisher /\ "consumer" \notin Trail /\ "consumer" \notin {"editor", "task", "loop", "prefetch"}
    BY Actors
  <1>. QED  BY <1>1, <1>2, <1>3, <1>4, <1>5, <1>6, FeedKeeps

LEMMA PullKeeps ==
  ASSUME CloseInv, LockInv', Commit \/ PrefetchCommits
  PROVE  CloseInv'
  <1>1. /\ doc' = doc /\ loop' = loop /\ resolved' = resolved /\ editor' = editor /\ events' = events
        /\ UNCHANGED <<loop, wireVars, sent>>
        /\ EditLockIsFree
        /\ prefetch' # None => prefetch # None /\ Commit
    BY DEF Commit, PrefetchCommits, PullFrame, docVars
  <1>2. CASE UNCHANGED <<cacheVars, repVars>>
    <2>1. Calm /\ rep' = rep
      BY <1>1, <1>2 DEF Calm, cacheVars, repVars, wireVars, sent
    <2>2. Records'
      BY <1>1, <2>1 DEF CloseInv, Records, Calm
    <2>3. Turns'
      BY <1>1, <2>1 DEF CloseInv, Turns, Calm, Idle
    <2>. QED  BY <1>1, <2>1, <2>2, <2>3, CalmKeeps
  <1>3. ASSUME NEW p \in {"task", "prefetch"}, NEW l,
               Want(p), Idle(p), SetPull(l), l \in {None, Current}, doc.open,
               p = "prefetch" => prefetch' = None
        PROVE  CloseInv'
    <2>1. p \in Publisher /\ p \notin Trail /\ p \notin {"editor", "consumer", "loop"}
      BY Actors
    <2>2. Joins(p)
      BY <1>3, <2>1, JoinAt
    <2>3. /\ Bumps /\ pull' = l /\ slots' = slots /\ (pull' # pull => Bump)
      BY <1>3, PullFacts
    <2>4. SlotsOk
      BY <2>3 DEF CloseInv, Records, SlotsOk
    <2>5. pull' # None => pull'[1] = doc.inc
      BY <1>3, <2>3 DEF Current
    <2>6. editor = "idle" /\ ~Dark
      BY <1>1, <1>3 DEF EditLockIsFree, Dark
    <2>7. Bump \/ (pull' = pull /\ \A r \in Region : slots[r] = "absent" => slots'[r] = "absent")
      BY <2>3
    <2>. QED  BY <1>1, <1>3, <2>1, <2>2, <2>3, <2>4, <2>5, <2>6, <2>7, FeedKeeps
  <1>4. CASE Commit /\ ~UNCHANGED <<cacheVars, repVars>>
    <2>1. Want("task") /\ Idle("task") /\ doc.open /\ Of(task.key) = Current
      BY <1>1, <1>4 DEF Commit, IsCurrent, EditLockIsFree
    <2>2. PICK l : SetPull(l) /\ l \in {None, Current}
      BY <1>4, <2>1 DEF Commit
    <2>. QED  BY <1>3, <2>1, <2>2
  <1>5. CASE PrefetchCommits /\ ~UNCHANGED <<cacheVars, repVars>>
    <2>1. prefetch # None /\ prefetch' = None /\ Want("prefetch") /\ doc.open /\ prefetch = Current
      BY <1>5 DEF PrefetchCommits, IsCurrent
    <2>2. PICK l : SetPull(l) /\ l \in {None, Current}
      BY <1>5, <2>1 DEF PrefetchCommits
    <2>3. Idle("prefetch")
      BY <2>1 DEF CloseInv, Turns
    <2>. QED  BY <1>3, <2>1, <2>2, <2>3
  <1>. QED  BY <1>2, <1>4, <1>5
-----------------------------------------------------------------------------
(* The handlers of the document.                                           *)

LEMMA ChangeKeeps ==
  ASSUME CloseInv, LockInv', DidChange \/ Invalidate
  PROVE  CloseInv'
  <1>1. /\ doc.open /\ rep' = rep /\ UNCHANGED <<loop, resolved, prefetch, wireVars, sent>>
        /\ editor' \in {"idle", "changing"} /\ Idle("task") /\ Idle("editor")
    BY DEF DidChange, Invalidate, EditorFrame, EditLockIsFree, repVars, CloseInv, Turns
  <1>2. gate' = gate /\ recorded' = recorded /\ onWire' = onWire /\ trail' = trail /\ shown' = shown
    BY <1>1 DEF wireVars, sent
  <1>3. /\ doc' = [i \in {"inc", "ver", "open", "region"} |-> doc'[i]]
        /\ doc'.open = doc.open /\ doc'.inc = doc.inc
        /\ Counted'
    <2>1. CASE DidChange
      <3>1. PICK r \in {doc.region, doc.region + 1} : doc' = [doc EXCEPT !.ver = @ + 1, !.region = r]
        <4>1. doc = [i \in {"inc", "ver", "open", "region"} |-> doc[i]]
          BY DEF CloseInv, Records
        <4>2. [doc EXCEPT !.ver = @ + 1] = [doc EXCEPT !.ver = @ + 1, !.region = doc.region]
          BY <4>1
        <4>. QED  BY <2>1, <4>2 DEF DidChange
      <3>2. events' = events + 1 /\ events < MaxEvents
        BY <2>1 DEF DidChange, Happens
      <3>3. doc' = [i \in {"inc", "ver", "open", "region"} |-> doc'[i]]
            /\ doc'.open = doc.open /\ doc'.inc = doc.inc /\ doc'.ver = doc.ver + 1 /\ doc'.region = r
        BY <3>1 DEF CloseInv, Records
      <3>4. Counted'
        BY <3>1, <3>2, <3>3, PublishAssumption DEF CloseInv, Counted
      <3>. QED  BY <3>3, <3>4
    <2>2. CASE Invalidate
      BY <2>2 DEF Invalidate, CloseInv, Records, Counted
    <2>. QED  BY <2>1, <2>2
  <1>4. /\ Bumps /\ SlotsOk /\ pull' = pull
        /\ \A r \in Region : slots[r] = "absent" => slots'[r] = "absent"
    <2>1. CASE DidChange
      BY <2>1 DEF DidChange, cacheVars, Bumps, SlotsOk, CloseInv, Records
    <2>2. CASE Invalidate
      BY <2>2, EvictFacts DEF Invalidate
    <2>. QED  BY <2>1, <2>2
  <1>5. Records'
    BY <1>1, <1>2, <1>3, <1>4 DEF CloseInv, Records, SlotsOk
  <1>6. Turns'
    BY <1>1, <1>2, <1>3 DEF CloseInv, Turns, Idle
  <1>7. pull' # None => pull'[1] = doc'.inc /\ (doc'.open \/ editor' = "closing")
    BY <1>1, <1>3, <1>4 DEF CloseInv, Cached
  <1>8. Cached'
    BY <1>1, <1>4, <1>7, FeedCached
  <1>9. Feeds
    <2>1. revision' = revision \/ revision' = allocated + 1
      BY <1>4 DEF Bumps, Bump
    <2>2. ~Dark
      BY <1>1 DEF Dark
    <2>. QED  BY <1>1, <1>2, <1>3, <2>1, <2>2 DEF Feeds
  <1>. QED  BY <1>3, <1>5, <1>6, <1>8, <1>9, FeedsKeep DEF CloseInv

LEMMA OpenKeeps ==
  ASSUME CloseInv, LockInv', DidOpen
  PROVE  CloseInv'
  <1>1. /\ ~doc.open /\ editor = "idle" /\ editor' = editor /\ Idle("task") /\ doc.inc < MaxOpens
        /\ rep' = rep /\ UNCHANGED <<loop, resolved, prefetch, events>>
        /\ gate' = gate /\ recorded' = recorded /\ onWire' = onWire /\ trail' = trail /\ shown' = shown
        /\ pull' = pull /\ slots' = slots /\ revision' = revision /\ allocated' = allocated
        /\ doc' = [inc |-> doc.inc + 1, ver |-> 1, open |-> TRUE, region |-> doc.region + 1]
    BY DEF DidOpen, EditorFrame, EditLockIsFree, repVars, wireVars, sent, cacheVars
  <1>2. doc'.open /\ doc'.inc = doc.inc + 1 /\ doc'.ver = 1 /\ doc'.region = doc.region + 1
    BY <1>1
  <1>3. pull = None /\ onWire = Unknown
    BY <1>1 DEF CloseInv, Cached, OnWire
  <1>4. Records'
    BY <1>1 DEF CloseInv, Records
  <1>5. Counted'
    BY <1>1, <1>2, PublishAssumption DEF CloseInv, Counted
  <1>6. Turns'
    BY <1>1, <1>2 DEF CloseInv, Turns, Idle
  <1>7. Cached'
    BY <1>1, <1>3 DEF CloseInv, Cached
  <1>8. Reads'
    BY <1>1, <1>2, <1>3 DEF CloseInv, Reads, Read, Holds, Dark
  <1>9. OnWire' /\ Recorded' /\ Owed'
    BY <1>1, <1>2, <1>3 DEF CloseInv, OnWire, Recorded, Busy, Owed, Dark
  <1>. QED  BY <1>4, <1>5, <1>6, <1>7, <1>8, <1>9 DEF CloseInv

LEMMA CloseKeeps ==
  ASSUME CloseInv, LockInv', DidClose
  PROVE  CloseInv'
  <1>1. /\ doc.open /\ editor' = "closing" /\ Idle("task")
        /\ rep' = rep /\ UNCHANGED <<loop, resolved, prefetch, events>>
        /\ gate' = gate /\ recorded' = recorded /\ onWire' = onWire /\ trail' = trail /\ shown' = shown
        /\ pull' = pull /\ slots' = slots /\ revision' = revision /\ allocated' = allocated
        /\ doc' = [doc EXCEPT !.open = FALSE, !.ver = 0]
    BY DEF DidClose, EditorFrame, EditLockIsFree, repVars, wireVars, sent, cacheVars
  <1>2. /\ ~doc'.open /\ doc'.inc = doc.inc /\ doc'.ver = 0 /\ doc'.region = doc.region
        /\ doc' = [i \in {"inc", "ver", "open", "region"} |-> doc'[i]]
    BY <1>1 DEF CloseInv, Records
  <1>3. Idle("editor")
    BY <1>1 DEF CloseInv, Turns
  <1>4. Records'
    BY <1>1, <1>2 DEF CloseInv, Records
  <1>5. Counted'
    BY <1>1, <1>2 DEF CloseInv, Counted
  <1>6. Turns'
    BY <1>1, <1>2, <1>3 DEF CloseInv, Turns, Idle
  <1>7. Cached'
    BY <1>1, <1>2 DEF CloseInv, Cached
  <1>8. Reads'
    BY <1>1, <1>2 DEF CloseInv, Reads, Read, Holds, Dark
  <1>9. OnWire' /\ Recorded' /\ Owed'
    BY <1>1, <1>2 DEF CloseInv, OnWire, Recorded, Busy, Going, Owed, Dark
  <1>. QED  BY <1>4, <1>5, <1>6, <1>7, <1>8, <1>9 DEF CloseInv

LEMMA EvictsKeeps ==
  ASSUME CloseInv, LockInv', Evicts
  PROVE  CloseInv'
  <1>1. /\ editor = "closing" /\ editor' = "clearing" /\ Want("editor")
        /\ doc' = doc /\ UNCHANGED <<loop, resolved, prefetch, events>>
        /\ gate' = gate /\ recorded' = recorded /\ onWire' = onWire /\ trail' = trail /\ shown' = shown
        /\ pull' = None /\ slots' = [r \in Region |-> "absent"] /\ revision' = 0 /\ allocated' = allocated
    BY DEF Evicts, EvictHost, CloseFrame, docVars, pullVars, wireVars, sent
  <1>2. ~doc.open /\ Idle("editor") /\ Idle("task") /\ ~Dark
    BY <1>1 DEF CloseInv, Turns, Dark
  <1>3. Joins("editor")
    BY <1>1, <1>2, JoinAt, Actors
  <1>4. /\ rep'["editor"].pc = "want" /\ "editor" \in Publisher
        /\ \A q \in Publisher : rep'[q].pc \notin {"none", "want"} => rep'[q] = rep[q]
        /\ \A q \in Publisher : rep[q].pc \notin {"none", "want"} => rep'[q] = rep[q]
    BY <1>2, <1>3, Actors DEF Joins, Others, Idle
  <1>5. Records'
    BY <1>1 DEF CloseInv, Records
  <1>6. Counted'
    BY <1>1 DEF CloseInv, Counted
  <1>7. Turns'
    BY <1>1, <1>2, <1>3, Actors DEF CloseInv, Turns, Idle, Joins, Others
  <1>8. Cached'
    <2>1. Counts
      BY <1>1 DEF Counts
    <2>. QED  BY <1>1, <1>3, <1>4, <2>1, RevsKept DEF CloseInv, Cached, LockInv
  <1>9. Reads'
    <2>. SUFFICES ASSUME NEW q \in Publisher PROVE Read(q)'
      BY DEF Reads
    <2>1. CASE rep'[q].pc \in {"none", "want"}
      BY <2>1 DEF Read, Holds
    <2>2. CASE rep'[q].pc \notin {"none", "want"}
      <3>1. rep'[q] = rep[q] /\ Read(q)
        BY <1>4, <2>2 DEF CloseInv, Reads
      <3>. QED  BY <1>1, <1>2, <1>4, <2>2, <3>1 DEF Read, Holds
    <2>. QED  BY <2>1, <2>2
  <1>10. (Going' => Going) /\ (Busy => Busy')
    BY <1>4 DEF Going, Busy, Showing
  <1>11. OnWire' /\ Recorded' /\ Owed'
    BY <1>1, <1>2, <1>4, <1>10 DEF CloseInv, OnWire, Recorded, Owed, Clearing
  <1>. QED  BY <1>5, <1>6, <1>7, <1>8, <1>9, <1>11 DEF CloseInv

LEMMA ForgetsKeeps ==
  ASSUME CloseInv, LockInv', Forgets
  PROVE  CloseInv'
  <1>1. /\ editor = "clearing" /\ Idle("editor") /\ editor' = "idle"
        /\ doc' = doc /\ rep' = rep /\ UNCHANGED <<loop, resolved, prefetch, events>>
        /\ recorded' = Unknown /\ onWire' = Unknown /\ gate' = NoGate /\ trail' = Cancelled /\ shown' = shown
        /\ pull' = pull /\ slots' = slots /\ revision' = revision /\ allocated' = allocated
    BY DEF Forgets, CloseFrame, docVars, pullVars, cacheVars, repVars, sent
  <1>2. ~doc.open /\ Dark /\ Dark' /\ rep["editor"].pc # "want"
    BY <1>1 DEF CloseInv, Turns, Dark, Idle
  <1>3. IsGate(NoGate)
    BY DEF NoGate, IsGate
  <1>4. trail' = [t \in Trail |-> trail'[t]] /\ \A t \in Trail : trail'[t] # "none" => trail[t] # "none"
    BY <1>1 DEF Cancelled
  <1>5. Records'
    BY <1>1, <1>3, <1>4 DEF CloseInv, Records
  <1>6. Counted' /\ Cached'
    BY <1>1, <1>2 DEF CloseInv, Counted, Cached
  <1>7. Turns'
    BY <1>1, <1>2, <1>4 DEF CloseInv, Turns, Idle
  <1>8. Reads'
    BY <1>1, <1>2 DEF CloseInv, Reads, Read, Holds
  <1>9. OnWire' /\ Recorded'
    BY <1>1 DEF OnWire, Recorded
  <1>10. Owed'
    BY <1>1, <1>2 DEF CloseInv, Owed, Clearing, Clears
  <1>. QED  BY <1>5, <1>6, <1>7, <1>8, <1>9, <1>10 DEF CloseInv

-----------------------------------------------------------------------------
LEMMA CloseInit == Init => CloseInv
  <1>. SUFFICES ASSUME Init PROVE CloseInv
    OBVIOUS
  <1>1. /\ doc = [inc |-> 0, ver |-> 0, open |-> FALSE, region |-> 0]
        /\ loop = NoPass /\ prefetch = None /\ resolved = 0 /\ editor = "idle"
        /\ pull = None /\ slots = [r \in Region |-> "absent"] /\ revision = 0 /\ allocated = 0
        /\ gate = NoGate /\ recorded = Unknown /\ onWire = Unknown /\ trail = [t \in Trail |-> "none"]
        /\ rep = [p \in Publisher |-> NoRep] /\ shown = Clear /\ events = 0
    BY Zenon DEF Init
  <1>2. \A p \in Publisher : rep[p].pc = "none" /\ rep[p].rev = 0
    BY <1>1 DEF NoRep
  <1>3. Records
    BY <1>1 DEF Records, IsGate, NoGate, NoPass
  <1>4. Counted
    BY <1>1, PublishAssumption DEF Counted
  <1>5. Turns
    BY <1>1, <1>2, Actors DEF Turns, Idle
  <1>6. Cached
    BY <1>1, <1>2 DEF Cached
  <1>7. Reads
    BY <1>2 DEF Reads, Read, Holds
  <1>8. OnWire /\ Recorded /\ Owed
    BY <1>1 DEF OnWire, Recorded, Owed
  <1>. QED  BY <1>3, <1>4, <1>5, <1>6, <1>7, <1>8, LockInit DEF CloseInv

LEMMA CloseNext == CloseInv /\ [Next]_vars => CloseInv'
  <1>. SUFFICES ASSUME CloseInv, [Next]_vars PROVE CloseInv'
    OBVIOUS
  <1>1. LockInv'
    BY LockNext DEF CloseInv
  <1>2. CASE \E p \in Publisher : Republish(p)
    BY <1>1, <1>2, BeginShows, CompareShows, AdmitShows, SendShows, SendClosedShows DEF Republish, CloseInv
  <1>3. CASE Outside \/ RecordPush \/ Edit
    BY <1>1, <1>3, StillKeeps, PushKeeps, ChangeKeeps, OpenKeeps, CloseKeeps, EvictsKeeps, ForgetsKeeps
       DEF Outside, Edit
  <1>4. CASE TimerFires \/ SaveRegisters \/ PrefetchCommits \/ Pulls
    BY <1>1, <1>4, RegistersKeep, StillKeeps, PullKeeps DEF Pulls
  <1>5. CASE Parse
    BY <1>1, <1>5, RegistersKeep, StillKeeps, RemergeKeeps DEF Parse
  <1>6. CASE \E t \in Trail : TrailWakes(t) \/ TrailDies(t)
    BY <1>1, <1>6, TrailKeeps
  <1>7. CASE UNCHANGED vars
    <2>1. /\ doc' = doc /\ loop' = loop /\ prefetch' = prefetch /\ resolved' = resolved /\ editor' = editor
          /\ events' = events /\ rep' = rep
          /\ Calm
      BY <1>7 DEF vars, docVars, pullVars, cacheVars, wireVars, repVars, sent, Calm
    <2>2. Records'
      BY <2>1 DEF CloseInv, Records, Calm
    <2>3. Turns'
      BY <2>1 DEF CloseInv, Turns, Calm, Idle
    <2>. QED  BY <1>1, <2>1, <2>2, <2>3, CalmKeeps
  <1>. QED  BY <1>2, <1>3, <1>4, <1>5, <1>6, <1>7 DEF Next

(* The invariant of a closed document holds throughout.                    *)
THEOREM CloseInvariant == Spec => []CloseInv
  <1>. QED  BY CloseInit, CloseNext, PTL DEF Spec

(* Nothing of a lifetime outlives its didClose, for any trailing           *)
(* publishes, lifetimes and events.                                        *)
THEOREM CloseIsFinal == Spec => []NothingOutlivesClose
  <1>1. CloseInv => NothingOutlivesClose
    <2>. SUFFICES ASSUME CloseInv PROVE NothingOutlivesClose
      OBVIOUS
    <2>1. ASSUME ~doc.open, editor = "idle", \A p \in Publisher : Idle(p)
          PROVE  shown = Clear
      <3>1. Dark /\ ~Clearing
        BY <2>1, Actors DEF Dark, Clearing, Clears, Idle
      <3>. QED  BY <3>1 DEF CloseInv, Owed
    <2>. QED  BY <2>1 DEF NothingOutlivesClose, CloseInv, Cached
  <1>. QED  BY <1>1, CloseInvariant, PTL
-----------------------------------------------------------------------------
(***************************************************************************)
(* Types.  The counters' bounds are those of Counted.  Of trailing         *)
(* publishes a step parks at most one, so there are finitely many at any   *)
(* time, whatever the bounds: where tasks are not in short supply, one is  *)
(* free.                                                                   *)
(***************************************************************************)

Stirred == { t \in Trail : ~FreeTrail(t) }

TrailType == trail \in [Trail -> {"none", "parked", "cancelled"}]
SlotType == slots \in [Region -> {"absent", "empty", "full"}]
DocType == doc.open \in BOOLEAN /\ (doc.open => doc.inc >= 1 /\ doc.ver >= 1)

(* The inductive invariant, with CloseInv.                                 *)
PubInv ==
  /\ DocType /\ pull \in Lineage \cup {None} /\ SlotType /\ revision \in {0, allocated}
  /\ TrailType /\ IsFiniteSet(Stirred)

(* At most u is not free any more.                                         *)
Stirs(u) == TrailType' /\ \A t \in Trail : t # u /\ FreeTrail(t) => FreeTrail(t)'

LEMMA StirsFew ==
  ASSUME IsFiniteSet(Stirred), NEW u, Stirs(u)
  PROVE  IsFiniteSet(Stirred')
  <1>1. Stirred' \subseteq Stirred \cup {u}
    BY DEF Stirs, Stirred
  <1>2. IsFiniteSet(Stirred \cup {u})
    BY FS_AddElement
  <1>. QED  BY <1>1, <1>2, FS_Subset

(* A trailing publish is parked, or one that was free stays so.            *)
Parks(u) == TrailType' /\ \A t \in Trail : t # u /\ trail[t] = "none" => trail'[t] = "none"

LEMMA ParkedOne ==
  ASSUME TrailType, NEW parked, NEW trails \in {trail, Cancelled}, Park(parked, trails)
  PROVE  \E u : Parks(u)
  <1>1. trails \in [Trail -> {"none", "parked", "cancelled"}] /\ \A t \in Trail : trail[t] = "none" => trails[t] = "none"
    BY DEF TrailType, Cancelled
  <1>2. PICK u \in Trail : trail' = trails \/ trail' = [trails EXCEPT ![u] = "parked"]
    BY DEF Park
  <1>. QED  BY <1>1, <1>2 DEF Parks, TrailType

LEMMA ScheduleParks ==
  ASSUME TrailType, ScheduleLatest
  PROVE  \E u : Parks(u)
  <1>1. PICK parked, idle \in BOOLEAN : Park(parked, IF idle THEN Cancelled ELSE trail)
    <2>1. \A idle \in {FALSE, gate.live /\ ~gate.dirty} : idle \in BOOLEAN
      OBVIOUS
    <2>. QED  BY <2>1, Zenon DEF ScheduleLatest
  <1>2. PICK trails \in {trail, Cancelled} : Park(parked, trails)
    BY <1>1
  <1>. QED  BY <1>2, ParkedOne

(* The republish of whoever is in one.                                     *)
LEMMA RepublishStirs ==
  ASSUME CloseInv, TrailType, NEW p \in Publisher, Republish(p)
  PROVE  \E u : Stirs(u)
  <1>1. rep[p].pc # "none"
    BY DEF Republish, Begin, Compare, Admit, Send, SendClosed
  <1>2. Others(p)
    <2>1. CASE Finish(p)
      BY <2>1, FinishAt DEF CloseInv
    <2>2. ASSUME NEW r, rep' = [rep EXCEPT ![p] = r] PROVE Others(p)
      BY <2>2, RepAt DEF CloseInv
    <2>3. ASSUME NEW pc, NEW act, rep' = [rep EXCEPT ![p].pc = pc, ![p].activity = act] PROVE Others(p)
      BY <2>3, PcAt DEF CloseInv
    <2>. QED  BY <2>1, <2>2, <2>3 DEF Republish, Begin, Snapshot, Compare, Admit, Settle, Send, SendClosed, Shows
  <1>3. \E u : Parks(u)
    <2>1. CASE UNCHANGED trail
      BY <2>1 DEF Parks, TrailType
    <2>2. ASSUME NEW parked, Park(parked, trail) PROVE \E u : Parks(u)
      BY <2>2, ParkedOne
    <2>. QED  BY <2>1, <2>2, ScheduleParks
              DEF Republish, Begin, Compare, Admit, Settle, Send, SendClosed, wireVars
  <1>. QED  BY <1>1, <1>2, <1>3, Names DEF Parks, Stirs, FreeTrail, Others, Idle

(* Nobody else's step stirs another than the one that moves.               *)
LEMMA OthersStir ==
  ASSUME CloseInv, TrailType, [Next]_vars, \A p \in Publisher : ~Republish(p)
  PROVE  \E u : Stirs(u)
  <1>1. ASSUME rep' = rep \/ (\E q \in Task : Want(q)) \/ Finish("task"), trail' \in {trail, Cancelled}
        PROVE  Stirs(0)
    <2>1. \A t \in Trail : rep'[t] = rep[t]
      BY <1>1, WantAt, FinishAt, Names, Actors, PublishAssumption DEF CloseInv, Others, Task
    <2>. QED  BY <1>1, <2>1 DEF Stirs, FreeTrail, Idle, TrailType, Cancelled
  <1>2. CASE Outside \/ RecordPush \/ Edit
    BY <1>1, <1>2 DEF Outside, DidOpen, DidChange, DidClose, Save, Prefetch, Resolve, ServerDies, RecordPush, Edit,
                     Invalidate, Evicts, Forgets, EditorFrame, PullFrame, ConsumerFrame, wireVars, repVars, Task
  <1>3. CASE TimerFires \/ SaveRegisters \/ PrefetchCommits \/ Pulls
    BY <1>1, <1>3 DEF TimerFires, SaveRegisters, PrefetchCommits, Pulls, TreeCame, Commit, Register, PullFrame,
                     wireVars, repVars, Task
  <1>4. CASE Parse
    BY <1>1, <1>4 DEF Parse, OpenParsed, OpenRegisters, Pass, Remerge, Prepare, Arm, Register, ParseFrame,
                     wireVars, repVars, Task
  <1>5. ASSUME NEW t \in Trail, TrailWakes(t) \/ TrailDies(t)
        PROVE  Stirs(t)
    <2>1. Others(t)
      <3>1. t \in Publisher
        BY Names
      <3>2. CASE Want(t)
        BY <3>1, <3>2, WantAt DEF CloseInv
      <3>3. CASE rep' = rep
        BY <3>3 DEF Others
      <3>. QED  BY <1>5, <3>2, <3>3 DEF TrailWakes, TrailDies, repVars
    <2>2. trail' = [trail EXCEPT ![t] = "none"]
      BY <1>5 DEF TrailWakes, TrailDies
    <2>. QED  BY <2>1, <2>2, Names DEF Stirs, FreeTrail, Idle, TrailType, Others
  <1>6. CASE UNCHANGED vars
    BY <1>1, <1>6 DEF vars, repVars, wireVars
  <1>. QED  BY <1>2, <1>3, <1>4, <1>5, <1>6 DEF Next

-----------------------------------------------------------------------------
(* The document and the cache.                                             *)
LEMMA DocTyped ==
  ASSUME CloseInv, DocType, [Next]_vars
  PROVE  DocType'
  <1>1. CASE doc' = doc
    BY <1>1, Zenon DEF DocType
  <1>2. CASE DidOpen
    <2>1. PICK n, r, on : n = doc.inc + 1 /\ r = doc.region + 1 /\ on = TRUE
      OBVIOUS
    <2>2. doc' = [inc |-> n, ver |-> 1, open |-> on, region |-> r]
      BY <1>2, <2>1, Zenon DEF DidOpen
    <2>3. doc'.inc = n /\ doc'.ver = 1 /\ doc'.open = on
      BY <2>2
    <2>4. doc'.open \in BOOLEAN
      BY <2>1, <2>3, Zenon
    <2>5. doc'.inc >= 1 /\ doc'.ver >= 1
      BY <2>1, <2>3 DEF CloseInv, Counted
    <2>. QED  BY <2>4, <2>5, Zenon DEF DocType
  <1>3. CASE DidClose
    <2>1. PICK off : off = FALSE
      OBVIOUS
    <2>2. doc' = [doc EXCEPT !.open = off, !.ver = 0]
      BY <1>3, <2>1, Zenon DEF DidClose
    <2>3. doc'.open = off
      BY <2>2 DEF CloseInv, Records
    <2>4. doc'.open \in BOOLEAN /\ ~doc'.open
      BY <2>1, <2>3, Zenon
    <2>. QED  BY <2>4, Zenon DEF DocType
  <1>4. CASE DidChange
    <2>1. PICK v, r : v = doc.ver + 1 /\ r = doc.region + 1
      OBVIOUS
    <2>2. doc' = [doc EXCEPT !.ver = v] \/ doc' = [doc EXCEPT !.ver = v, !.region = r]
      BY <1>4, <2>1 DEF DidChange
    <2>3. doc'.open = doc.open /\ doc'.inc = doc.inc /\ doc'.ver = v
      BY <2>2 DEF CloseInv, Records
    <2>4. doc'.open \in BOOLEAN
      BY <2>3, Zenon DEF DocType
    <2>5. doc'.open => doc'.inc >= 1 /\ doc'.ver >= 1
      BY <2>1, <2>3 DEF CloseInv, Counted, DocType
    <2>. QED  BY <2>4, <2>5, Zenon DEF DocType
  <1>. QED  BY <1>1, <1>2, <1>3, <1>4
            DEF Next, Outside, Save, Prefetch, Resolve, ServerDies, RecordPush, ConsumerFrame, PullFrame, TimerFires,
                SaveRegisters, PrefetchCommits, Pulls, TreeCame, Commit, Parse, OpenParsed, OpenRegisters, Pass, Remerge,
                Prepare, Arm, ParseFrame, Edit, Invalidate, Evicts, Forgets, CloseFrame, Republish, Begin, Compare, Admit,
                Send, SendClosed, Shows, RepFrame, TrailWakes, TrailDies, TrailFrame, docVars, vars

LEMMA CurrentTyped ==
  ASSUME CloseInv, DocType, doc.open
  PROVE  Current \in Lineage
  BY PublishAssumption DEF CloseInv, Counted, DocType, Current, Lineage, Version

LEMMA CacheTyped ==
  ASSUME CloseInv, DocType, pull \in Lineage \cup {None}, SlotType, revision \in {0, allocated}, [Next]_vars
  PROVE  pull' \in Lineage \cup {None} /\ SlotType' /\ revision' \in {0, allocated'}
  <1>1. CASE UNCHANGED cacheVars
    BY <1>1 DEF cacheVars, SlotType
  <1>2. ASSUME NEW l \in {None, Current}, SetPull(l), l = Current => doc.open
        PROVE  pull' \in Lineage \cup {None} /\ SlotType' /\ revision' \in {0, allocated'}
    BY <1>2, CurrentTyped DEF SetPull, Bump, Keep, SlotType
  <1>3. ASSUME NEW S, Evict(S)
        PROVE  pull' \in Lineage \cup {None} /\ SlotType' /\ revision' \in {0, allocated'}
    BY <1>3 DEF Evict, Bump, Keep, SlotType
  <1>4. CASE RecordPush
    BY <1>4 DEF RecordPush, Record, Bump, Keep, SlotType
  <1>5. CASE ServerDies \/ Invalidate
    BY <1>3, <1>5 DEF ServerDies, Invalidate
  <1>6. CASE Evicts
    BY <1>6 DEF Evicts, EvictHost, SlotType
  <1>7. CASE Commit \/ PrefetchCommits
    BY <1>1, <1>2, <1>7 DEF Commit, PrefetchCommits, IsCurrent
  <1>. QED  BY <1>1, <1>4, <1>5, <1>6, <1>7
            DEF Next, Outside, DidOpen, DidChange, DidClose, EditorFrame, Save, Prefetch, Resolve, ConsumerFrame, PullFrame,
                TimerFires, SaveRegisters, Pulls, TreeCame, Parse, OpenParsed, OpenRegisters, Pass, Remerge,
                Prepare, Arm, ParseFrame, Edit, Forgets, CloseFrame, Republish, Begin, Compare, Admit,
                Send, SendClosed, Shows, RepFrame, TrailWakes, TrailDies, TrailFrame, vars

-----------------------------------------------------------------------------
LEMMA PubInit == Init => PubInv
  <1>. SUFFICES ASSUME Init PROVE PubInv
    OBVIOUS
  <1>1. DocType
    <2>1. PICK off : off = FALSE
      OBVIOUS
    <2>2. doc = [inc |-> 0, ver |-> 0, open |-> off, region |-> 0]
      BY <2>1, Zenon DEF Init
    <2>3. doc.open = off
      BY <2>2
    <2>. QED  BY <2>1, <2>3, Zenon DEF DocType
  <1>2. pull \in Lineage \cup {None} /\ SlotType /\ revision \in {0, allocated} /\ TrailType
    BY DEF Init, SlotType, TrailType
  <1>3. Stirred = {}
    BY Names DEF Init, Stirred, FreeTrail, Idle, NoRep
  <1>. QED  BY <1>1, <1>2, <1>3, FS_EmptySet DEF PubInv

LEMMA PubNext == CloseInv /\ PubInv /\ [Next]_vars => PubInv'
  <1>. SUFFICES ASSUME CloseInv, PubInv, [Next]_vars PROVE PubInv'
    OBVIOUS
  <1>1. PICK u : Stirs(u)
    BY RepublishStirs, OthersStir DEF PubInv
  <1>2. TrailType' /\ IsFiniteSet(Stirred')
    BY <1>1, StirsFew DEF Stirs, PubInv
  <1>. QED  BY <1>2, DocTyped, CacheTyped DEF PubInv

(* Whatever the number of trailing publishes, while one is free.           *)
LEMMA TypesFollow ==
  ASSUME CloseInv, PubInv, \E t \in Trail : FreeTrail(t)
  PROVE  TypeOK
  <1>1. doc \in [inc : 0..MaxOpens, ver : {0} \cup Version, open : BOOLEAN, region : {0} \cup Region]
    <2>1. PICK n, v, o, r : doc = [inc |-> n, ver |-> v, open |-> o, region |-> r]
      BY DEF CloseInv, Records
    <2>2. n = doc.inc /\ v = doc.ver /\ o = doc.open /\ r = doc.region
      BY <2>1
    <2>3. n \in 0..MaxOpens /\ v \in {0} \cup Version /\ r \in {0} \cup Region
      BY <2>2, PublishAssumption DEF CloseInv, Counted, Version, Region
    <2>4. o \in BOOLEAN
      BY <2>2, Zenon DEF PubInv, DocType
    <2>. QED  BY <2>1, <2>3, <2>4, Zenon
  <1>. QED  BY <1>1, Zenon DEF TypeOK, CloseInv, LockInv, PubInv, TrailType, SlotType

(* The document, its cache and its publishes are well typed, a host's      *)
(* revision is the last one allocated, and a trailing publish is always    *)
(* free (DiagnosticPublish's TypeOK), where as many may be spawned as are  *)
(* asked for.                                                              *)
THEOREM TypeCorrect == ~IsFiniteSet(Trail) /\ Spec => []TypeOK
  <1>. SUFFICES ASSUME ~IsFiniteSet(Trail) PROVE Spec => []TypeOK
    OBVIOUS
  <1>1. PubInv => \E t \in Trail : FreeTrail(t)
    <2>1. PubInv => Trail # Stirred
      BY DEF PubInv
    <2>. QED  BY <2>1 DEF Stirred
  <1>2. CloseInv /\ PubInv => TypeOK
    BY <1>1, TypesFollow
  <1>. QED  BY <1>2, PubInit, PubNext, CloseInit, CloseNext, PTL DEF Spec

(* The same of any set of trailing publishes, as long as one is free.      *)
THEOREM TypedWhileFree == Spec => []((\E t \in Trail : FreeTrail(t)) => TypeOK)
  <1>1. CloseInv /\ PubInv => ((\E t \in Trail : FreeTrail(t)) => TypeOK)
    BY TypesFollow
  <1>. QED  BY <1>1, PubInit, PubNext, CloseInit, CloseNext, PTL DEF Spec
=============================================================================
