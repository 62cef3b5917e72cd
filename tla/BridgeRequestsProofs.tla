------------------------- MODULE BridgeRequestsProofs -------------------------
(***************************************************************************)
(* For any requests, upstream ids and queue capacity: a closed router is   *)
(* empty, and the two cancel maps are inverse to each other and name       *)
(* pending requests only.                                                  *)
(*                                                                         *)
(* Neither is inductive alone: that a registration finds no trace of its   *)
(* own id needs NewIsAbsent.  Every step moves the router in one of four   *)
(* ways (RouterStep), and each keeps IInv.                                 *)
(*                                                                         *)
(* On top of it: who is answered and what is written (DInv, FInv, CInv),   *)
(* the types (TInv, EpochOK), and when the liveness timer runs (AInv).     *)
(***************************************************************************)
EXTENDS BridgeRequests, FiniteSetTheorems, TLAPS

Delivery == {"absent", "Queued", "CancelledQueued", "Writing", "CancelledWriting",
             "Sent", "CancelledSent"}

Stage == {"new", "notifying", "registered", "waiting", "retiring", "abandoning", "cancelling",
          "watching", "aborting", "sweeping", "over"}

RouterType ==
  /\ entry \in [Id -> Delivery]
  /\ down \in [Id -> Upstream \cup {NoUpstream}]
  /\ up \in [Upstream -> SUBSET Id]
  /\ accepting \in BOOLEAN
  /\ waiter \in [Id -> Stage]

NewIsAbsent == \A i \in Id : waiter[i] = "new" => entry[i] = "absent"

IInv == RouterType /\ NewIsAbsent /\ CancelMapsAgree /\ ClosedRouterIsEmpty

(* The four ways a step moves the router.                                  *)
Keeps ==
  /\ UNCHANGED <<down, up, accepting>>
  /\ entry' \in [Id -> Delivery]
  /\ \A j \in Id : entry'[j] = "absent" <=> entry[j] = "absent"

Drops == UNCHANGED accepting /\ \E i : Removed(i)

Empties ==
  /\ accepting' = FALSE
  /\ entry' = [i \in Id |-> "absent"]
  /\ down' = [i \in Id |-> NoUpstream] /\ up' = [u \in Upstream |-> {}]

Admits(i, u) ==
  /\ accepting /\ UNCHANGED accepting
  /\ waiter[i] = "new" /\ waiter' = [waiter EXCEPT ![i] = waiter'[i]] /\ waiter'[i] # "new"
  /\ entry' = [entry EXCEPT ![i] = "Queued"]
  /\ down' = [down EXCEPT ![i] = u]
  /\ up' = [v \in Upstream |-> IF v = u THEN up[v] \cup {i} ELSE up[v]]

(* No requester becomes new again.                                         *)
WaitersMove ==
  /\ waiter' \in [Id -> Stage]
  /\ \A j \in Id : waiter'[j] = "new" => waiter[j] = "new"

RouterStep ==
  \/ Keeps \/ Drops \/ Empties
  \/ \E i \in Id, u \in Upstream \cup {NoUpstream} : Admits(i, u)
-----------------------------------------------------------------------------
(* Moving one requester to a state other than "new".                       *)
LEMMA GotoMoves ==
  ASSUME waiter \in [Id -> Stage], NEW i, NEW p \in Stage \ {"new"}, Goto(i, p)
  PROVE  WaitersMove
BY DEF Stage, Goto, WaitersMove

(* Steps of the writer, the reader and a shutdown leave the requesters.    *)
LEMMA SameWaiters ==
  ASSUME waiter \in [Id -> Stage], waiter' = waiter
  PROVE  WaitersMove
BY DEF WaitersMove

(* A step that leaves the router alone.                                    *)
LEMMA SameRouter ==
  ASSUME RouterType, entry' = entry, down' = down, up' = up, accepting' = accepting
  PROVE  Keeps
BY DEF RouterType, Keeps

(* An entry that is pending moves to another delivery state.               *)
LEMMA PendingMoves ==
  ASSUME RouterType, NEW i, NEW d \in Delivery \ {"absent"},
         i \in Id => entry[i] # "absent",
         entry' = [entry EXCEPT ![i] = d], down' = down, up' = up, accepting' = accepting
  PROVE  Keeps
BY DEF RouterType, Keeps

(* remove takes one entry out.                                             *)
LEMMA RemoveDrops ==
  ASSUME NEW i, Remove(i)
  PROVE  Drops
BY DEF Remove, Drops

(* fail_request takes the entry out, or finds none.                        *)
LEMMA FailRequestSteps ==
  ASSUME RouterType, NEW i, FailRequest(i)
  PROVE  Keeps \/ Drops
BY SameRouter DEF FailRequest, Drops, routerVars

(* fail_all takes every entry out and refuses admission from then on.      *)
LEMMA FailAllEmpties ==
  ASSUME NEW S, FailAll(S)
  PROVE  Empties
BY DEF FailAll, Empties
-----------------------------------------------------------------------------
(* What a requester's step does to the router and to the requesters.       *)
LEMMA RequesterSteps ==
  ASSUME RouterType, NEW i \in Id,
         RequesterStep(i) \/ PeerIsCancelled(i) \/ IsDropped(i) \/ Deliver(i)
         \/ ForwardCancel(i) \/ Answer(i)
  PROVE  RouterStep /\ WaitersMove
<1>w. waiter \in [Id -> Stage]
  BY DEF RouterType
<1>1. CASE Notify(i)
  BY <1>1, <1>w, GotoMoves, SameRouter DEF Notify, routerVars, RouterStep, Stage
<1>2. CASE Send(i)
  <2>1. WaitersMove
    BY <1>2, <1>w, GotoMoves DEF Stage, Send
  <2>2. Keeps \/ Drops
    BY <1>2, RemoveDrops, SameRouter DEF Send, routerVars
  <2> QED BY <2>1, <2>2 DEF RouterStep
<1>3. CASE Receive(i)
  BY <1>3, <1>w, GotoMoves, SameRouter DEF Stage, Receive, RouterStep
<1>4. ASSUME NEW S, NEW p \in Stage \ {"new"}, LeaveFor(i, S, p)
      PROVE  RouterStep /\ WaitersMove
  BY <1>4, <1>w, GotoMoves, SameRouter DEF Stage, LeaveFor, routerVars, RouterStep
<1>5. CASE TimesOut(i)
  BY <1>5, <1>4 DEF Stage, TimesOut
<1>6. CASE PeerIsCancelled(i)
  BY <1>6, <1>4 DEF Stage, PeerIsCancelled
<1>7. CASE IsDropped(i)
  BY <1>7, <1>4 DEF Stage, IsDropped
<1>8. CASE Sweep(i)
  BY <1>8, <1>w, GotoMoves, RemoveDrops DEF Stage, Sweep, RouterStep
<1>9. CASE Retire(i)
  <2>1. WaitersMove
    BY <1>9, <1>w, GotoMoves DEF Stage, Retire
  <2>2. CASE entry[i] = "absent"
    BY <1>9, <2>1, <2>2, SameRouter DEF Retire, routerVars, RouterStep
  <2>3. CASE entry[i] = "Writing"
    BY <1>9, <2>1, <2>3, PendingMoves DEF Retire, RouterStep, Delivery
  <2>4. CASE entry[i] \notin {"absent", "Writing"}
    BY <1>9, <2>1, <2>4, RemoveDrops DEF Retire, RouterStep
  <2> QED BY <2>2, <2>3, <2>4
<1>10. CASE Abandon(i)
  <2>1. WaitersMove
    BY <1>10, <1>w, GotoMoves DEF Stage, Abandon
  <2>2. Keeps \/ Drops
    BY <1>10, SameRouter, RemoveDrops, PendingMoves DEF Abandon, routerVars, Delivery
  <2> QED BY <2>1, <2>2 DEF RouterStep
<1>11. CASE QueueCancel(i)
  BY <1>11, <1>w, GotoMoves, SameRouter DEF Stage, QueueCancel, routerVars, RouterStep
<1>12. CASE Settle(i)
  <2>1. WaitersMove
    BY <1>12, <1>w, GotoMoves DEF Stage, Settle
  <2>2. Keeps \/ Drops \/ Empties
    BY <1>12, SameRouter, RemoveDrops, FailAllEmpties DEF Settle, routerVars
  <2> QED BY <2>1, <2>2 DEF RouterStep
<1>13. CASE AbortWriter(i)
  BY <1>13, <1>w, GotoMoves, SameRouter DEF Stage, AbortWriter, routerVars, RouterStep
<1>14. CASE Deliver(i)
  BY <1>14, <1>w, SameWaiters, SameRouter DEF Deliver, RouterStep
<1>15. CASE ForwardCancel(i)
  BY <1>15, <1>w, SameWaiters, SameRouter DEF ForwardCancel, routerVars, waiterVars, RouterStep
<1>16. CASE Answer(i)
  <2>1. WaitersMove
    BY <1>16, <1>w, SameWaiters DEF Answer, ReaderUnchanged
  <2>2. Keeps \/ Drops
    BY <1>16, SameRouter DEF Answer, Drops
  <2> QED BY <2>1, <2>2 DEF RouterStep
<1> QED
  BY <1>1, <1>2, <1>3, <1>5, <1>6, <1>7, <1>8, <1>9, <1>10, <1>11, <1>12, <1>13,
     <1>14, <1>15, <1>16 DEF RequesterStep

(* What a registration does.                                               *)
LEMMA RegisterAdmits ==
  ASSUME RouterType, NEW i \in Id, NEW u \in Upstream \cup {NoUpstream}, Register(i, u)
  PROVE  RouterStep /\ WaitersMove
<1>w. waiter \in [Id -> Stage]
  BY DEF RouterType
<1>1. WaitersMove
  BY <1>w, GotoMoves DEF Stage, Register, InsertEntry
<1>2. waiter' = [waiter EXCEPT ![i] = waiter'[i]] /\ waiter'[i] # "new"
  BY <1>w DEF Register, InsertEntry, Goto
<1>3. Admits(i, u)
  BY <1>2 DEF Register, InsertEntry, Admits
<1> QED BY <1>1, <1>3 DEF RouterStep

(* What a cancellation, the writer, the reader and a shutdown do.          *)
LEMMA PrepareKeeps ==
  ASSUME RouterType, NEW u \in Upstream, Prepare(u)
  PROVE  RouterStep /\ WaitersMove
<1>w. waiter \in [Id -> Stage]
  BY DEF RouterType
<1>1. WaitersMove
  BY <1>w, SameWaiters DEF Prepare, waiterVars
<1>2. Keeps
  BY DEF Prepare, RouterType, Keeps, Delivery
<1> QED BY <1>1, <1>2 DEF RouterStep

(* The writer claims, fails, marks and removes one entry at a time.        *)
LEMMA WriterSteps ==
  ASSUME RouterType, WriterStep \/ FinishWrite \/ WriteFails
  PROVE  RouterStep /\ WaitersMove
<1>w. waiter \in [Id -> Stage]
  BY DEF RouterType
<1>1. CASE TakeStop \/ ReturnWriter \/ TakeCancel \/ FinishWrite \/ ExitWriter
  <2>1. UNCHANGED <<waiter, entry, down, up, accepting>>
    BY <1>1 DEF TakeStop, ReturnWriter, TakeCancel, FinishWrite, ExitWriter,
                WriterUnchanged, waiterVars, routerVars
  <2> QED BY <2>1, <1>w, SameWaiters, SameRouter DEF RouterStep
<1>2. CASE Take
  <2>1. WaitersMove
    BY <1>2, <1>w, SameWaiters DEF Take, WriterUnchanged, waiterVars
  <2>2. Keeps \/ Drops
    <3> DEFINE m == Head(queue)
    <3>1. CASE UNCHANGED routerVars
      BY <3>1, SameRouter DEF routerVars
    <3>2. CASE /\ entry[m.id] = "Queued" /\ entry' = [entry EXCEPT ![m.id] = "Writing"]
               /\ UNCHANGED <<down, up, accepting>>
      BY <3>2, PendingMoves DEF Delivery
    <3>3. CASE Removed(m.id) /\ UNCHANGED accepting
      BY <3>3 DEF Drops
    <3> QED BY <1>2, <3>1, <3>2, <3>3 DEF Take
  <2> QED BY <2>1, <2>2 DEF RouterStep
<1>3. CASE MarkSent
  <2>1. WaitersMove
    BY <1>3, <1>w, SameWaiters DEF MarkSent, WriterUnchanged, waiterVars
  <2>2. Keeps \/ Drops
    BY <1>3, SameRouter, RemoveDrops, PendingMoves DEF MarkSent, routerVars, Delivery
  <2> QED BY <2>1, <2>2 DEF RouterStep
<1>4. CASE WriteCancelled \/ WriteFails
  <2>1. WaitersMove
    BY <1>4, <1>w, SameWaiters DEF WriteCancelled, WriteFails, WriteEnds, WriterUnchanged, waiterVars
  <2>2. Keeps \/ Drops
    BY <1>4, SameRouter, FailRequestSteps DEF WriteCancelled, WriteFails, WriteEnds, routerVars
  <2> QED BY <2>1, <2>2 DEF RouterStep
<1>5. CASE FailQueued
  <2>1. WaitersMove
    BY <1>5, <1>w, SameWaiters DEF FailQueued, WriterUnchanged, waiterVars
  <2>2. Keeps \/ Drops
    BY <1>5, SameRouter, FailRequestSteps DEF FailQueued, routerVars
  <2> QED BY <2>1, <2>2 DEF RouterStep
<1> QED BY <1>1, <1>2, <1>3, <1>4, <1>5 DEF WriterStep

(* The reader empties the router when it leaves, else keeps it.            *)
LEMMA ReaderSteps ==
  ASSUME RouterType, ReaderStep \/ Chatter \/ TimerElapses \/ Eof
  PROVE  RouterStep /\ WaitersMove
<1>w. waiter \in [Id -> Stage]
  BY DEF RouterType
<1>1. WaitersMove
  BY <1>w, SameWaiters DEF ReaderStep, AfterMessage, StopTimer, StartTimer, Expire, Publish,
                           Chatter, TimerElapses, Eof, ReaderUnchanged
<1>2. CASE AfterMessage \/ StopTimer \/ StartTimer \/ Publish \/ Chatter \/ TimerElapses
  <2>1. UNCHANGED <<entry, down, up, accepting>>
    BY <1>2 DEF AfterMessage, StopTimer, StartTimer, Publish, Chatter, TimerElapses, routerVars
  <2> QED BY <2>1, <1>1, SameRouter DEF RouterStep
<1>3. CASE Expire
  BY <1>1, <1>3, SameRouter, FailAllEmpties DEF Expire, routerVars, RouterStep
<1>4. CASE Eof
  BY <1>1, <1>4, FailAllEmpties DEF Eof, RouterStep
<1> QED BY <1>2, <1>3, <1>4 DEF Stage, ReaderStep

(* A shutdown works through the writer only.                               *)
LEMMA ShutdownSteps ==
  ASSUME RouterType, BeginShutdown \/ ShutdownStep
  PROVE  RouterStep /\ WaitersMove
<1>1. UNCHANGED <<waiter, entry, down, up, accepting>>
  BY DEF BeginShutdown, ShutdownStep, StopWriter, ReclaimWriter, ShutdownAborts, FinishShutdown,
         ShutUnchanged, waiterVars, routerVars
<1> QED BY <1>1, SameWaiters, SameRouter DEF RouterType, RouterStep
-----------------------------------------------------------------------------
(* Each way of moving the router keeps the invariant.                      *)
LEMMA StepKeepsInvariant ==
  ASSUME IInv, RouterStep, WaitersMove
  PROVE  IInv'
<1>1. CASE Keeps
  BY <1>1 DEF Keeps, IInv, RouterType, NewIsAbsent, CancelMapsAgree, ClosedRouterIsEmpty,
              WaitersMove, Pending
<1>2. CASE Drops
  <2>1. PICK i : Removed(i)
    BY <1>2 DEF Drops
  <2>2. UNCHANGED accepting
    BY <1>2 DEF Drops
  <2>3. RouterType'
    BY <2>1, <2>2 DEF Removed, Unmapped, IInv, RouterType, WaitersMove, Delivery
  <2>4. \A j \in Id : /\ entry'[j] = IF j = i THEN "absent" ELSE entry[j]
                      /\ down'[j] = IF j = i THEN NoUpstream ELSE down[j]
    BY <2>1 DEF Removed, Unmapped, IInv, RouterType
  <2>5. \A j \in Id, u \in Upstream : j \in up'[u] <=> j \in up[u] /\ ~(j = i /\ down[j] = u)
    BY <2>1 DEF Removed, Unmapped
  <2>6. NewIsAbsent' /\ ClosedRouterIsEmpty'
    BY <2>2, <2>4 DEF IInv, NewIsAbsent, ClosedRouterIsEmpty, WaitersMove, Pending
  <2>7. CancelMapsAgree'
    BY <2>4, <2>5, RequestsAssumption DEF IInv, CancelMapsAgree, Pending
  <2> QED BY <2>3, <2>6, <2>7 DEF IInv
<1>3. CASE Empties
  <2>1. RouterType'
    BY <1>3 DEF Empties, RouterType, WaitersMove, Delivery
  <2>2. \A j \in Id : entry'[j] = "absent" /\ down'[j] = NoUpstream
    BY <1>3 DEF Empties
  <2>3. \A j \in Id, u \in Upstream : j \notin up'[u] /\ u # NoUpstream
    BY <1>3, RequestsAssumption DEF Empties
  <2> QED
    BY <2>1, <2>2, <2>3 DEF IInv, NewIsAbsent, CancelMapsAgree, ClosedRouterIsEmpty, Pending
<1>4. CASE \E i \in Id, u \in Upstream \cup {NoUpstream} : Admits(i, u)
  <2>1. PICK i \in Id, u \in Upstream \cup {NoUpstream} : Admits(i, u)
    BY <1>4
  <2>2. RouterType'
    BY <2>1 DEF Admits, IInv, RouterType, WaitersMove, Delivery
  <2>3. \A j \in Id : /\ entry'[j] = IF j = i THEN "Queued" ELSE entry[j]
                      /\ down'[j] = IF j = i THEN u ELSE down[j]
    BY <2>1 DEF Admits, IInv, RouterType
  <2>4. \A j \in Id, v \in Upstream : j \in up'[v] <=> j \in up[v] \/ (j = i /\ v = u)
    BY <2>1 DEF Admits
  <2>5. entry[i] = "absent" /\ waiter'[i] # "new" /\ accepting /\ accepting'
    BY <2>1 DEF Admits, IInv, NewIsAbsent
  <2>6. NewIsAbsent' /\ ClosedRouterIsEmpty'
    BY <2>3, <2>5 DEF IInv, NewIsAbsent, ClosedRouterIsEmpty, WaitersMove, Pending
  <2>7. \A v \in Upstream : i \notin up[v]
    BY <2>5, RequestsAssumption DEF IInv, CancelMapsAgree, Pending
  <2>8. CancelMapsAgree'
    BY <2>3, <2>4, <2>7, RequestsAssumption DEF IInv, CancelMapsAgree, Pending
  <2> QED BY <2>2, <2>6, <2>8 DEF IInv
<1> QED BY <1>1, <1>2, <1>3, <1>4 DEF Stage, RouterStep

(* The inductive invariant holds in every behaviour.                       *)
LEMMA InvariantHolds == Safety => []IInv
<1>1. Init => IInv
  <2> SUFFICES ASSUME Init PROVE IInv
    OBVIOUS
  <2>1. RouterType
    BY DEF Init, RouterType, Delivery, Stage
  <2>2. \A j \in Id : entry[j] = "absent" /\ down[j] = NoUpstream
    BY DEF Init
  <2>3. \A j \in Id, u \in Upstream : j \notin up[u] /\ u # NoUpstream
    BY RequestsAssumption DEF Init
  <2> QED
    BY <2>1, <2>2, <2>3 DEF IInv, NewIsAbsent, CancelMapsAgree, ClosedRouterIsEmpty, Pending
<1>2. IInv /\ [Next]_vars => IInv'
  <2> SUFFICES ASSUME IInv, [Next]_vars PROVE IInv'
    OBVIOUS
  <2>t. RouterType
    BY DEF IInv
  <2>1. ASSUME NEW i \in Id, NEW u \in Upstream \cup {NoUpstream}, Register(i, u)
        PROVE  IInv'
    BY <2>1, <2>t, RegisterAdmits, StepKeepsInvariant
  <2>2. ASSUME NEW i \in Id,
               RequesterStep(i) \/ PeerIsCancelled(i) \/ IsDropped(i) \/ Deliver(i)
               \/ ForwardCancel(i) \/ Answer(i)
        PROVE  IInv'
    BY <2>2, <2>t, RequesterSteps, StepKeepsInvariant
  <2>3. ASSUME NEW u \in Upstream, Prepare(u)
        PROVE  IInv'
    BY <2>3, <2>t, PrepareKeeps, StepKeepsInvariant
  <2>4. CASE WriterStep \/ FinishWrite \/ WriteFails
    BY <2>4, <2>t, WriterSteps, StepKeepsInvariant
  <2>5. CASE ReaderStep \/ Chatter \/ TimerElapses \/ Eof
    BY <2>5, <2>t, ReaderSteps, StepKeepsInvariant
  <2>6. CASE BeginShutdown \/ ShutdownStep
    BY <2>6, <2>t, ShutdownSteps, StepKeepsInvariant
  <2>7. CASE UNCHANGED vars
    <3>1. UNCHANGED <<waiter, entry, down, up, accepting>>
      BY <2>7 DEF vars, waiterVars, routerVars
    <3>2. Keeps /\ WaitersMove
      BY <3>1, <2>t, SameRouter, SameWaiters DEF RouterType
    <3> QED BY <3>2, StepKeepsInvariant DEF RouterStep
  <2> QED BY <2>1, <2>2, <2>3, <2>4, <2>5, <2>6, <2>7 DEF Next
<1> QED BY <1>1, <1>2, PTL DEF Safety

(* The cancel maps are inverse to each other and name pending requests     *)
(* only, and a router that refused admission holds no entry and no mapping.*)
THEOREM RouterIsConsistentHolds == Safety => []RouterIsConsistent
<1>1. IInv => RouterIsConsistent
  BY DEF IInv, RouterIsConsistent
<1> QED BY <1>1, InvariantHolds, PTL

-----------------------------------------------------------------------------
(***************************************************************************)
(* More about BridgeRequests, for any requests, upstream ids and queue     *)
(* capacity: no requester is left without an answer that comes, no failure *)
(* record stays behind, every frame has an owner, and cancels are exact.   *)
(*                                                                         *)
(* The argument: what is claimed of one request is kept by the steps of    *)
(* all the others, since every step of a task names the request it is      *)
(* about, or takes all of them out of the router at once.                  *)
(***************************************************************************)

Reason == {"none", "ConnectionLost", "RequestTimeout"}

DeliveryType ==
  /\ failures \in [Id -> Reason]
  /\ draining \in [Id -> {"none", "error", "cancelled"}]
  /\ reply \in [Id -> {"none", "answer", "error", "cancelled"}]

(* An entry that was given up has no listener; a failure is recorded of a  *)
(* peer whose entry is gone.                                               *)
RequestOK(i) ==
  /\ entry[i] \in {"CancelledWriting", "CancelledSent"} => ~Listening(i)
  /\ Listening(i) => Pending(i) \/ draining[i] # "none" \/ reply[i] # "none"
  /\ failures[i] # "none" => i \in Peer /\ ~Pending(i) /\ waiter[i] # "new"
  /\ failures[i] # "none" /\ draining[i] = "none" =>
       \/ Listening(i) /\ reply[i] # "none"
       \/ waiter[i] \in {"abandoning", "sweeping"}

DInv == DeliveryType /\ \A i \in Id : RequestOK(i)

(* Entries leave the router with a reply on its way to their listeners.    *)
Settles ==
  /\ DeliveryType'
  /\ \A j \in Id :
       \/ /\ entry'[j] = entry[j] /\ failures'[j] = failures[j]
          /\ draining'[j] = draining[j]
       \/ /\ entry[j] # "absent" /\ entry'[j] = "absent" /\ draining'[j] # "none"
          /\ failures'[j] # failures[j] => j \in Peer

-----------------------------------------------------------------------------
(* fail_all and fail_request settle what they take out.                    *)
LEMMA FailAllSettles ==
  ASSUME IInv, DInv, NEW S, FailAll(S), reply' = reply
  PROVE  Settles
BY DEF IInv, RouterType, DInv, DeliveryType, Reason, Delivery, FailAll, Pending, Settles

(* So does fail_request, for its one request.                              *)
LEMMA FailRequestSettles ==
  ASSUME IInv, DInv, NEW i, FailRequest(i), reply' = reply
  PROVE  Settles
BY DEF IInv, RouterType, DInv, DeliveryType, Reason, Delivery, FailRequest, Removed, Pending,
       Settles, routerVars

(* It is fine with the requesters if at most one moves that has given up   *)
(* already.                                                                *)
LEMMA SettlesOK ==
  ASSUME IInv, DInv, Settles, reply' = reply,
         waiter' = waiter
         \/ \E i \in Id : waiter[i] = "watching" /\ waiter' = [waiter EXCEPT ![i] = "aborting"]
  PROVE  DInv'
<1>. SUFFICES ASSUME NEW j \in Id PROVE RequestOK(j)'
  BY DEF DInv, Settles
<1>1. waiter'[j] = waiter[j] \/ (waiter[j] = "watching" /\ waiter'[j] = "aborting")
  BY DEF IInv, RouterType
<1>2. RequestOK(j) /\ (waiter[j] = "new" => entry[j] = "absent")
  BY DEF DInv, IInv, NewIsAbsent
<1>. QED  BY <1>1, <1>2 DEF RequestOK, Listening, Pending, Settles

(* The requesters' steps.                                                  *)
LEMMA RequesterDelivers ==
  ASSUME IInv, DInv, NEW i \in Id,
         RequesterStep(i) \/ PeerIsCancelled(i) \/ IsDropped(i) \/ Deliver(i)
         \/ ForwardCancel(i) \/ Answer(i)
  PROVE  DInv'
<1>. USE DEF DInv, IInv, RouterType, DeliveryType, RequestOK, Listening, Pending, Goto
<1>1. CASE Notify(i)
  BY <1>1 DEF Notify, Stage, routerVars
<1>2. CASE Send(i)
  BY <1>2 DEF Send, Remove, Removed, Stage, routerVars, Delivery, Reason
<1>3. CASE Receive(i)
  BY <1>3 DEF Receive, Stage, Reason
<1>4. CASE TimesOut(i)
  BY <1>4 DEF TimesOut, LeaveFor, Stage, routerVars, Id
<1>5. CASE PeerIsCancelled(i)
  BY <1>5 DEF PeerIsCancelled, LeaveFor, Stage, routerVars
<1>6. CASE IsDropped(i)
  BY <1>6 DEF IsDropped, LeaveFor, Stage, routerVars
<1>7. CASE Sweep(i)
  BY <1>7 DEF Sweep, Remove, Removed, Stage, Delivery, Reason
<1>8. CASE Retire(i)
  BY <1>8 DEF Retire, Remove, Removed, Stage, Delivery, Reason, routerVars
<1>9. CASE Abandon(i)
  BY <1>9 DEF Abandon, Remove, Removed, Stage, Delivery, Reason, routerVars
<1>10. CASE QueueCancel(i)
  BY <1>10 DEF QueueCancel, Stage, routerVars
<1>11. CASE Settle(i)
  <2>1. CASE UNCHANGED routerVars
    BY <1>11, <2>1 DEF Settle, Stage, routerVars
  <2>2. CASE Remove(i)
    BY <1>11, <2>2 DEF Settle, Remove, Removed, Stage, Delivery, Reason
  <2>3. CASE FailAll({i}) /\ Goto(i, "aborting")
    <3>1. /\ waiter[i] = "watching" /\ reply' = reply
          /\ waiter' = [waiter EXCEPT ![i] = "aborting"]
      BY <1>11, <2>3 DEF Settle
    <3>2. Settles
      BY <2>3, <3>1, FailAllSettles
    <3>. QED  BY <3>1, <3>2, SettlesOK
  <2>4. UNCHANGED routerVars \/ Remove(i) \/ (FailAll({i}) /\ Goto(i, "aborting"))
    BY <1>11 DEF Settle
  <2>. QED  BY <2>1, <2>2, <2>3, <2>4
<1>12. CASE AbortWriter(i)
  BY <1>12 DEF AbortWriter, Stage, routerVars
<1>13. CASE Deliver(i)
  BY <1>13 DEF Deliver, Reason
<1>14. CASE ForwardCancel(i)
  BY <1>14 DEF ForwardCancel, routerVars, waiterVars
<1>15. CASE Answer(i)
  BY <1>15 DEF Answer, Removed, ReaderUnchanged, Delivery
<1>. QED
  BY <1>1, <1>2, <1>3, <1>4, <1>5, <1>6, <1>7, <1>8, <1>9, <1>10, <1>11, <1>12, <1>13,
     <1>14, <1>15 DEF RequesterStep

(* A registration finds no trace of its id.                                *)
LEMMA RegisterDelivers ==
  ASSUME IInv, DInv, NEW i \in Id, NEW u \in Upstream \cup {NoUpstream}, Register(i, u)
  PROVE  DInv'
BY DEF DInv, IInv, RouterType, NewIsAbsent, DeliveryType, RequestOK, Listening, Pending, Goto,
       Register, InsertEntry, Delivery, Stage

(* A cancellation of the editor's marks only entries that stay.            *)
LEMMA PrepareDelivers ==
  ASSUME IInv, DInv, NEW u \in Upstream, Prepare(u)
  PROVE  DInv'
BY DEF DInv, IInv, RouterType, DeliveryType, RequestOK, Listening, Pending, Prepare, Delivery,
       waiterVars

(* The writer's: only a frame that nobody waits for leaves without a word. *)
LEMMA WriterDelivers ==
  ASSUME IInv, DInv, WriterStep \/ FinishWrite \/ WriteFails
  PROVE  DInv'
<1>1. waiter' = waiter /\ reply' = reply
  BY DEF WriterStep, TakeStop, ReturnWriter, TakeCancel, Take, MarkSent, WriteCancelled,
         FailQueued, ExitWriter, FinishWrite, WriteFails, WriteEnds, WriterUnchanged, waiterVars
<1>2. CASE UNCHANGED routerVars
  BY <1>1, <1>2, SettlesOK DEF Settles, DInv, DeliveryType, routerVars
<1>3. CASE \E i : FailRequest(i)
  BY <1>1, <1>3, FailRequestSettles, SettlesOK
<1>4. CASE Take
  <2>. DEFINE i == Head(queue).id
  <2>1. CASE Removed(i) /\ draining' = [draining EXCEPT ![i] = "cancelled"]
             /\ entry[i] = "CancelledQueued" /\ UNCHANGED failures
    <3>1. Settles
      BY <1>1, <2>1 DEF IInv, RouterType, DInv, DeliveryType, Reason, Delivery, Removed, Settles
    <3>. QED  BY <1>1, <3>1, SettlesOK
  <2>2. CASE entry[i] = "Queued" /\ entry' = [entry EXCEPT ![i] = "Writing"]
             /\ UNCHANGED <<failures, draining>>
    BY <1>1, <2>2 DEF DInv, IInv, RouterType, DeliveryType, RequestOK, Listening, Pending, Delivery
  <2>. QED  BY <1>2, <1>4, <2>1, <2>2 DEF Take
<1>5. CASE MarkSent
  <2>. DEFINE i == writer.msg.id
  <2>1. CASE Remove(i) /\ entry[i] = "CancelledWriting"
    BY <1>1, <2>1 DEF DInv, IInv, RouterType, DeliveryType, RequestOK, Listening, Pending, Delivery,
                      Remove, Removed, Reason
  <2>2. CASE /\ \/ entry[i] = "Writing" /\ entry' = [entry EXCEPT ![i] = "Sent"]
                \/ entry[i] = "CancelledWriting" /\ entry' = [entry EXCEPT ![i] = "CancelledSent"]
             /\ UNCHANGED <<failures, draining>>
    BY <1>1, <2>2 DEF DInv, IInv, RouterType, DeliveryType, RequestOK, Listening, Pending, Delivery
  <2>. QED  BY <1>2, <1>5, <2>1, <2>2 DEF MarkSent
<1>6. CASE WriteCancelled \/ WriteFails \/ FailQueued
  BY <1>2, <1>3, <1>6 DEF WriteCancelled, WriteFails, WriteEnds, FailQueued
<1>. QED  BY <1>2, <1>4, <1>5, <1>6 DEF WriterStep, TakeStop, ReturnWriter, TakeCancel, ExitWriter,
             FinishWrite

(* The reader's steps: the timer and the end of the output fail everybody. *)
LEMMA ReaderDelivers ==
  ASSUME IInv, DInv, ReaderStep \/ Chatter \/ TimerElapses \/ Eof
  PROVE  DInv'
<1>1. waiter' = waiter /\ reply' = reply
  BY DEF ReaderStep, AfterMessage, StopTimer, StartTimer, Expire, Publish, Chatter, TimerElapses,
         Eof, ReaderUnchanged
<1>2. CASE UNCHANGED routerVars
  BY <1>1, <1>2, SettlesOK DEF Settles, DInv, DeliveryType, routerVars
<1>3. CASE FailAll({})
  BY <1>1, <1>3, FailAllSettles, SettlesOK
<1>. QED  BY <1>2, <1>3 DEF ReaderStep, AfterMessage, StopTimer, StartTimer, Expire, Publish,
             Chatter, TimerElapses, Eof

(* A step of a shutdown, or none.                                          *)
LEMMA QuietDelivers ==
  ASSUME IInv, DInv, BeginShutdown \/ ShutdownStep \/ UNCHANGED vars
  PROVE  DInv'
<1>1. UNCHANGED <<routerVars, waiterVars>>
  BY DEF BeginShutdown, ShutdownStep, StopWriter, ReclaimWriter, ShutdownAborts, FinishShutdown,
         ShutUnchanged, vars
<1>. QED  BY <1>1, SettlesOK DEF Settles, DInv, DeliveryType, routerVars, waiterVars

(* The invariant holds in every behaviour.                                 *)
LEMMA DeliveryHolds == Safety => []DInv
<1>1. Init => DInv
  BY DEF Init, DInv, DeliveryType, RequestOK, Reason, Listening, Pending
<1>2. IInv /\ DInv /\ [Next]_vars => DInv'
  BY RequesterDelivers, RegisterDelivers, PrepareDelivers, WriterDelivers, ReaderDelivers,
     QuietDelivers DEF Next
<1>. QED  BY <1>1, <1>2, InvariantHolds, PTL DEF Safety

(* No requester is left to its deadline because its entry went away        *)
(* without an answer.                                                      *)
THEOREM AnsweredOrPendingHolds == Safety => []AnsweredOrPending
<1>1. DInv => AnsweredOrPending
  BY DEF DInv, RequestOK, AnsweredOrPending
<1>. QED  BY <1>1, DeliveryHolds, PTL

(* A failure record never outlives the requester that would read it.       *)
THEOREM NoFailureLeakHolds == Safety => []NoFailureLeak
<1>1. DInv => NoFailureLeak
  BY DEF DInv, RequestOK, NoFailureLeak
<1>. QED  BY <1>1, DeliveryHolds, PTL
-----------------------------------------------------------------------------
(* Frames.  The writer looks at the queue until its handle is dropped.     *)
Frame == [kind : {"request", "cancel"}, id : Id]

WriterOK ==
  /\ writer = [pc |-> writer.pc, msg |-> writer.msg, drain |-> writer.drain]
  /\ writer.pc \in {"select", "writing", "written", "returned", "failing", "exiting", "gone"}
  /\ writer.pc \in {"failing", "exiting", "gone"} => handle = "dropped"
  /\ writer.pc = "returned" => writer.drain
  /\ writer.drain => ~rx
  /\ queue \in Seq(Frame)

FInv == WriterOK /\ FrameIsOwned

(* A step after which no more is asked of the writer than before.          *)
Calm ==
  \A j \in Id :
    /\ entry'[j] \in {"Queued", "CancelledQueued"} /\ waiter'[j] = "waiting" =>
         entry[j] \in {"Queued", "CancelledQueued"} /\ waiter[j] = "waiting"
    /\ entry'[j] \in {"Writing", "CancelledWriting"} =>
         entry[j] \in {"Writing", "CancelledWriting"}

(* A frame is queued.                                                      *)
LEMMA FramesOfAppend ==
  ASSUME queue \in Seq(Frame), NEW m \in Frame, queue' = Append(queue, m)
  PROVE  queue' \in Seq(Frame) /\ Frames' = Frames \cup {m}
BY DEF Frames

(* A frame leaves the queue at its head.                                   *)
LEMMA FramesOfTail ==
  ASSUME queue \in Seq(Frame), queue # <<>>, queue' = Tail(queue)
  PROVE  /\ queue' \in Seq(Frame) /\ Head(queue) \in Frame
         /\ Frames = {Head(queue)} \cup Frames'
<1>1. /\ queue' \in Seq(Frame) /\ Head(queue) \in Frame
      /\ Len(queue) \in Nat /\ Len(queue) > 0 /\ Len(queue') = Len(queue) - 1
      /\ Head(queue) = queue[1] /\ \A k \in 1..Len(queue') : queue'[k] = queue[k + 1]
  OBVIOUS
<1>2. \A k \in 1..Len(queue) : k = 1 \/ (k - 1 \in 1..Len(queue') /\ queue'[k - 1] = queue[k])
  BY <1>1
<1>3. \A k \in 1..Len(queue') : k + 1 \in 1..Len(queue) /\ queue'[k] = queue[k + 1]
  BY <1>1
<1>4. ASSUME NEW f \in Frames PROVE f = Head(queue) \/ f \in Frames'
  <2>1. PICK k \in 1..Len(queue) : f = queue[k]
    BY <1>4 DEF Frames
  <2>. QED  BY <1>1, <1>2, <2>1 DEF Frames
<1>5. Frames' \subseteq Frames
  BY <1>3 DEF Frames
<1>6. Head(queue) \in Frames
  BY <1>1 DEF Frames
<1>. QED  BY <1>1, <1>4, <1>5, <1>6

(* A calm step that loses no frame needs no more of the writer.            *)
LEMMA CalmOK ==
  ASSUME FInv, Calm, writer' = writer, rx' = rx,
         handle = "dropped" => handle' = "dropped",
         queue' \in Seq(Frame), Frames \subseteq Frames'
  PROVE  FInv'
BY DEF FInv, WriterOK, Calm, FrameIsOwned

(* Only a cancel, or nothing, is added to the queue.                       *)
LEMMA CancelQueued ==
  ASSUME FInv, NEW i \in Id, queue' = IF CanSend THEN Append(queue, CancelOf(i)) ELSE queue
  PROVE  /\ queue' \in Seq(Frame)
         /\ Frames' = Frames \/ Frames' = Frames \cup {CancelOf(i)}
<1>1. CancelOf(i) \in Frame
  BY DEF CancelOf, Frame
<1>2. CASE queue' = queue
  BY <1>2 DEF FInv, WriterOK, Frames
<1>3. CASE queue' = Append(queue, CancelOf(i))
  BY <1>1, <1>3, FramesOfAppend DEF FInv, WriterOK
<1>. QED  BY <1>2, <1>3

(* The requesters' steps: only Send adds a request's frame, to an open queue. *)
LEMMA RequesterFrames ==
  ASSUME IInv, FInv, NEW i \in Id,
         RequesterStep(i) \/ PeerIsCancelled(i) \/ IsDropped(i) \/ Deliver(i)
         \/ ForwardCancel(i) \/ Answer(i)
  PROVE  FInv'
<1>1. queue \in Seq(Frame)
  BY DEF FInv, WriterOK
<1>2. CASE UNCHANGED writerVars /\ Calm
  BY <1>1, <1>2, CalmOK DEF writerVars, Frames
<1>3. CASE Notify(i) \/ Receive(i) \/ Deliver(i)
  <2>1. Calm
    BY <1>3 DEF IInv, RouterType, Notify, Receive, Deliver, Goto, Calm, routerVars
  <2>. QED  BY <1>2, <1>3, <2>1 DEF Notify, Receive, Deliver
<1>4. CASE TimesOut(i) \/ PeerIsCancelled(i) \/ IsDropped(i)
  <2>1. Calm
    BY <1>4 DEF IInv, RouterType, TimesOut, PeerIsCancelled, IsDropped, LeaveFor, Goto, Calm,
                routerVars
  <2>. QED  BY <1>2, <1>4, <2>1 DEF TimesOut, PeerIsCancelled, IsDropped, LeaveFor
<1>5. CASE Sweep(i) \/ Retire(i) \/ Abandon(i)
  <2>1. CASE Sweep(i)
    BY <1>2, <2>1 DEF IInv, RouterType, Sweep, Remove, Removed, Goto, Calm
  <2>2. CASE Retire(i)
    BY <1>2, <2>2 DEF IInv, RouterType, Retire, Remove, Removed, Goto, Calm, routerVars
  <2>3. CASE Abandon(i)
    BY <1>2, <2>3 DEF IInv, RouterType, Abandon, Remove, Removed, Goto, Calm, routerVars
  <2>. QED  BY <1>5, <2>1, <2>2, <2>3
<1>6. CASE Settle(i)
  <2>1. Calm
    BY <1>6 DEF IInv, RouterType, Settle, Remove, Removed, FailAll, Goto, Calm, routerVars
  <2>. QED  BY <1>2, <1>6, <2>1 DEF Settle
<1>7. CASE AbortWriter(i)
  <2>1. Calm
    BY <1>7 DEF IInv, RouterType, AbortWriter, Goto, Calm, routerVars
  <2>. QED  BY <1>1, <1>7, <2>1, CalmOK DEF AbortWriter, Frames
<1>8. CASE Answer(i)
  <2>1. Calm
    BY <1>8 DEF IInv, RouterType, Answer, Removed, ReaderUnchanged, Calm
  <2>. QED  BY <1>2, <1>8, <2>1 DEF Answer, ReaderUnchanged
<1>9. CASE QueueCancel(i) \/ ForwardCancel(i)
  <2>1. Calm
    BY <1>9 DEF IInv, RouterType, QueueCancel, ForwardCancel, Goto, Calm, routerVars, waiterVars
  <2>2. queue' \in Seq(Frame) /\ Frames \subseteq Frames'
    BY <1>9, CancelQueued DEF QueueCancel, ForwardCancel
  <2>. QED  BY <1>9, <2>1, <2>2, CalmOK DEF QueueCancel, ForwardCancel
<1>10. CASE Send(i)
  <2>1. CASE CanSend
    <3>1. /\ rx /\ writer' = writer /\ rx' = rx /\ handle' = handle /\ entry' = entry
          /\ queue' = Append(queue, Request(i))
          /\ \A j \in Id : j # i => waiter'[j] = waiter[j]
      BY <1>10, <2>1 DEF IInv, RouterType, Send, CanSend, Goto, routerVars
    <3>2. Request(i) \in Frame
      BY DEF Request, Frame
    <3>3. queue' \in Seq(Frame) /\ Frames' = Frames \cup {Request(i)}
      BY <1>1, <3>1, <3>2, FramesOfAppend
    <3>4. writer.pc \in {"select", "writing", "written"} \/ handle = "dropped"
      BY <3>1 DEF FInv, WriterOK
    <3>. QED  BY <3>1, <3>3, <3>4 DEF FInv, WriterOK, FrameIsOwned
  <2>2. CASE ~CanSend
    <3>1. Calm
      BY <1>10, <2>2 DEF IInv, RouterType, Send, Remove, Removed, Goto, Calm
    <3>. QED  BY <1>2, <1>10, <2>2, <3>1 DEF Send, writerVars
  <2>. QED  BY <2>1, <2>2
<1>. QED  BY <1>3, <1>4, <1>5, <1>6, <1>7, <1>8, <1>9, <1>10 DEF RequesterStep

(* A registration's frame is not queued yet; a cancellation marks the      *)
(* entry and leaves the frame; the reader and a shutdown touch no frame.   *)
LEMMA OthersFrames ==
  ASSUME IInv, FInv,
         \/ \E i \in Id, u \in Upstream \cup {NoUpstream} : Register(i, u)
         \/ \E u \in Upstream : Prepare(u)
         \/ ReaderStep \/ Chatter \/ TimerElapses \/ Eof
         \/ BeginShutdown \/ ShutdownStep \/ UNCHANGED vars
  PROVE  FInv'
<1>1. /\ writer' = writer /\ rx' = rx /\ queue' = queue
      /\ handle = "dropped" => handle' = "dropped"
  BY DEF Register, InsertEntry, Prepare, ReaderStep, AfterMessage, StopTimer, StartTimer, Expire,
         Publish, Chatter, TimerElapses, Eof, ReaderUnchanged, BeginShutdown, ShutdownStep,
         StopWriter, ReclaimWriter, ShutdownAborts, FinishShutdown, writerVars, vars
<1>2. Calm
  <2>1. CASE \E i \in Id, u \in Upstream \cup {NoUpstream} : Register(i, u)
    BY <2>1 DEF IInv, RouterType, Register, InsertEntry, Goto, Calm
  <2>2. CASE \E u \in Upstream : Prepare(u)
    BY <2>2 DEF Prepare, waiterVars, Calm
  <2>3. CASE ReaderStep \/ Chatter \/ TimerElapses \/ Eof
    <3>1. waiter' = waiter /\ (UNCHANGED routerVars \/ FailAll({}))
      BY <2>3 DEF ReaderStep, AfterMessage, StopTimer, StartTimer, Expire, Publish, Chatter,
                  TimerElapses, Eof, ReaderUnchanged
    <3>. QED  BY <3>1 DEF FailAll, routerVars, Calm
  <2>4. CASE BeginShutdown \/ ShutdownStep \/ UNCHANGED vars
    BY <2>4 DEF BeginShutdown, ShutdownStep, StopWriter, ReclaimWriter, ShutdownAborts,
                FinishShutdown, ShutUnchanged, waiterVars, routerVars, vars, Calm
  <2>. QED  BY <2>1, <2>2, <2>3, <2>4
<1>. QED  BY <1>1, <1>2, CalmOK DEF FInv, WriterOK, Frames

(* fail_request takes an entry out.                                        *)
LEMMA FailRequestCalm ==
  ASSUME IInv, NEW i, FailRequest(i) \/ UNCHANGED routerVars, waiter' = waiter
  PROVE  /\ Calm
         /\ i \in Id => entry'[i] = "absent" \/ UNCHANGED routerVars
         /\ \A j \in Id : j = i \/ entry'[j] = entry[j]
         /\ FailRequest(i) /\ i \in Id => entry'[i] = "absent"
BY DEF IInv, RouterType, FailRequest, Removed, Pending, routerVars, Calm

(* The writer claims a frame as it takes it, and lets go of no entry that  *)
(* it has been writing.                                                    *)
LEMMA TakeFrames == ASSUME IInv, FInv, Take PROVE FInv'
<1>. DEFINE m == Head(queue)
<1>1. /\ writer.pc = "select" /\ queue # <<>> /\ queue' = Tail(queue)
      /\ rx' = rx /\ handle' = handle /\ waiter' = waiter
  BY DEF Take, WriterUnchanged, waiterVars
<1>2. queue' \in Seq(Frame) /\ m \in Frame /\ Frames = {m} \cup Frames'
  BY <1>1, FramesOfTail DEF FInv, WriterOK
<1>3. m.id \in Id /\ \A j \in Id : m = Request(j) <=> m.kind = "request" /\ m.id = j
  BY <1>2 DEF Frame, Request
<1>. HIDE DEF m
<1>4. \A j \in Id : entry[j] \notin {"Writing", "CancelledWriting"}
  BY <1>1 DEF FInv, FrameIsOwned
<1>5. /\ writer'.pc \in {"select", "writing"} /\ writer'.drain = writer.drain
      /\ writer' = [pc |-> writer'.pc, msg |-> writer'.msg, drain |-> writer'.drain]
      /\ writer' # writer => writer'.msg = m /\ writer'.pc = "writing"
  BY <1>1 DEF Take, FInv, WriterOK, m
<1>6. \A j \in Id :
        \/ entry'[j] = entry[j] /\ (m = Request(j) => entry[j] \notin {"Queued", "CancelledQueued"})
        \/ m = Request(j) /\ entry'[j] = "Writing" /\ writer'.msg = m /\ writer'.pc = "writing"
        \/ m = Request(j) /\ entry'[j] = "absent"
  <2>1. CASE m.kind = "cancel" /\ entry' = entry
    BY <1>3, <2>1
  <2>2. CASE m.kind = "request" /\ entry[m.id] = "Queued" /\ writer'.msg = m /\ writer'.pc = "writing"
             /\ entry' = [entry EXCEPT ![m.id] = "Writing"]
    BY <1>3, <2>2 DEF IInv, RouterType
  <2>3. CASE m.kind = "request" /\ Removed(m.id)
    BY <1>3, <2>3 DEF IInv, RouterType, Removed
  <2>4. CASE m.kind = "request" /\ entry[m.id] \notin {"Queued", "CancelledQueued"} /\ entry' = entry
    BY <1>3, <2>4
  <2>. QED  BY <2>1, <2>2, <2>3, <2>4 DEF Take, m, routerVars, FInv, WriterOK
<1>. QED  BY <1>1, <1>2, <1>4, <1>5, <1>6 DEF FInv, WriterOK, FrameIsOwned

(* What is being written is the writer's frame.                            *)
LEMMA WrittenIs ==
  ASSUME FInv
  PROVE  \A j \in Id : entry[j] \in {"Writing", "CancelledWriting"} =>
           writer.msg.kind = "request" /\ writer.msg.id = j
<1>. SUFFICES ASSUME NEW j \in Id, entry[j] \in {"Writing", "CancelledWriting"}
              PROVE  writer.msg.kind = "request" /\ writer.msg.id = j
  OBVIOUS
<1>1. writer.msg = Request(j)
  BY DEF FInv, FrameIsOwned
<1>. QED  BY <1>1 DEF Request

(* The writer's steps.                                                     *)
LEMMA WriterFrames ==
  ASSUME IInv, FInv, WriterStep \/ FinishWrite \/ WriteFails
  PROVE  FInv'
<1>1. waiter' = waiter /\ handle' = handle
  BY DEF WriterStep, TakeStop, ReturnWriter, TakeCancel, Take, MarkSent, WriteCancelled,
         FailQueued, ExitWriter, FinishWrite, WriteFails, WriteEnds, WriterUnchanged, waiterVars
<1>2. CASE TakeStop \/ ReturnWriter \/ TakeCancel \/ FinishWrite
  <2>1. entry' = entry /\ queue' = queue
    BY <1>2 DEF TakeStop, ReturnWriter, TakeCancel, FinishWrite, routerVars
  <2>2. Frames' = Frames
    BY <2>1 DEF Frames
  <2>3. CASE TakeStop
    BY <1>1, <2>1, <2>2, <2>3 DEF TakeStop, FInv, WriterOK, FrameIsOwned
  <2>4. CASE ReturnWriter
    <3>1. Frames = {}
      BY <2>4 DEF ReturnWriter, Frames
    <3>. QED  BY <1>1, <2>1, <2>2, <2>4, <3>1 DEF ReturnWriter, WriterGoes, FInv, WriterOK, FrameIsOwned
  <2>5. CASE TakeCancel
    BY <1>1, <2>1, <2>2, <2>5 DEF TakeCancel, WriterGoes, FInv, WriterOK, FrameIsOwned
  <2>6. CASE FinishWrite
    BY <1>1, <2>1, <2>2, <2>6 DEF FinishWrite, FInv, WriterOK, FrameIsOwned
  <2>. QED  BY <1>2, <2>3, <2>4, <2>5, <2>6
<1>3. CASE Take
  BY <1>3, TakeFrames
<1>4. CASE MarkSent
  <2>. DEFINE i == writer.msg.id
  <2>1. /\ writer.pc = "written" /\ queue' = queue /\ rx' = rx /\ Frames' = Frames
        /\ writer' = [writer EXCEPT !.pc = "select", !.msg = NoMsg]
    BY <1>4 DEF MarkSent, WriterGoes, Frames
  <2>2. \A j \in Id : entry[j] \in {"Writing", "CancelledWriting"} =>
          writer.msg.kind = "request" /\ i = j
    BY WrittenIs
  <2>3. \A j \in Id :
          \/ entry'[j] = entry[j] /\ entry[j] \notin {"Writing", "CancelledWriting"}
          \/ entry'[j] \in {"Sent", "CancelledSent", "absent"}
    BY <1>4, <2>2 DEF MarkSent, IInv, RouterType, Remove, Removed, routerVars
  <2>. QED  BY <1>1, <2>1, <2>3 DEF FInv, WriterOK, FrameIsOwned
<1>5. CASE WriteCancelled \/ WriteFails
  <2>. DEFINE i == writer.msg.id
  <2>1. /\ writer.pc = "writing" /\ queue' = queue /\ rx' = rx /\ Frames' = Frames
        /\ IF writer.msg.kind = "request" THEN FailRequest(i) ELSE UNCHANGED routerVars
        /\ \E pc \in {"select", "failing"} :
             /\ writer' = [writer EXCEPT !.pc = pc, !.msg = NoMsg]
             /\ pc = "failing" => handle = "dropped"
    BY <1>5 DEF WriteCancelled, WriteFails, WriteEnds, WriterGoes, Frames
  <2>2. \A j \in Id : entry[j] \in {"Writing", "CancelledWriting"} =>
          writer.msg.kind = "request" /\ i = j
    BY WrittenIs
  <2>3. \A j \in Id : entry'[j] = "absent" \/
          (entry'[j] = entry[j] /\ entry[j] \notin {"Writing", "CancelledWriting"})
    BY <1>1, <2>1, <2>2, FailRequestCalm DEF routerVars
  <2>. QED  BY <1>1, <2>1, <2>3 DEF FInv, WriterOK, FrameIsOwned
<1>6. CASE FailQueued
  <2>1. writer.pc = "failing" /\ handle = "dropped" /\ rx' = rx
    BY <1>6 DEF FailQueued, FInv, WriterOK
  <2>2. Calm
    BY <1>1, <1>6, FailRequestCalm DEF FailQueued
  <2>3. queue' \in Seq(Frame)
    BY <1>6 DEF FailQueued, FInv, WriterOK
  <2>4. writer' = writer \/ writer' = [writer EXCEPT !.pc = "exiting", !.msg = NoMsg]
    BY <1>6 DEF FailQueued, WriterGoes
  <2>5. \A j \in Id : entry[j] \notin {"Writing", "CancelledWriting"}
    BY <2>1 DEF FInv, FrameIsOwned
  <2>. QED  BY <1>1, <2>1, <2>2, <2>3, <2>4, <2>5 DEF FInv, WriterOK, FrameIsOwned, Calm
<1>7. CASE ExitWriter
  <2>1. /\ writer.pc = "exiting" /\ writer' = [writer EXCEPT !.pc = "gone", !.msg = NoMsg]
        /\ rx' = FALSE /\ queue' = <<>> /\ entry' = entry
    BY <1>7 DEF ExitWriter, WriterGoes, routerVars
  <2>2. handle = "dropped"
    BY <2>1 DEF FInv, WriterOK
  <2>3. \A j \in Id : entry[j] \notin {"Writing", "CancelledWriting"}
    BY <2>1 DEF FInv, FrameIsOwned
  <2>4. WriterOK'
    <3>1. writer' = [pc |-> "gone", msg |-> NoMsg, drain |-> writer.drain]
      BY <2>1 DEF FInv, WriterOK
    <3>2. writer'.pc = "gone" /\ writer'.msg = NoMsg /\ writer'.drain = writer.drain
      BY <3>1
    <3>3. queue' \in Seq(Frame)
      BY <2>1
    <3>4. NoMsg \in Frame \cup {NoMsg}
      OBVIOUS
    <3>. QED  BY <1>1, <2>1, <2>2, <3>1, <3>2, <3>3, <3>4 DEF FInv, WriterOK
  <2>. QED  BY <1>1, <2>1, <2>2, <2>3, <2>4 DEF FInv, FrameIsOwned
<1>. QED  BY <1>2, <1>3, <1>4, <1>5, <1>6, <1>7 DEF WriterStep

(* The invariant holds in every behaviour.                                 *)
LEMMA FramesHold == Safety => []FInv
<1>1. Init => FInv
  BY DEF Init, FInv, WriterOK, FrameIsOwned
<1>2. IInv /\ FInv /\ [Next]_vars => FInv'
  BY RequesterFrames, OthersFrames, WriterFrames DEF Next
<1>. QED  BY <1>1, <1>2, InvariantHolds, PTL DEF Safety

(* A request that waits to be written is in the queue of a writer that     *)
(* will look at it, and one that is being written is the writer's frame.   *)
THEOREM FrameIsOwnedHolds == Safety => []FrameIsOwned
<1>1. FInv => FrameIsOwned
  BY DEF FInv
<1>. QED  BY <1>1, FramesHold, PTL
-----------------------------------------------------------------------------
(* Cancels.  Only routing requests are cancelled without asking the router *)
(* how far they got; an entry waits to be written at most once, before its *)
(* write is begun.                                                         *)
Bytes == {"Writing", "CancelledWriting", "Sent", "CancelledSent"}

Told == begun \cup Routing

CancelOK(i) ==
  /\ entry[i] \in Bytes => i \in begun
  /\ entry[i] = "Queued" \/ waiter[i] = "new" => i \notin begun \cup skipped
  /\ i \in skipped => i \notin begun
  /\ waiter[i] = "cancelling" => i \in Told

CInv ==
  /\ forward \cup cancelsOut \subseteq Told /\ skipped \subseteq Id
  /\ \A f \in Frames : f.kind = "cancel" => f.id \in Told
  /\ writer.msg.kind = "cancel" => writer.msg.id \in Told
  /\ \A i \in Id : CancelOK(i)

(* A step that begins no write, tells the server nothing and cancels only  *)
(* what may be.                                                            *)
LEMMA QuietCancels ==
  ASSUME CInv, WaitersMove, UNCHANGED history, forward' \subseteq forward,
         \A j \in Id : \/ entry'[j] = entry[j] \/ entry'[j] = "absent"
                       \/ entry[j] \in Bytes /\ entry'[j] \in Bytes,
         \A j \in Id : waiter'[j] = "cancelling" => waiter[j] = "cancelling" \/ j \in Told,
         \A f \in Frames' : f.kind = "cancel" => f \in Frames \/ f.id \in Told,
         writer'.msg = writer.msg \/ writer'.msg = NoMsg
  PROVE  CInv'
<1>1. begun' = begun /\ skipped' = skipped /\ cancelsOut' = cancelsOut /\ Told' = Told
  BY DEF history, Told
<1>2. \A f \in Frames' : f.kind = "cancel" => f.id \in Told'
  BY <1>1 DEF CInv
<1>3. writer'.msg.kind = "cancel" => writer'.msg.id \in Told'
  BY <1>1 DEF CInv, NoMsg
<1>4. ASSUME NEW j \in Id PROVE CancelOK(j)'
  BY <1>1 DEF CInv, CancelOK, WaitersMove, Bytes
<1>. QED  BY <1>1, <1>2, <1>3, <1>4 DEF CInv

(* The requesters' steps.                                                  *)
LEMMA RequesterCancels ==
  ASSUME IInv, FInv, CInv, NEW i \in Id,
         RequesterStep(i) \/ PeerIsCancelled(i) \/ IsDropped(i) \/ Deliver(i)
         \/ ForwardCancel(i) \/ Answer(i)
  PROVE  CInv'
<1>1. WaitersMove /\ queue \in Seq(Frame)
  BY RequesterSteps DEF IInv, FInv, WriterOK
<1>2. UNCHANGED history /\ forward' \subseteq forward /\ writer' = writer
  BY DEF RequesterStep, Notify, Send, Receive, TimesOut, Sweep, Retire, Abandon, QueueCancel, Settle,
         AbortWriter, PeerIsCancelled, IsDropped, LeaveFor, Deliver, ForwardCancel, Answer,
         ReaderUnchanged, writerVars, history
<1>3. \A j \in Id : \/ entry'[j] = entry[j] \/ entry'[j] = "absent"
                    \/ entry[j] \in Bytes /\ entry'[j] \in Bytes
  <2>1. CASE Notify(i) \/ Receive(i) \/ TimesOut(i) \/ QueueCancel(i) \/ AbortWriter(i) \/ Deliver(i)
             \/ PeerIsCancelled(i) \/ IsDropped(i) \/ ForwardCancel(i)
    BY <2>1 DEF Notify, Receive, TimesOut, QueueCancel, AbortWriter, PeerIsCancelled, IsDropped,
                LeaveFor, Deliver, ForwardCancel, routerVars
  <2>2. CASE Send(i) \/ Sweep(i) \/ Settle(i) \/ Answer(i)
    BY <2>2 DEF IInv, RouterType, Send, Sweep, Settle, Remove, Removed, FailAll, Answer, routerVars
  <2>3. CASE Retire(i)
    BY <2>3 DEF IInv, RouterType, Retire, Remove, Removed, routerVars, Bytes
  <2>4. CASE Abandon(i)
    BY <2>4 DEF IInv, RouterType, Abandon, Remove, Removed, routerVars, Bytes
  <2>. QED  BY <2>1, <2>2, <2>3, <2>4 DEF RequesterStep
<1>4. \A j \in Id : waiter'[j] = "cancelling" => waiter[j] = "cancelling" \/ j \in Told
  <2>1. CASE Abandon(i)
    BY <2>1 DEF IInv, RouterType, Abandon, Goto, CInv, CancelOK, Bytes, Told
  <2>2. CASE TimesOut(i)
    BY <2>2 DEF IInv, RouterType, TimesOut, LeaveFor, Goto, Id, Told
  <2>3. CASE Notify(i) \/ Send(i) \/ Receive(i) \/ Sweep(i) \/ Retire(i)
             \/ QueueCancel(i) \/ Settle(i) \/ AbortWriter(i) \/ PeerIsCancelled(i) \/ IsDropped(i)
    BY <2>3 DEF IInv, RouterType, Notify, Send, Receive, Sweep, Retire, QueueCancel,
                Settle, AbortWriter, PeerIsCancelled, IsDropped, LeaveFor, Goto
  <2>4. CASE Deliver(i) \/ ForwardCancel(i) \/ Answer(i)
    BY <2>4 DEF Deliver, ForwardCancel, Answer, ReaderUnchanged, waiterVars
  <2>. QED  BY <2>1, <2>2, <2>3, <2>4 DEF RequesterStep
<1>5. \A f \in Frames' : f.kind = "cancel" => f \in Frames \/ f.id \in Told
  <2>1. CASE queue' = queue
    BY <2>1 DEF Frames
  <2>2. CASE QueueCancel(i) \/ ForwardCancel(i)
    <3>1. i \in Told
      BY <2>2 DEF QueueCancel, ForwardCancel, CInv, CancelOK
    <3>2. Frames' = Frames \/ Frames' = Frames \cup {CancelOf(i)}
      BY <2>2, CancelQueued DEF QueueCancel, ForwardCancel
    <3>. QED  BY <3>1, <3>2 DEF CancelOf
  <2>3. CASE Send(i) /\ queue' = Append(queue, Request(i))
    <3>1. Request(i) \in Frame
      BY DEF Request, Frame
    <3>2. Frames' = Frames \cup {Request(i)}
      BY <1>1, <2>3, <3>1, FramesOfAppend
    <3>. QED  BY <3>2 DEF Request
  <2>. QED  BY <2>1, <2>2, <2>3
       DEF RequesterStep, Notify, Send, Receive, TimesOut, Sweep, Retire, Abandon, Settle,
           AbortWriter, PeerIsCancelled, IsDropped, LeaveFor, Deliver, Answer,
           ReaderUnchanged, writerVars
<1>. QED  BY <1>1, <1>2, <1>3, <1>4, <1>5, QuietCancels

(* A registration is a new id's; a cancellation skips what is queued and   *)
(* tells of what is not; the reader and a shutdown send nothing.           *)
LEMMA OthersCancel ==
  ASSUME IInv, CInv,
         \/ \E i \in Id, u \in Upstream \cup {NoUpstream} : Register(i, u)
         \/ \E u \in Upstream : Prepare(u)
         \/ ReaderStep \/ Chatter \/ TimerElapses \/ Eof
         \/ BeginShutdown \/ ShutdownStep \/ UNCHANGED vars
  PROVE  CInv'
<1>1. writer' = writer /\ Frames' = Frames
  BY DEF Register, InsertEntry, Prepare, ReaderStep, AfterMessage, StopTimer, StartTimer, Expire,
         Publish, Chatter, TimerElapses, Eof, ReaderUnchanged, BeginShutdown, ShutdownStep,
         StopWriter, ReclaimWriter, ShutdownAborts, FinishShutdown, writerVars, vars, Frames
<1>2. CASE \E i \in Id, u \in Upstream \cup {NoUpstream} : Register(i, u)
  <2>1. UNCHANGED history /\ forward' = forward
    BY <1>2 DEF Register, InsertEntry
  <2>2. ASSUME NEW j \in Id PROVE CancelOK(j)'
    BY <1>2, <2>1 DEF Register, InsertEntry, Goto, IInv, RouterType, CInv, CancelOK, Bytes, history,
                      Told
  <2>. QED  BY <1>1, <2>1, <2>2 DEF CInv, history, Told
<1>3. CASE \E u \in Upstream : Prepare(u)
  <2>. PICK u \in Upstream : Prepare(u)
    BY <1>3
  <2>1. /\ waiter' = waiter /\ begun' = begun /\ cancelsOut' = cancelsOut /\ Told' = Told
        /\ up[u] \subseteq Id
        /\ forward' = { j \in up[u] : entry[j] \in {"Writing", "Sent"} }
        /\ skipped' = skipped \cup { j \in up[u] : entry[j] = "Queued" }
    BY DEF Prepare, waiterVars, Told, IInv, RouterType
  <2>2. \A j \in Id : entry'[j] = IF j \in up[u] /\ entry[j] = "Queued" THEN "CancelledQueued"
                                  ELSE entry[j]
    BY DEF Prepare
  <2>3. forward' \subseteq Told
    BY <2>1 DEF CInv, CancelOK, Bytes, Told
  <2>4. ASSUME NEW j \in Id PROVE CancelOK(j)'
    BY <2>1, <2>2 DEF CInv, CancelOK, Bytes, IInv, NewIsAbsent
  <2>. QED  BY <1>1, <2>1, <2>3, <2>4 DEF CInv
<1>4. CASE ReaderStep \/ Chatter \/ TimerElapses \/ Eof
  <2>1. /\ waiter' = waiter /\ UNCHANGED history /\ forward' = forward
        /\ UNCHANGED routerVars \/ FailAll({})
    BY <1>4 DEF ReaderStep, AfterMessage, StopTimer, StartTimer, Expire, Publish, Chatter,
                TimerElapses, Eof, ReaderUnchanged
  <2>2. \A j \in Id : entry'[j] = entry[j] \/ entry'[j] = "absent"
    BY <2>1 DEF routerVars, FailAll
  <2>. QED  BY <1>1, <2>1, <2>2, QuietCancels, SameWaiters DEF IInv, RouterType
<1>5. CASE BeginShutdown \/ ShutdownStep \/ UNCHANGED vars
  <2>1. waiter' = waiter /\ UNCHANGED history /\ forward' = forward /\ entry' = entry
    BY <1>5 DEF BeginShutdown, ShutdownStep, StopWriter, ReclaimWriter, ShutdownAborts,
                FinishShutdown, ShutUnchanged, waiterVars, routerVars, vars
  <2>. QED  BY <1>1, <2>1, QuietCancels, SameWaiters DEF IInv, RouterType
<1>. QED  BY <1>2, <1>3, <1>4, <1>5

(* The writer begins the write of a queued entry only, and what it tells   *)
(* the server it took from the queue.                                      *)
LEMMA WriterCancels ==
  ASSUME IInv, FInv, CInv, WriterStep \/ FinishWrite \/ WriteFails
  PROVE  CInv'
<1>1. waiter' = waiter /\ forward' = forward /\ WaitersMove /\ queue \in Seq(Frame)
  BY SameWaiters
  DEF WriterStep, TakeStop, ReturnWriter, TakeCancel, Take, MarkSent, WriteCancelled,
      FailQueued, ExitWriter, FinishWrite, WriteFails, WriteEnds, WriterUnchanged, waiterVars,
      IInv, RouterType, FInv, WriterOK
<1>2. Frames' \subseteq Frames
  <2>1. CASE queue' = queue
    BY <2>1 DEF Frames
  <2>2. CASE queue # <<>> /\ queue' = Tail(queue)
    BY <1>1, <2>2, FramesOfTail
  <2>3. CASE queue' = <<>>
    BY <2>3 DEF Frames
  <2>. QED  BY <2>1, <2>2, <2>3
       DEF WriterStep, TakeStop, ReturnWriter, TakeCancel, Take, MarkSent, WriteCancelled,
           FailQueued, ExitWriter, FinishWrite, WriteFails, WriteEnds
<1>3. CASE Take
  <2>. DEFINE m == Head(queue)
  <2>1. /\ queue # <<>> /\ queue' = Tail(queue) /\ cancelsOut' = cancelsOut /\ skipped' = skipped
    BY <1>3 DEF Take
  <2>2. m \in Frame /\ m \in Frames
    BY <1>1, <2>1, FramesOfTail
  <2>3. CASE writer' = writer /\ begun' = begun /\ (entry' = entry \/ Removed(m.id))
    <3>1. \A j \in Id : entry'[j] = entry[j] \/ entry'[j] = "absent"
      BY <2>3 DEF IInv, RouterType, Removed
    <3>. QED  BY <1>1, <1>2, <2>1, <2>3, <3>1, QuietCancels DEF history
  <2>4. CASE m.kind = "cancel" /\ writer' = [writer EXCEPT !.pc = "writing", !.msg = m]
             /\ entry' = entry /\ begun' = begun
    <3>1. writer'.msg = m /\ m.id \in Told /\ Told' = Told
      BY <2>2, <2>4 DEF CInv, FInv, WriterOK, Told
    <3>2. ASSUME NEW j \in Id PROVE CancelOK(j)'
      BY <1>1, <2>1, <2>4 DEF CInv, CancelOK, Told
    <3>. QED  BY <1>1, <1>2, <2>1, <3>1, <3>2 DEF CInv
  <2>5. CASE m.kind = "request" /\ entry[m.id] = "Queued"
             /\ writer' = [writer EXCEPT !.pc = "writing", !.msg = m]
             /\ entry' = [entry EXCEPT ![m.id] = "Writing"] /\ begun' = begun \cup {m.id}
    <3>1. writer'.msg = m /\ m.id \in Id /\ Told \subseteq Told'
      BY <2>2, <2>5 DEF FInv, WriterOK, Told, Frame
    <3>2. waiter[m.id] # "new"
      BY <2>5, <3>1 DEF IInv, NewIsAbsent
    <3>3. ASSUME NEW j \in Id PROVE CancelOK(j)'
      BY <1>1, <2>1, <2>5, <3>1, <3>2 DEF CInv, CancelOK, Told, Bytes, IInv, RouterType
    <3>. QED  BY <1>1, <1>2, <2>1, <2>5, <3>1, <3>3 DEF CInv
  <2>. QED  BY <1>3, <2>3, <2>4, <2>5 DEF Take, routerVars
<1>4. CASE FinishWrite
  <2>1. /\ begun' = begun /\ skipped' = skipped /\ entry' = entry /\ writer'.msg = writer.msg
        /\ Told' = Told
    BY <1>4 DEF FinishWrite, FInv, WriterOK, routerVars, Told
  <2>2. cancelsOut' \subseteq Told
    BY <1>4 DEF FinishWrite, CInv
  <2>3. ASSUME NEW j \in Id PROVE CancelOK(j)'
    BY <1>1, <2>1 DEF CInv, CancelOK
  <2>. QED  BY <1>1, <1>2, <2>1, <2>2, <2>3 DEF CInv
<1>5. CASE TakeStop \/ ReturnWriter \/ TakeCancel \/ ExitWriter \/ MarkSent \/ WriteCancelled
           \/ WriteFails \/ FailQueued
  <2>1. UNCHANGED history
    BY <1>5 DEF TakeStop, ReturnWriter, TakeCancel, ExitWriter, MarkSent, WriteCancelled, WriteFails,
                WriteEnds, FailQueued
  <2>2. writer'.msg = writer.msg \/ writer'.msg = NoMsg
    <3>1. writer' = writer \/ (\E d : writer' = [writer EXCEPT !.drain = d])
          \/ \E pc : writer' = [writer EXCEPT !.pc = pc, !.msg = NoMsg]
      BY <1>5 DEF TakeStop, ReturnWriter, TakeCancel, ExitWriter, MarkSent, WriteCancelled,
                  WriteFails, WriteEnds, FailQueued, WriterGoes
    <3>. QED  BY <3>1 DEF FInv, WriterOK
  <2>3. \A j \in Id : \/ entry'[j] = entry[j] \/ entry'[j] = "absent"
                      \/ entry[j] \in Bytes /\ entry'[j] \in Bytes
    <3>1. CASE MarkSent
      BY <3>1 DEF MarkSent, IInv, RouterType, Remove, Removed, routerVars, Bytes
    <3>2. CASE UNCHANGED routerVars \/ \E i : FailRequest(i)
      BY <3>2 DEF IInv, RouterType, FailRequest, Removed, routerVars
    <3>. QED  BY <1>5, <3>1, <3>2 DEF TakeStop, ReturnWriter, TakeCancel, ExitWriter, WriteCancelled,
             WriteFails, WriteEnds, FailQueued
  <2>. QED  BY <1>1, <1>2, <2>1, <2>2, <2>3, QuietCancels
<1>. QED  BY <1>3, <1>4, <1>5 DEF WriterStep

(* The invariant holds in every behaviour.                                 *)
LEMMA CancelsHold == Safety => []CInv
<1>1. Init => CInv
  BY DEF Init, CInv, CancelOK, Bytes, Frames, NoMsg, Told
<1>2. IInv /\ FInv /\ CInv /\ [Next]_vars => CInv'
  BY RequesterCancels, OthersCancel, WriterCancels DEF Next
<1>. QED  BY <1>1, <1>2, InvariantHolds, FramesHold, PTL DEF Safety

(* The server is told to cancel only requests whose bytes were begun, and  *)
(* never gets a request that was cancelled while it was queued.            *)
THEOREM CancelsAreExactHolds == Safety => []CancelsAreExact
<1>1. CInv => CancelsAreExact
  <2> SUFFICES ASSUME CInv PROVE CancelsAreExact
    OBVIOUS
  <2>1. cancelsOut \cap (User \cup Peer) \subseteq begun
    BY RequestsAssumption DEF CInv, Told
  <2>2. skipped \cap begun = {}
    BY DEF CInv, CancelOK
  <2>. QED  BY <2>1, <2>2 DEF CancelsAreExact
<1>. QED  BY <1>1, CancelsHold, PTL
-----------------------------------------------------------------------------
(***************************************************************************)
(* Types.  What is left is the state of the connection's tasks, and the    *)
(* liveness epoch: it moves only with a registration, so it never passes   *)
(* the number of requests that were registered.                            *)
(***************************************************************************)

Registered == { i \in Id : waiter[i] # "new" }

TasksOK ==
  /\ rx \in BOOLEAN /\ startQ \in BOOLEAN /\ stopQ \in BOOLEAN
  /\ handle \in {"held", "stopped", "dropped"}
  /\ conn \in {"Ready", "Failed", "Closing", "Closed"}
  /\ failSignal \in {"none", "signalled", "taken"}
  /\ shut \in {"none", "begun", "reclaiming", "finishing", "done"}
  /\ begun \subseteq Id

TimerOK ==
  /\ reader = [pc |-> reader.pc, timer |-> reader.timer, enabled |-> reader.enabled]
  /\ reader.pc \in {"select", "handled", "expired", "publish", "gone"}
  /\ epoch \in Nat /\ reader.timer \in 0..epoch
  /\ reader.enabled \in BOOLEAN

EpochOK == epoch <= Cardinality(Registered)

TInv == TasksOK /\ TimerOK /\ Len(queue) <= QueueCapacity

-----------------------------------------------------------------------------
(* No requester becomes new again, whatever the step.                      *)
LEMMA NextWaiters ==
  ASSUME IInv, [Next]_vars
  PROVE  Registered \subseteq Registered'
<1>t. RouterType
  BY DEF IInv
<1>1. ASSUME NEW i \in Id, NEW u, Register(i, u)
      PROVE  \A j \in Id : waiter'[j] = "new" => waiter[j] = "new"
  BY <1>1, <1>t DEF Register, InsertEntry, Goto, RouterType
<1>2. CASE UNCHANGED vars
  BY <1>2 DEF vars, waiterVars, Registered
<1>3. ASSUME NEW u \in Upstream, Prepare(u) PROVE waiter' = waiter
  BY <1>3 DEF Prepare, waiterVars
<1>4. \A j \in Id : waiter'[j] = "new" => waiter[j] = "new"
  BY <1>t, <1>1, <1>2, <1>3, RequesterSteps, WriterSteps, ReaderSteps, ShutdownSteps DEF Next, WaitersMove, vars, waiterVars
<1>. QED  BY <1>4 DEF Registered

(* Only a registration moves the epoch.                                    *)
LEMMA EpochMoves ==
  ASSUME [Next]_vars, epoch' # epoch
  PROVE  \E i \in Id, u \in Upstream \cup {NoUpstream} : Register(i, u)
<1>1. ASSUME NEW i \in Id,
             RequesterStep(i) \/ PeerIsCancelled(i) \/ IsDropped(i) \/ Deliver(i)
             \/ ForwardCancel(i) \/ Answer(i)
      PROVE  FALSE
  <2>1. CASE Retire(i)
    BY <2>1 DEF Retire, Remove, routerVars
  <2>2. CASE Abandon(i)
    BY <2>2 DEF Abandon, Remove, routerVars
  <2>3. CASE Settle(i)
    BY <2>3 DEF Settle, Remove, FailAll, routerVars
  <2>. QED  BY <1>1, <2>1, <2>2, <2>3 DEF RequesterStep, Notify, Send, Receive, TimesOut, Sweep, QueueCancel,
              AbortWriter, PeerIsCancelled, IsDropped, LeaveFor, Deliver, ForwardCancel, Answer, Remove, routerVars
<1>2. ASSUME NEW u \in Upstream, Prepare(u) PROVE FALSE
  BY <1>2 DEF Prepare
<1>3. ~(WriterStep \/ FinishWrite \/ WriteFails)
  BY DEF WriterStep, FinishWrite, WriteFails, TakeStop, ReturnWriter, TakeCancel, Take, MarkSent, WriteCancelled,
         WriteEnds, FailQueued, ExitWriter, FailRequest, Remove, routerVars
<1>4. ~(ReaderStep \/ Chatter \/ TimerElapses \/ Eof)
  BY DEF ReaderStep, AfterMessage, StopTimer, StartTimer, Expire, Publish, Chatter, TimerElapses, Eof, FailAll, routerVars
<1>5. ~(BeginShutdown \/ ShutdownStep) /\ ~UNCHANGED vars
  BY DEF BeginShutdown, ShutdownStep, StopWriter, ReclaimWriter, ShutdownAborts, FinishShutdown,
         ShutUnchanged, routerVars, vars
<1>. QED  BY <1>1, <1>2, <1>3, <1>4, <1>5 DEF Next

(* Epochs only grow.                                                       *)
LEMMA EpochGrows ==
  ASSUME TInv, [Next]_vars
  PROVE  epoch' \in Nat /\ epoch <= epoch'
<1>1. epoch \in Nat
  BY DEF TInv, TimerOK
<1>2. ASSUME NEW i \in Id, NEW u, Register(i, u)
      PROVE  epoch' \in {epoch, epoch + 1}
  BY <1>2 DEF Register, InsertEntry
<1>. QED  BY <1>1, <1>2, EpochMoves

(* A registration adds a request, and at most one to the epoch.            *)
LEMMA EpochCounts ==
  ASSUME IInv, TInv, EpochOK, IsFiniteSet(Id), [Next]_vars
  PROVE  EpochOK'
<1>1. epoch \in Nat /\ epoch <= Cardinality(Registered)
  BY DEF TInv, TimerOK, EpochOK
<1>2. /\ IsFiniteSet(Registered) /\ IsFiniteSet(Registered')
      /\ Cardinality(Registered) \in Nat /\ Cardinality(Registered') \in Nat
  <2>1. Registered \in SUBSET Id /\ Registered' \in SUBSET Id
    BY DEF Registered
  <2>. QED  BY <2>1, FS_Subset, FS_CardinalityType
<1>3. CASE epoch' = epoch
  <2>1. Cardinality(Registered) <= Cardinality(Registered')
    BY <1>2, NextWaiters, FS_Subset
  <2>. QED  BY <1>1, <1>2, <1>3, <2>1 DEF EpochOK
<1>4. ASSUME NEW i \in Id, NEW u, Register(i, u)
      PROVE  EpochOK'
  <2>1. /\ waiter[i] = "new" /\ waiter'[i] # "new" /\ \A j \in Id : j # i => waiter'[j] = waiter[j]
        /\ epoch' \in {epoch, epoch + 1}
    BY <1>4 DEF Register, InsertEntry, Goto, IInv, RouterType
  <2>2. i \notin Registered /\ Registered' = Registered \cup {i}
    BY <2>1 DEF Registered
  <2>3. Cardinality(Registered') = Cardinality(Registered) + 1
    BY <1>2, <2>2, FS_AddElement
  <2>. QED  BY <1>1, <1>2, <2>1, <2>3 DEF EpochOK
<1>. QED  BY <1>3, <1>4, EpochMoves

-----------------------------------------------------------------------------
(* The reader and its timer: a timer runs for an epoch that began.         *)
LEMMA ReaderStays ==
  ASSUME [Next]_vars, ~ReaderStep, ~Chatter, ~TimerElapses, ~Eof, \A i \in Id : ~Answer(i)
  PROVE  reader' = reader
<1>1. ASSUME NEW i \in Id,
             RequesterStep(i) \/ PeerIsCancelled(i) \/ IsDropped(i) \/ Deliver(i) \/ ForwardCancel(i)
      PROVE  reader' = reader
  BY <1>1 DEF RequesterStep, Notify, Send, Receive, TimesOut, Sweep, Retire, Abandon, QueueCancel, Settle,
              AbortWriter, PeerIsCancelled, IsDropped, LeaveFor, Deliver, ForwardCancel, readerVars
<1>2. ASSUME NEW i \in Id, NEW u, Register(i, u) PROVE reader' = reader
  BY <1>2 DEF Register, InsertEntry, readerVars
<1>3. ASSUME NEW u \in Upstream, Prepare(u) PROVE reader' = reader
  BY <1>3 DEF Prepare, readerVars
<1>4. CASE WriterStep \/ FinishWrite \/ WriteFails
  BY <1>4 DEF WriterStep, FinishWrite, WriteFails, TakeStop, ReturnWriter, TakeCancel, Take, MarkSent, WriteCancelled,
              WriteEnds, FailQueued, ExitWriter, WriterUnchanged, readerVars
<1>5. CASE BeginShutdown \/ ShutdownStep \/ UNCHANGED vars
  BY <1>5 DEF BeginShutdown, ShutdownStep, StopWriter, ReclaimWriter, ShutdownAborts, FinishShutdown,
              ShutUnchanged, readerVars, vars
<1>. QED  BY <1>1, <1>2, <1>3, <1>4, <1>5 DEF Next

LEMMA TimerStep ==
  ASSUME TInv, [Next]_vars
  PROVE  TimerOK'
<1>1. /\ reader = [pc |-> reader.pc, timer |-> reader.timer, enabled |-> reader.enabled]
      /\ reader.pc \in {"select", "handled", "expired", "publish", "gone"}
      /\ epoch \in Nat /\ reader.timer \in 0..epoch
  BY DEF TInv, TimerOK
<1>2. reader.enabled \in BOOLEAN
  BY Zenon DEF TInv, TimerOK
<1>3. epoch' \in Nat /\ epoch <= epoch'
  BY EpochGrows
<1>4. ASSUME NEW pc \in {"select", "handled", "expired", "publish", "gone"}, NEW t \in 0..epoch, NEW on \in BOOLEAN,
             NEW r, reader' = r, r = [pc |-> pc, timer |-> t, enabled |-> on]
      PROVE  TimerOK'
  <2>1. r.pc = pc /\ r.timer = t /\ r.enabled = on
    BY <1>4
  <2>2. r = [pc |-> r.pc, timer |-> r.timer, enabled |-> r.enabled]
    BY <1>4, <2>1, Zenon
  <2>3. r.timer \in 0..epoch'
    BY <1>1, <1>3, <2>1
  <2>4. r.enabled \in BOOLEAN
    BY <2>1, Zenon
  <2>. QED  BY <1>3, <1>4, <2>1, <2>2, <2>3, <2>4, Zenon DEF TimerOK
<1>5. CASE reader' = reader
  BY <1>1, <1>2, <1>4, <1>5, Zenon
<1>6. ASSUME NEW pc \in {"select", "handled", "expired", "publish", "gone"}, NEW t \in 0..epoch,
             reader' = [reader EXCEPT !.pc = pc, !.timer = t]
      PROVE  TimerOK'
  <2>1. PICK a, b, on : a = reader.pc /\ b = reader.timer /\ on = reader.enabled
    BY Zenon
  <2>2. reader = [pc |-> a, timer |-> b, enabled |-> on]
    BY <1>1, <2>1, Zenon
  <2>3. reader' = [pc |-> pc, timer |-> t, enabled |-> on]
    BY <1>6, <2>2
  <2>4. PICK r : reader' = r /\ r = [pc |-> pc, timer |-> t, enabled |-> on]
    BY <2>3, Zenon
  <2>5. on \in BOOLEAN
    BY <1>2, <2>1, Zenon
  <2>. QED  BY <1>4, <2>4, <2>5, Zenon
<1>7. ASSUME NEW pc \in {"select", "handled", "expired", "publish", "gone"}, ReaderGoes(pc)
      PROVE  TimerOK'
  <2>1. PICK t \in 0..epoch : t = reader.timer
    BY <1>1
  <2>2. reader' = [reader EXCEPT !.pc = pc, !.timer = t]
    BY <1>1, <1>7, <2>1 DEF ReaderGoes
  <2>. QED  BY <1>6, <2>2
<1>8. CASE StopTimer
  <2>1. PICK off : off = FALSE
    BY Zenon
  <2>2. reader' = [reader EXCEPT !.timer = 0, !.enabled = off] /\ reader.pc = "select"
    BY <1>8, <2>1, Zenon DEF StopTimer
  <2>3. PICK b, on : b = reader.timer /\ on = reader.enabled
    BY Zenon
  <2>4. reader = [pc |-> "select", timer |-> b, enabled |-> on]
    BY <1>1, <2>2, <2>3, Zenon
  <2>5. reader' = [pc |-> "select", timer |-> 0, enabled |-> off]
    BY <2>2, <2>4
  <2>6. PICK r : reader' = r /\ r = [pc |-> "select", timer |-> 0, enabled |-> off]
    BY <2>5, Zenon
  <2>7. off \in BOOLEAN
    BY <2>1, Zenon
  <2>8. 0 \in 0..epoch
    BY <1>1
  <2>. QED  BY <1>4, <2>6, <2>7, <2>8, Zenon
<1>9. CASE StartTimer
  <2>1. PICK t : t = IF reader.enabled THEN epoch ELSE reader.timer
    OBVIOUS
  <2>2. t \in 0..epoch
    BY <1>1, <2>1
  <2>3. reader' = [reader EXCEPT !.pc = "select", !.timer = t]
    BY <1>1, <1>9, <2>1 DEF StartTimer
  <2>. QED  BY <1>6, <2>2, <2>3
<1>10. CASE AfterMessage
  <2>1. PICK t : t = IF Awaiting = {} THEN 0 ELSE reader.timer
    OBVIOUS
  <2>2. t \in 0..epoch
    BY <1>1, <2>1
  <2>3. reader' = [reader EXCEPT !.pc = "select", !.timer = t]
    BY <1>10, <2>1 DEF AfterMessage
  <2>. QED  BY <1>6, <2>2, <2>3
<1>11. CASE Expire
  <2>1. 0 \in 0..epoch /\ epoch \in 0..epoch
    BY <1>1
  <2>2. \/ ReaderGoes("publish")
        \/ reader' = [reader EXCEPT !.pc = "select", !.timer = epoch]
        \/ reader' = [reader EXCEPT !.pc = "select", !.timer = 0]
    BY <1>11, Zenon DEF Expire
  <2>. QED  BY <1>6, <1>7, <2>1, <2>2
<1>12. ASSUME Publish \/ Chatter \/ TimerElapses \/ Eof \/ \E i \in Id : Answer(i)
       PROVE  TimerOK'
  <2>1. \E pc \in {"select", "handled", "expired", "publish", "gone"} : ReaderGoes(pc)
    BY <1>12 DEF Publish, Chatter, TimerElapses, Eof, Answer
  <2>. QED  BY <1>7, <2>1
<1>. QED  BY <1>5, <1>8, <1>9, <1>10, <1>11, <1>12, ReaderStays DEF ReaderStep

-----------------------------------------------------------------------------
(* The tasks.  Frames are queued while there is room.                      *)
LEMMA QueueStep ==
  ASSUME IInv, FInv, TInv, [Next]_vars
  PROVE  Len(queue') <= QueueCapacity
<1>1. queue \in Seq(Frame) /\ Len(queue) <= QueueCapacity /\ QueueCapacity \in Nat
  BY RequestsAssumption DEF FInv, WriterOK, TInv
<1>2. \A m \in Frame : CanSend /\ queue' = Append(queue, m) => Len(queue') <= QueueCapacity
  BY <1>1 DEF CanSend
<1>3. queue' = <<>> => Len(queue') <= QueueCapacity
  BY <1>1
<1>4. queue # <<>> /\ queue' = Tail(queue) => Len(queue') <= QueueCapacity
  BY <1>1
<1>5. \A i \in Id : Request(i) \in Frame /\ CancelOf(i) \in Frame
  BY DEF Request, CancelOf, Frame
<1>6. ASSUME NEW i \in Id,
             RequesterStep(i) \/ PeerIsCancelled(i) \/ IsDropped(i) \/ Deliver(i) \/ ForwardCancel(i) \/ Answer(i)
      PROVE  queue' = queue \/ (CanSend /\ \E m \in Frame : queue' = Append(queue, m))
  BY <1>5, <1>6 DEF RequesterStep, Notify, Send, Receive, TimesOut, Sweep, Retire, Abandon, QueueCancel, Settle,
              AbortWriter, PeerIsCancelled, IsDropped, LeaveFor, Deliver, ForwardCancel, Answer, ReaderUnchanged, writerVars
<1>7. ASSUME NEW i \in Id, NEW u, Register(i, u) PROVE queue' = queue
  BY <1>7 DEF Register, InsertEntry, writerVars
<1>8. ASSUME NEW u \in Upstream, Prepare(u) PROVE queue' = queue
  BY <1>8 DEF Prepare, writerVars
<1>9. CASE WriterStep \/ FinishWrite \/ WriteFails
  <2>1. queue' = queue \/ queue' = <<>> \/ (queue # <<>> /\ queue' = Tail(queue))
    BY <1>9 DEF WriterStep, FinishWrite, WriteFails, TakeStop, ReturnWriter, TakeCancel, Take, MarkSent, WriteCancelled,
              WriteEnds, FailQueued, ExitWriter
  <2>. QED  BY <1>1, <1>3, <1>4, <2>1
<1>10. CASE ReaderStep \/ Chatter \/ TimerElapses \/ Eof
  BY <1>1, <1>10 DEF ReaderStep, AfterMessage, StopTimer, StartTimer, Expire, Publish, Chatter, TimerElapses, Eof,
              ReaderUnchanged, writerVars
<1>11. CASE BeginShutdown \/ ShutdownStep \/ UNCHANGED vars
  BY <1>1, <1>11 DEF BeginShutdown, ShutdownStep, StopWriter, ReclaimWriter, ShutdownAborts, FinishShutdown,
              ShutUnchanged, writerVars, vars
<1>. QED  BY <1>1, <1>2, <1>6, <1>7, <1>8, <1>9, <1>10, <1>11 DEF Next

LEMMA TasksStep ==
  ASSUME IInv, FInv, TInv, [Next]_vars
  PROVE  TasksOK'
<1>1. /\ handle \in {"held", "stopped", "dropped"} /\ conn \in {"Ready", "Failed", "Closing", "Closed"}
      /\ failSignal \in {"none", "signalled", "taken"}
      /\ shut \in {"none", "begun", "reclaiming", "finishing", "done"} /\ begun \subseteq Id
  BY DEF TInv, TasksOK
<1>2. rx \in BOOLEAN /\ startQ \in BOOLEAN /\ stopQ \in BOOLEAN
  BY Zenon DEF TInv, TasksOK
<1>3. \A f \in Frames : f.id \in Id
  <2>1. queue \in Seq(Frame)
    BY DEF FInv, WriterOK
  <2>2. \A k \in 1..Len(queue) : queue[k] \in Frame
    BY <2>1
  <2>. QED  BY <2>2 DEF Frames, Frame
<1>4. ASSUME NEW i \in Id,
             RequesterStep(i) \/ PeerIsCancelled(i) \/ IsDropped(i) \/ Deliver(i) \/ ForwardCancel(i) \/ Answer(i)
      PROVE  TasksOK'
  <2>1. UNCHANGED <<rx, stopQ, shut, begun>>
    BY <1>4 DEF RequesterStep, Notify, Send, Receive, TimesOut, Sweep, Retire, Abandon, QueueCancel, Settle,
              AbortWriter, PeerIsCancelled, IsDropped, LeaveFor, Deliver, ForwardCancel, Answer, ReaderUnchanged,
              writerVars, readerVars, history
  <2>2. startQ' = startQ \/ startQ' = (startQ \/ State = "Ready")
    BY <1>4, Zenon DEF RequesterStep, Notify, Send, Receive, TimesOut, Sweep, Retire, Abandon, QueueCancel, Settle,
              AbortWriter, PeerIsCancelled, IsDropped, LeaveFor, Deliver, ForwardCancel, Answer, readerVars
  <2>3. startQ' \in BOOLEAN
    BY <1>2, <2>2, Zenon
  <2>4. /\ handle' \in {handle, "dropped"} /\ conn' \in {conn, "Failed"} /\ failSignal' \in {failSignal, "taken"}
    BY <1>4 DEF RequesterStep, Notify, Send, Receive, TimesOut, Sweep, Retire, Abandon, QueueCancel, Settle,
              AbortWriter, PeerIsCancelled, IsDropped, LeaveFor, Deliver, ForwardCancel, Answer, ReaderUnchanged,
              writerVars, readerVars
  <2>5. rx' \in BOOLEAN /\ stopQ' \in BOOLEAN
    BY <1>2, <2>1, Zenon
  <2>6. /\ handle' \in {"held", "stopped", "dropped"} /\ conn' \in {"Ready", "Failed", "Closing", "Closed"}
        /\ failSignal' \in {"none", "signalled", "taken"}
        /\ shut' \in {"none", "begun", "reclaiming", "finishing", "done"} /\ begun' \subseteq Id
    BY <1>1, <2>1, <2>4
  <2>. QED  BY <2>3, <2>5, <2>6, Zenon DEF TasksOK
<1>5. ASSUME (\E i \in Id, u \in Upstream \cup {NoUpstream} : Register(i, u)) \/ (\E u \in Upstream : Prepare(u))
             \/ UNCHANGED vars
      PROVE  TasksOK'
  <2>1. UNCHANGED <<rx, startQ, stopQ, handle, conn, failSignal, shut, begun>>
    BY <1>5 DEF Register, InsertEntry, Prepare, writerVars, readerVars, history, vars
  <2>. QED  BY <2>1, <1>1, <1>2, Zenon DEF TasksOK
<1>6. CASE WriterStep \/ FinishWrite \/ WriteFails
  <2>1. UNCHANGED <<startQ, stopQ, handle, conn, failSignal, shut>>
    BY <1>6 DEF WriterStep, FinishWrite, WriteFails, TakeStop, ReturnWriter, TakeCancel, Take, MarkSent, WriteCancelled,
              WriteEnds, FailQueued, ExitWriter, WriterUnchanged, readerVars
  <2>2. rx' = rx \/ rx' = FALSE
    BY <1>6, Zenon DEF WriterStep, FinishWrite, WriteFails, TakeStop, ReturnWriter, TakeCancel, Take, MarkSent, WriteCancelled,
              WriteEnds, FailQueued, ExitWriter
  <2>3. begun' = begun \/ (queue # <<>> /\ begun' = begun \cup {Head(queue).id})
    BY <1>6 DEF WriterStep, FinishWrite, WriteFails, TakeStop, ReturnWriter, TakeCancel, Take, MarkSent, WriteCancelled,
              WriteEnds, FailQueued, ExitWriter, history
  <2>4. queue # <<>> => Head(queue) \in Frames
    <3>1. queue \in Seq(Frame)
      BY DEF FInv, WriterOK
    <3>2. queue # <<>> => 1 \in 1..Len(queue) /\ Head(queue) = queue[1]
      BY <3>1
    <3>. QED  BY <3>2 DEF Frames
  <2>5. begun' \subseteq Id
    BY <1>1, <1>3, <2>3, <2>4
  <2>6. rx' \in BOOLEAN
    BY <1>2, <2>2, Zenon
  <2>. QED  BY <2>1, <2>5, <2>6, <1>1, <1>2, Zenon DEF TasksOK
<1>7. CASE ReaderStep \/ Chatter \/ TimerElapses \/ Eof
  <2>1. UNCHANGED <<rx, handle, conn, shut, begun>>
    BY <1>7 DEF ReaderStep, AfterMessage, StopTimer, StartTimer, Expire, Publish, Chatter, TimerElapses, Eof,
              ReaderUnchanged, writerVars, history
  <2>2. failSignal' \in {failSignal, "signalled"}
    BY <1>7 DEF ReaderStep, AfterMessage, StopTimer, StartTimer, Expire, Publish, Chatter, TimerElapses, Eof
  <2>3. (startQ' = startQ \/ startQ' = FALSE) /\ (stopQ' = stopQ \/ stopQ' = FALSE)
    BY <1>7, Zenon DEF ReaderStep, AfterMessage, StopTimer, StartTimer, Expire, Publish, Chatter, TimerElapses, Eof
  <2>4. startQ' \in BOOLEAN /\ stopQ' \in BOOLEAN
    BY <1>2, <2>3, Zenon
  <2>5. failSignal' \in {"none", "signalled", "taken"}
    BY <1>1, <2>2
  <2>. QED  BY <2>1, <2>4, <2>5, <1>1, <1>2, Zenon DEF TasksOK
<1>8. CASE BeginShutdown \/ ShutdownStep
  <2>1. UNCHANGED <<rx, startQ, failSignal, begun>>
    BY <1>8 DEF BeginShutdown, ShutdownStep, StopWriter, ReclaimWriter, ShutdownAborts, FinishShutdown,
              ShutUnchanged, writerVars, history
  <2>2. /\ handle' \in {handle, "stopped", "dropped"} /\ conn' \in {conn, "Closing", "Closed"}
        /\ shut' \in {"begun", "reclaiming", "finishing", "done"}
    BY <1>8 DEF BeginShutdown, ShutdownStep, StopWriter, ReclaimWriter, ShutdownAborts, FinishShutdown, writerVars
  <2>3. stopQ' = stopQ \/ stopQ' = TRUE
    BY <1>8, Zenon DEF BeginShutdown, ShutdownStep, StopWriter, ReclaimWriter, ShutdownAborts, FinishShutdown
  <2>4. stopQ' \in BOOLEAN
    BY <1>2, <2>3, Zenon
  <2>5. handle' \in {"held", "stopped", "dropped"} /\ conn' \in {"Ready", "Failed", "Closing", "Closed"}
        /\ shut' \in {"none", "begun", "reclaiming", "finishing", "done"}
    BY <1>1, <2>2
  <2>. QED  BY <2>1, <2>4, <2>5, <1>1, <1>2, Zenon DEF TasksOK
<1>. QED  BY <1>4, <1>5, <1>6, <1>7, <1>8 DEF Next

-----------------------------------------------------------------------------
LEMMA TypesInit == Init => TInv /\ EpochOK
<1> SUFFICES ASSUME Init PROVE TInv /\ EpochOK
  OBVIOUS
<1>1. TasksOK
  BY DEF Init, TasksOK
<1>2. TimerOK
  BY DEF Init, TimerOK
<1>3. Registered = {}
  BY DEF Init, Registered
<1>4. EpochOK
  BY <1>3, FS_EmptySet DEF Init, EpochOK
<1>5. Len(queue) <= QueueCapacity
  BY RequestsAssumption DEF Init
<1>. QED  BY <1>1, <1>2, <1>4, <1>5 DEF TInv

LEMMA TasksHold == Safety => []TInv
<1>1. IInv /\ FInv /\ TInv /\ [Next]_vars => TInv'
  <2> SUFFICES ASSUME IInv, FInv, TInv, [Next]_vars PROVE TInv'
    OBVIOUS
  <2>. QED  BY TimerStep, QueueStep, TasksStep DEF TInv
<1>. QED  BY <1>1, TypesInit, InvariantHolds, FramesHold, PTL DEF Safety

(* The types follow.                                                       *)
LEMMA TypesFollow ==
  ASSUME IInv, DInv, FInv, CInv, TInv, EpochOK, IsFiniteSet(Id)
  PROVE  TypeOK
<1>1. epoch \in 0..Cardinality(Id)
  <2>1. Registered \in SUBSET Id
    BY DEF Registered
  <2>2. Cardinality(Registered) <= Cardinality(Id) /\ Cardinality(Registered) \in Nat /\ Cardinality(Id) \in Nat
    BY <2>1, FS_Subset, FS_CardinalityType
  <2>. QED  BY <2>2 DEF TInv, TimerOK, EpochOK
<1>2. Frames \subseteq [kind : {"request", "cancel"}, id : Id]
  <2>1. queue \in Seq(Frame)
    BY DEF FInv, WriterOK
  <2>2. \A k \in 1..Len(queue) : queue[k] \in Frame
    BY <2>1
  <2>. QED  BY <2>2 DEF Frames, Frame
<1>3. forward \cup begun \cup skipped \cup cancelsOut \subseteq Id
  BY DEF CInv, Told, TInv, TasksOK, Id
<1>4. /\ writer.pc \in {"select", "writing", "written", "returned", "failing", "exiting", "gone"}
      /\ Len(queue) <= QueueCapacity
  BY DEF FInv, WriterOK, TInv
<1>5. /\ entry \in [Id -> Delivery] /\ down \in [Id -> Upstream \cup {NoUpstream}] /\ up \in [Upstream -> SUBSET Id]
      /\ accepting \in BOOLEAN /\ waiter \in [Id -> Stage]
  BY Zenon DEF IInv, RouterType
<1>6. DeliveryType
  BY DEF DInv
<1>7. TasksOK /\ TimerOK
  BY DEF TInv
<1>. QED  BY <1>1, <1>2, <1>3, <1>4, <1>5, <1>6, <1>7, Zenon
          DEF TypeOK, Delivery, Stage, DeliveryType, Reason, TasksOK, TimerOK

(* The router, its tasks and their channels are well typed, the queue is   *)
(* never over its capacity, and the liveness epoch never passes the number *)
(* of requests (BridgeRequests' TypeOK); of requests there are finitely    *)
(* many in any behaviour.                                                  *)
THEOREM TypeCorrect == IsFiniteSet(Id) /\ Safety => []TypeOK
<1> SUFFICES ASSUME IsFiniteSet(Id) PROVE Safety => []TypeOK
  OBVIOUS
<1>1. IInv /\ TInv /\ EpochOK /\ [Next]_vars => EpochOK'
  BY EpochCounts
<1>2. IInv /\ DInv /\ FInv /\ CInv /\ TInv /\ EpochOK => TypeOK
  BY TypesFollow
<1>. QED  BY <1>1, <1>2, TypesInit, TasksHold, InvariantHolds, DeliveryHolds, FramesHold, CancelsHold, PTL DEF Safety

-----------------------------------------------------------------------------
(***************************************************************************)
(* The liveness timer.  Only a request that finds nothing awaited begins   *)
(* an epoch, and only its notification starts the timer; a routing request *)
(* does not notify.  What is true then, whatever the requests: as long as  *)
(* no routing request begins an epoch, something awaited has an epoch, and *)
(* the timer runs, was asked for, or will be.                              *)
(***************************************************************************)

RoutingFollows == \A i \in Routing : waiter[i] = "new" /\ waiter'[i] # "new" => Awaiting # {}

Watched == reader.timer # 0 \/ startQ \/ \E i \in Id : waiter[i] = "notifying"

Alive == conn = "Ready" /\ accepting /\ reader.enabled /\ ~stopQ

(* The inductive invariant, with TInv.                                     *)
AInv == Awaiting # {} => epoch # 0 /\ (Alive => Watched)

(* What most steps leave of it.                                            *)
Unawaited == Awaiting' \subseteq Awaiting /\ epoch' = epoch
NotRevived == (conn' = "Ready" => conn = "Ready") /\ (accepting' => accepting) /\ (stopQ => stopQ')
StillNotifies == (startQ => startQ') /\ \A j \in Id : waiter[j] = "notifying" => waiter'[j] = "notifying"
SameTimer == reader'.timer = reader.timer /\ reader'.enabled = reader.enabled

LEMMA IdleArmed ==
  ASSUME AInv, Unawaited, NotRevived, StillNotifies, SameTimer
  PROVE  AInv'
BY DEF AInv, Unawaited, NotRevived, StillNotifies, SameTimer, Alive, Watched

-----------------------------------------------------------------------------
(* Nothing is awaited again but by a registration.                         *)
LEMMA RequesterAwaits ==
  ASSUME RouterType, NEW i \in Id,
         RequesterStep(i) \/ PeerIsCancelled(i) \/ IsDropped(i) \/ Deliver(i) \/ ForwardCancel(i) \/ Answer(i)
  PROVE  Awaiting' \subseteq Awaiting
<1>1. ASSUME entry' = entry PROVE Awaiting' \subseteq Awaiting
  BY <1>1 DEF Awaiting
<1>2. ASSUME Remove(i) PROVE Awaiting' \subseteq Awaiting
  BY <1>2 DEF Awaiting, Remove, Removed, RouterType
<1>3. ASSUME NEW S, FailAll(S) PROVE Awaiting' \subseteq Awaiting
  BY <1>3 DEF Awaiting, FailAll
<1>4. ASSUME NEW to, entry' = [entry EXCEPT ![i] = to], entry[i] \in {"Writing", "Sent"}
      PROVE  Awaiting' \subseteq Awaiting
  BY <1>4 DEF Awaiting, RouterType
<1>5. CASE Send(i) \/ Sweep(i)
  BY <1>5, <1>1, <1>2 DEF Send, Sweep, routerVars
<1>6. CASE Retire(i)
  BY <1>6, <1>1, <1>2, <1>4 DEF Retire, routerVars
<1>7. CASE Abandon(i)
  BY <1>7, <1>1, <1>2, <1>4 DEF Abandon, routerVars
<1>8. CASE Settle(i)
  BY <1>8, <1>1, <1>2, <1>3 DEF Settle, routerVars
<1>9. CASE Answer(i)
  BY <1>9, <1>1 DEF Answer, Awaiting, Removed, RouterType
<1>10. CASE Notify(i) \/ Receive(i) \/ TimesOut(i) \/ QueueCancel(i) \/ AbortWriter(i) \/ PeerIsCancelled(i)
            \/ IsDropped(i) \/ Deliver(i) \/ ForwardCancel(i)
  BY <1>10, <1>1 DEF Notify, Receive, TimesOut, QueueCancel, AbortWriter, PeerIsCancelled, IsDropped, LeaveFor,
                    Deliver, ForwardCancel, routerVars
<1>. QED  BY <1>5, <1>6, <1>7, <1>8, <1>9, <1>10 DEF RequesterStep

LEMMA WriterAwaits ==
  ASSUME RouterType, WriterStep \/ FinishWrite \/ WriteFails
  PROVE  Awaiting' \subseteq Awaiting
<1>1. ASSUME entry' = entry PROVE Awaiting' \subseteq Awaiting
  BY <1>1 DEF Awaiting
<1>2. ASSUME NEW i, Removed(i) PROVE Awaiting' \subseteq Awaiting
  BY <1>2 DEF Awaiting, Removed, RouterType
<1>3. ASSUME NEW i, FailRequest(i) PROVE Awaiting' \subseteq Awaiting
  BY <1>3, <1>1, <1>2 DEF FailRequest, routerVars
<1>4. ASSUME NEW i, NEW to, entry' = [entry EXCEPT ![i] = to], entry[i] \notin {"absent", "CancelledQueued"}
      PROVE  Awaiting' \subseteq Awaiting
  BY <1>4 DEF Awaiting, RouterType
<1>5. CASE Take
  BY <1>5, <1>1, <1>2, <1>4 DEF Take, routerVars
<1>6. CASE MarkSent
  BY <1>6, <1>1, <1>2, <1>4 DEF MarkSent, Remove, routerVars
<1>7. CASE FailQueued \/ WriteCancelled \/ WriteFails
  BY <1>7, <1>1, <1>3 DEF FailQueued, WriteCancelled, WriteFails, WriteEnds, routerVars
<1>8. CASE TakeStop \/ ReturnWriter \/ TakeCancel \/ ExitWriter \/ FinishWrite
  BY <1>8, <1>1 DEF TakeStop, ReturnWriter, TakeCancel, ExitWriter, FinishWrite, routerVars
<1>. QED  BY <1>5, <1>6, <1>7, <1>8 DEF WriterStep

LEMMA OthersAwait ==
  ASSUME RouterType,
         ReaderStep \/ Chatter \/ TimerElapses \/ Eof \/ BeginShutdown \/ ShutdownStep \/ UNCHANGED vars
         \/ \E u \in Upstream : Prepare(u)
  PROVE  Awaiting' \subseteq Awaiting
<1>1. CASE entry' = entry
  BY <1>1 DEF Awaiting
<1>2. ASSUME NEW S, FailAll(S) PROVE Awaiting' \subseteq Awaiting
  BY <1>2 DEF Awaiting, FailAll
<1>3. ASSUME NEW u \in Upstream, Prepare(u) PROVE Awaiting' \subseteq Awaiting
  BY <1>3 DEF Awaiting, Prepare, RouterType
<1>. QED  BY <1>1, <1>2, <1>3 DEF ReaderStep, AfterMessage, StopTimer, StartTimer, Expire, Publish, Chatter, TimerElapses,
          Eof, BeginShutdown, ShutdownStep, StopWriter, ReclaimWriter, ShutdownAborts, FinishShutdown,
          ShutUnchanged, routerVars, vars

-----------------------------------------------------------------------------
(* A connection is not revived.                                            *)
LEMMA NothingRevives ==
  ASSUME IInv, [Next]_vars, ~StopTimer
  PROVE  NotRevived
<1>1. ASSUME NEW i \in Id,
             RequesterStep(i) \/ PeerIsCancelled(i) \/ IsDropped(i) \/ Deliver(i) \/ ForwardCancel(i) \/ Answer(i)
      PROVE  NotRevived
  <2>1. RouterStep
    BY <1>1, RequesterSteps DEF IInv
  <2>2. conn' \in {conn, "Failed"} /\ stopQ' = stopQ
    BY <1>1 DEF RequesterStep, Notify, Send, Receive, TimesOut, Sweep, Retire, Abandon, QueueCancel, Settle,
              AbortWriter, PeerIsCancelled, IsDropped, LeaveFor, Deliver, ForwardCancel, Answer, ReaderUnchanged, readerVars
  <2>. QED  BY <2>1, <2>2 DEF NotRevived, RouterStep, Keeps, Drops, Empties, Admits
<1>2. ASSUME (\E i \in Id, u \in Upstream \cup {NoUpstream} : Register(i, u)) \/ (\E u \in Upstream : Prepare(u))
             \/ UNCHANGED vars
      PROVE  NotRevived
  BY <1>2 DEF Register, InsertEntry, Prepare, readerVars, routerVars, vars, NotRevived
<1>3. CASE WriterStep \/ FinishWrite \/ WriteFails
  <2>1. RouterStep
    BY <1>3, WriterSteps DEF IInv
  <2>2. UNCHANGED <<conn, stopQ>>
    BY <1>3 DEF WriterStep, FinishWrite, WriteFails, TakeStop, ReturnWriter, TakeCancel, Take, MarkSent, WriteCancelled,
              WriteEnds, FailQueued, ExitWriter, WriterUnchanged, readerVars
  <2>. QED  BY <2>1, <2>2 DEF NotRevived, RouterStep, Keeps, Drops, Empties, Admits
<1>4. CASE ReaderStep \/ Chatter \/ TimerElapses \/ Eof
  <2>1. RouterStep
    BY <1>4, ReaderSteps DEF IInv
  <2>2. UNCHANGED <<conn, stopQ>>
    BY <1>4 DEF ReaderStep, AfterMessage, StopTimer, StartTimer, Expire, Publish, Chatter, TimerElapses, Eof, ReaderUnchanged
  <2>. QED  BY <2>1, <2>2 DEF NotRevived, RouterStep, Keeps, Drops, Empties, Admits
<1>5. CASE BeginShutdown \/ ShutdownStep
  BY <1>5 DEF BeginShutdown, ShutdownStep, StopWriter, ReclaimWriter, ShutdownAborts, FinishShutdown,
              ShutUnchanged, routerVars, NotRevived
<1>. QED  BY <1>1, <1>2, <1>3, <1>4, <1>5 DEF Next

(* Only the notification itself ends a notification.                       *)
LEMMA OthersNotify ==
  ASSUME IInv, [Next]_vars, ~StartTimer, \A i \in Id : ~Notify(i)
  PROVE  StillNotifies
<1>1. ASSUME NEW i \in Id,
             RequesterStep(i) \/ PeerIsCancelled(i) \/ IsDropped(i) \/ Deliver(i) \/ ForwardCancel(i) \/ Answer(i)
      PROVE  StillNotifies
  <2>1. startQ' = startQ
    BY <1>1 DEF RequesterStep, Send, Receive, TimesOut, Sweep, Retire, Abandon, QueueCancel, Settle,
              AbortWriter, PeerIsCancelled, IsDropped, LeaveFor, Deliver, ForwardCancel, Answer, ReaderUnchanged, readerVars
  <2>2. waiter' = waiter \/ (waiter[i] # "notifying" /\ \E to : waiter' = [waiter EXCEPT ![i] = to])
    BY <1>1 DEF RequesterStep, Send, Receive, TimesOut, Sweep, Retire, Abandon, QueueCancel, Settle,
              AbortWriter, PeerIsCancelled, IsDropped, LeaveFor, Deliver, ForwardCancel, Answer, ReaderUnchanged, waiterVars, Goto
  <2>. QED  BY <2>1, <2>2 DEF StillNotifies, IInv, RouterType
<1>2. ASSUME NEW i \in Id, NEW u, Register(i, u) PROVE StillNotifies
  BY <1>2 DEF Register, InsertEntry, Goto, readerVars, StillNotifies, IInv, RouterType
<1>3. ASSUME (\E u \in Upstream : Prepare(u)) \/ UNCHANGED vars PROVE StillNotifies
  BY <1>3 DEF Prepare, readerVars, waiterVars, vars, StillNotifies
<1>4. CASE WriterStep \/ FinishWrite \/ WriteFails
  BY <1>4 DEF WriterStep, FinishWrite, WriteFails, TakeStop, ReturnWriter, TakeCancel, Take, MarkSent, WriteCancelled,
              WriteEnds, FailQueued, ExitWriter, WriterUnchanged, readerVars, waiterVars, StillNotifies
<1>5. CASE ReaderStep \/ Chatter \/ TimerElapses \/ Eof
  BY <1>5 DEF ReaderStep, AfterMessage, StopTimer, Expire, Publish, Chatter, TimerElapses, Eof, ReaderUnchanged, StillNotifies
<1>6. CASE BeginShutdown \/ ShutdownStep
  BY <1>6 DEF BeginShutdown, ShutdownStep, StopWriter, ReclaimWriter, ShutdownAborts, FinishShutdown,
              ShutUnchanged, waiterVars, StillNotifies
<1>. QED  BY <1>1, <1>2, <1>3, <1>4, <1>5, <1>6 DEF Next

-----------------------------------------------------------------------------
(* The steps that move the timer, or what starts it.                       *)
LEMMA RegisterArmed ==
  ASSUME IInv, TInv, AInv, [Next]_vars, RoutingFollows, NEW i \in Id, NEW u, Register(i, u)
  PROVE  AInv'
<1>1. CASE Awaiting # {}
  <2>1. epoch' = epoch /\ reader' = reader /\ UNCHANGED <<conn, accepting, startQ, stopQ>>
    BY <1>1 DEF Register, InsertEntry, readerVars
  <2>2. StillNotifies
    BY DEF Register, InsertEntry, Goto, readerVars, StillNotifies, IInv, RouterType
  <2>. QED  BY <1>1, <2>1, <2>2 DEF AInv, Alive, Watched, StillNotifies
<1>2. CASE Awaiting = {}
  <2>1. waiter[i] = "new" /\ i \notin Routing
    BY <1>2 DEF Register, InsertEntry, Goto, RoutingFollows, IInv, RouterType
  <2>2. waiter'[i] = "notifying" /\ epoch' = epoch + 1
    BY <1>2, <2>1 DEF Register, InsertEntry, Goto, IInv, RouterType
  <2>3. epoch \in Nat
    BY DEF TInv, TimerOK
  <2>. QED  BY <2>2, <2>3 DEF AInv, Watched
<1>. QED  BY <1>1, <1>2

LEMMA NotifyArmed ==
  ASSUME AInv, NEW i \in Id, Notify(i)
  PROVE  AInv'
<1>1. UNCHANGED <<entry, epoch, conn, accepting>> /\ reader' = reader /\ startQ' = (startQ \/ State = "Ready")
  BY DEF Notify, routerVars
<1>2. CASE Alive
  BY <1>1, <1>2, Zenon DEF AInv, Alive, Watched, State, Awaiting
<1>3. CASE ~Alive
  BY <1>1, <1>3 DEF AInv, Alive, Awaiting, Notify
<1>. QED  BY <1>2, <1>3

LEMMA ReaderArmed ==
  ASSUME IInv, TInv, AInv, StopTimer \/ StartTimer \/ AfterMessage \/ Expire
  PROVE  AInv'
<1>. USE DEF ReaderUnchanged
<1>1. reader = [pc |-> reader.pc, timer |-> reader.timer, enabled |-> reader.enabled]
  BY DEF TInv, TimerOK
<1>2. CASE StopTimer
  <2>1. Awaiting' = Awaiting /\ epoch' = epoch
    BY <1>2 DEF StopTimer, routerVars, Awaiting
  <2>2. PICK off : off = FALSE
    OBVIOUS
  <2>3. reader'.enabled = off
    BY <1>1, <1>2, <2>2 DEF StopTimer
  <2>4. ~Alive'
    BY <2>2, <2>3, Zenon DEF Alive
  <2>. QED  BY <2>1, <2>4 DEF AInv
<1>3. CASE StartTimer
  <2>1. UNCHANGED <<conn, accepting, stopQ>> /\ Awaiting' = Awaiting /\ epoch' = epoch
    BY <1>3 DEF StartTimer, routerVars, Awaiting
  <2>2. reader'.timer = (IF reader.enabled THEN epoch ELSE reader.timer) /\ reader'.enabled = reader.enabled
    BY <1>1, <1>3 DEF StartTimer
  <2>3. CASE reader.enabled
    BY <2>1, <2>2, <2>3 DEF AInv, Watched
  <2>4. CASE ~reader.enabled
    BY <2>1, <2>2, <2>4 DEF AInv, Alive
  <2>. QED  BY <2>3, <2>4
<1>4. CASE AfterMessage
  <2>1. UNCHANGED <<conn, accepting, startQ, stopQ, waiter>> /\ Awaiting' = Awaiting /\ epoch' = epoch
    BY <1>4 DEF AfterMessage, routerVars, Awaiting
  <2>2. reader'.timer = (IF Awaiting = {} THEN 0 ELSE reader.timer) /\ reader'.enabled = reader.enabled
    BY <1>1, <1>4 DEF AfterMessage
  <2>. QED  BY <2>1, <2>2 DEF AInv, Alive, Watched
<1>5. CASE Expire
  <2>1. CASE UNCHANGED routerVars
    <3>1. UNCHANGED <<conn, accepting, startQ, stopQ, waiter>> /\ Awaiting' = Awaiting /\ epoch' = epoch
      BY <1>5, <2>1 DEF Expire, routerVars, Awaiting
    <3>2. CASE Awaiting = {}
      BY <3>1, <3>2 DEF AInv
    <3>3. CASE Awaiting # {} /\ reader' = [reader EXCEPT !.pc = "select", !.timer = epoch]
      <4>1. reader'.timer = epoch
        BY <1>1, <3>3
      <4>. QED  BY <3>1, <3>3, <4>1 DEF AInv, Watched
    <3>4. CASE FailAll({})
      BY <3>4 DEF FailAll, AInv, Awaiting
    <3>. QED  BY <1>5, <3>2, <3>3, <3>4 DEF Expire
  <2>2. CASE FailAll({})
    BY <2>2 DEF FailAll, AInv, Awaiting
  <2>. QED  BY <1>5, <2>1, <2>2 DEF Expire
<1>. QED  BY <1>2, <1>3, <1>4, <1>5

(* Any other step leaves the timer as it is.                               *)
LEMMA OthersTime ==
  ASSUME TInv, [Next]_vars, ~StopTimer, ~StartTimer, ~AfterMessage, ~Expire
  PROVE  SameTimer
<1>1. reader = [pc |-> reader.pc, timer |-> reader.timer, enabled |-> reader.enabled]
  BY DEF TInv, TimerOK
<1>2. CASE reader' = reader
  BY <1>2 DEF SameTimer
<1>3. ASSUME NEW pc, ReaderGoes(pc) PROVE SameTimer
  BY <1>1, <1>3 DEF ReaderGoes, SameTimer
<1>. QED  BY <1>2, <1>3, ReaderStays DEF ReaderStep, Publish, Chatter, TimerElapses, Eof, Answer

LEMMA ArmedStep ==
  ASSUME IInv, TInv, AInv, [Next]_vars, RoutingFollows
  PROVE  AInv'
<1>1. ASSUME NEW i \in Id, NEW u, Register(i, u) PROVE AInv'
  BY <1>1, RegisterArmed
<1>2. ASSUME NEW i \in Id, Notify(i) PROVE AInv'
  BY <1>2, NotifyArmed
<1>3. CASE StopTimer \/ StartTimer \/ AfterMessage \/ Expire
  BY <1>3, ReaderArmed
<1>4. CASE /\ ~(StopTimer \/ StartTimer \/ AfterMessage \/ Expire) /\ \A i \in Id : ~Notify(i)
           /\ ~ \E i \in Id, u \in Upstream \cup {NoUpstream} : Register(i, u)
  <2>1. Awaiting' \subseteq Awaiting
    BY <1>4, RequesterAwaits, WriterAwaits, OthersAwait DEF Next, IInv
  <2>2. epoch' = epoch
    BY <1>4, EpochMoves
  <2>. QED  BY <1>4, <2>1, <2>2, IdleArmed, NothingRevives, OthersNotify, OthersTime DEF Unawaited
<1>. QED  BY <1>1, <1>2, <1>3, <1>4

(* While a user's or a peer's request awaits a Ready connection's server,  *)
(* the liveness timer runs or is about to be started (TimerArmed), in      *)
(* every behaviour in which no routing request is registered while nothing *)
(* is awaited: that one case is what the run of the routing request shows, *)
(* and there is no other.                                                  *)
THEOREM TimerStaysArmed == Safety /\ [][RoutingFollows]_vars => []TimerArmed
<1>1. Init => AInv
  BY DEF Init, AInv, Awaiting
<1>2. IInv /\ TInv /\ AInv /\ [Next]_vars /\ [RoutingFollows]_vars => AInv'
  <2>1. UNCHANGED vars => RoutingFollows
    BY DEF vars, waiterVars, RoutingFollows
  <2>. QED  BY <2>1, ArmedStep
<1>3. AInv => TimerArmed
  BY DEF AInv, TimerArmed, Alive, Watched
<1>. QED  BY <1>1, <1>2, <1>3, InvariantHolds, TasksHold, PTL DEF Safety
=============================================================================
