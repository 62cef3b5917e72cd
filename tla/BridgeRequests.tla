---------------------------- MODULE BridgeRequests ----------------------------
(***************************************************************************)
(* The requests of one downstream connection: lsp/bridge/actor's           *)
(* ResponseRouter, writer and reader tasks with the liveness timer, and    *)
(* the requesters of lsp/bridge/pool and lsp/bridge/peer that meet there.  *)
(*                                                                         *)
(* A requester registers an entry in the router, queues its frame, and     *)
(* waits on a oneshot.  The writer claims the frame, writes it and marks   *)
(* it sent; the reader routes the answer.  Beside them: the upstream's     *)
(* cancellation, the requester's timeout, its task being dropped, a peer   *)
(* request's cleanup, the liveness timer, the end of the server's output,  *)
(* and shutdown.  Every router operation is one step (one mutex); what it  *)
(* does after unlocking is another.                                        *)
(*                                                                         *)
(* The connection is Ready from the start: the handshake is left out.      *)
(* Time is abstract: a deadline may pass at any moment.                    *)
(***************************************************************************)
EXTENDS Naturals, Sequences, FiniteSets

CONSTANTS
  User,           \* requests made for the editor: register_request_with_upstream
  Peer,           \* kakehashi/bridge/peer/request: register_peer_request
  Routing,        \* routing refinements: request_routing
  Upstream,       \* ids of the editor's requests; one at a time is being cancelled
  NoUpstream,
  QueueCapacity,  \* OUTBOUND_QUEUE_CAPACITY
  MayShutDown     \* explore shutdowns

ASSUME RequestsAssumption ==
  /\ User \cap Peer = {} /\ User \cap Routing = {} /\ Peer \cap Routing = {}
  /\ NoUpstream \notin Upstream
  /\ QueueCapacity \in Nat \ {0}
  /\ MayShutDown \in BOOLEAN

Id == User \cup Peer \cup Routing

VARIABLES
  entry,      \* entry[i]: the delivery state of i's pending entry, or "absent"
  down,       \* downstream_to_upstream
  up,         \* upstream_to_downstream
  failures,   \* failures[i]: why the bridge itself failed i
  accepting,  \* the router admits requests
  epoch,      \* liveness_epoch
  draining,   \* draining[i]: the reply an unlocked router still owes i's waiter
  waiter,     \* waiter[i]: how far i's requester is
  reply,      \* reply[i]: what the oneshot holds
  queue,      \* the outbound queue: [kind, id]
  rx,         \* the queue's receiver is open
  writer,     \* the writer task: [pc, msg, drain]
  reader,     \* the reader task: [pc, timer, enabled]
  startQ,     \* the liveness start channel holds a wake-up
  stopQ,      \* the liveness stop channel does
  handle,     \* the writer's handle: "held", "stopped" or "dropped"
  conn,       \* the stored connection state
  failSignal, \* liveness_failed: "none", "signalled" or "taken"
  shut,       \* how far a graceful shutdown is
  forward,    \* cancels an upstream cancellation has still to queue
  begun,      \* history: requests whose write was begun
  skipped,    \* history: requests cancelled while they were queued
  cancelsOut  \* history: requests whose $/cancelRequest was written

routerVars == <<entry, down, up, failures, accepting, epoch, draining>>
waiterVars == <<waiter, reply>>
writerVars == <<queue, rx, writer, handle>>
readerVars == <<reader, startQ, stopQ, failSignal>>
history == <<begun, skipped, cancelsOut>>
vars == <<routerVars, waiterVars, writerVars, readerVars, conn, shut, forward, history>>

NoMsg == [kind |-> "none", id |-> NoUpstream]
Request(i) == [kind |-> "request", id |-> i]
CancelOf(i) == [kind |-> "cancel", id |-> i]

Pending(i) == entry[i] # "absent"

\* Mutant: a frame still being written is not awaited once it was given up.
AwaitingOnlyAnswers == { i \in Id : entry[i] \notin {"absent", "CancelledQueued", "CancelledWriting"} }

(* awaiting_downstream: a cancelled queued entry only waits for the writer *)
(* to discard it.                                                          *)
Awaiting == { i \in Id : entry[i] \notin {"absent", "CancelledQueued"} }

(* ConnectionHandle::state: a router that is closed shows as Failed.       *)
State == IF conn = "Ready" /\ ~accepting THEN "Failed" ELSE conn

\* The receiver of i's oneshot is alive.
Listening(i) == waiter[i] \in {"notifying", "registered", "waiting"}

Goto(i, pc) == waiter' = [waiter EXCEPT ![i] = pc]

-----------------------------------------------------------------------------
(* ResponseRouter *)

(* remove_cancel_mapping_inner, for every member of S.                     *)
Unmapped(S) ==
  /\ down' = [i \in Id |-> IF i \in S THEN NoUpstream ELSE down[i]]
  /\ up' = [u \in Upstream |-> up[u] \ { i \in S : down[i] = u }]

Removed(i) == entry' = [entry EXCEPT ![i] = "absent"] /\ Unmapped({i})

(* remove: the failure record goes too.                                    *)
Remove(i) ==
  /\ Removed(i)
  /\ failures' = [failures EXCEPT ![i] = "none"]
  /\ UNCHANGED <<accepting, epoch, draining>>

(* fail_request, up to its unlock.                                         *)
FailRequest(i) ==
  IF Pending(i)
    THEN /\ Removed(i)
         /\ failures' = [failures EXCEPT ![i] = IF i \in Peer THEN "ConnectionLost" ELSE @]
         /\ draining' = [draining EXCEPT ![i] = "error"]
         /\ UNCHANGED <<accepting, epoch>>
    ELSE UNCHANGED routerVars

(* fail_all, up to its unlock; expire_peer_cancel's verdict is the same    *)
(* drain, with its own request in `timedOut`.                              *)
FailAll(timedOut) ==
  /\ accepting' = FALSE
  /\ entry' = [i \in Id |-> "absent"]
  /\ down' = [i \in Id |-> NoUpstream]
  /\ up' = [u \in Upstream |-> {}]
  /\ failures' = [i \in Id |->
       IF ~Pending(i) \/ i \notin Peer THEN failures[i]
       ELSE IF i \in timedOut THEN "RequestTimeout" ELSE "ConnectionLost"]
  /\ draining' = [i \in Id |->
       IF ~Pending(i) THEN draining[i]
       ELSE IF entry[i] = "CancelledQueued" THEN "cancelled" ELSE "error"]
  /\ UNCHANGED epoch

\* Mutant: the failure record of a waiter that left is not taken back.
DeliverAndForget(i) ==
  /\ draining[i] # "none" /\ reader.pc # "publish"
  /\ draining' = [draining EXCEPT ![i] = "none"]
  /\ reply' = [reply EXCEPT ![i] = IF Listening(i) THEN draining[i] ELSE @]
  /\ UNCHANGED <<entry, down, up, failures, accepting, epoch, waiter>>
  /\ UNCHANGED <<writerVars, readerVars, conn, shut, forward, history>>

(* After the unlock: the reply is sent; with nobody to hear it the failure *)
(* record is taken back.  The liveness timeout is published first.         *)
Deliver(i) ==
  /\ draining[i] # "none" /\ reader.pc # "publish"
  /\ draining' = [draining EXCEPT ![i] = "none"]
  /\ IF Listening(i)
       THEN reply' = [reply EXCEPT ![i] = draining[i]] /\ UNCHANGED failures
       ELSE failures' = [failures EXCEPT ![i] = "none"] /\ UNCHANGED reply
  /\ UNCHANGED <<entry, down, up, accepting, epoch, waiter>>
  /\ UNCHANGED <<writerVars, readerVars, conn, shut, forward, history>>

-----------------------------------------------------------------------------
Init ==
  /\ entry = [i \in Id |-> "absent"]
  /\ down = [i \in Id |-> NoUpstream] /\ up = [u \in Upstream |-> {}]
  /\ failures = [i \in Id |-> "none"] /\ accepting = TRUE /\ epoch = 0
  /\ draining = [i \in Id |-> "none"]
  /\ waiter = [i \in Id |-> "new"] /\ reply = [i \in Id |-> "none"]
  /\ queue = <<>> /\ rx = TRUE
  /\ writer = [pc |-> "select", msg |-> NoMsg, drain |-> FALSE] /\ handle = "held"
  /\ reader = [pc |-> "select", timer |-> 0, enabled |-> TRUE]
  /\ startQ = FALSE /\ stopQ = FALSE /\ failSignal = "none"
  /\ conn = "Ready" /\ shut = "none" /\ forward = {}
  /\ begun = {} /\ skipped = {} /\ cancelsOut = {}

-----------------------------------------------------------------------------
(* Requesters *)

(* register_with_upstream_liveness_mode.                                   *)
InsertEntry(i, u, starts) ==
  /\ waiter[i] = "new"
  /\ u # NoUpstream => i \in User
  /\ entry' = [entry EXCEPT ![i] = "Queued"]
  /\ down' = [down EXCEPT ![i] = u]
  /\ up' = [v \in Upstream |-> IF v = u THEN up[v] \cup {i} ELSE up[v]]
  /\ epoch' = IF starts THEN epoch + 1 ELSE epoch
  /\ Goto(i, IF starts /\ i \notin Routing THEN "notifying" ELSE "registered")
  /\ UNCHANGED <<failures, accepting, draining, reply>>
  /\ UNCHANGED <<writerVars, readerVars, conn, shut, forward, history>>

\* Mutant: a closed router admits.
RegisterAnyway(i, u) == InsertEntry(i, u, Awaiting = {})

\* Mutant: an entry that only waits to be discarded counts as outstanding.
RegisterUnlessPending(i, u) == accepting /\ InsertEntry(i, u, \A j \in Id : ~Pending(j))

(* The first request to await the server starts a liveness epoch; a        *)
(* routing request has no use for the one it starts.                       *)
Register(i, u) == accepting /\ InsertEntry(i, u, Awaiting = {})

(* The rest of register_request: notify_liveness_start.                    *)
Notify(i) ==
  /\ waiter[i] = "notifying"
  /\ startQ' = (startQ \/ State = "Ready")
  /\ Goto(i, "registered")
  /\ UNCHANGED <<reader, stopQ, failSignal, reply>>
  /\ UNCHANGED <<routerVars, writerVars, conn, shut, forward, history>>

CanSend == rx /\ Len(queue) < QueueCapacity

(* send_request: a frame that cannot be queued takes its entry along.      *)
Send(i) ==
  /\ waiter[i] = "registered"
  /\ IF CanSend
       THEN /\ queue' = Append(queue, Request(i))
            /\ Goto(i, "waiting")
            /\ UNCHANGED routerVars
       ELSE Remove(i) /\ Goto(i, "over") /\ UNCHANGED queue
  /\ UNCHANGED <<reply, rx, writer, handle>>
  /\ UNCHANGED <<readerVars, conn, shut, forward, history>>

(* wait_for_response_inner: take_failure, else a liveness timeout that was *)
(* signalled is published as the connection's state.                       *)
Receive(i) ==
  /\ waiter[i] = "waiting" /\ reply[i] # "none"
  /\ Goto(i, "over")
  /\ reply' = [reply EXCEPT ![i] = "none"]
  /\ IF failures[i] # "none"
       THEN /\ failures' = [failures EXCEPT ![i] = "none"]
            /\ UNCHANGED <<conn, failSignal>>
       ELSE /\ UNCHANGED failures
            /\ IF failSignal = "signalled" /\ i \notin Routing
                 THEN conn' = "Failed" /\ failSignal' = "taken"
                 ELSE UNCHANGED <<conn, failSignal>>
  /\ UNCHANGED <<entry, down, up, accepting, epoch, draining, reader, startQ, stopQ>>
  /\ UNCHANGED <<writerVars, shut, forward, history>>

(* The receiver is dropped: by a deadline, or with the requester's task    *)
(* (or, before the frame is queued, because the connection is not Ready).  *)
(* A peer's task is not dropped; its outer request may be cancelled.       *)
LeaveFor(i, from, to) ==
  /\ waiter[i] \in from
  /\ Goto(i, to)
  /\ reply' = [reply EXCEPT ![i] = "none"]
  /\ UNCHANGED <<routerVars, writerVars, readerVars, conn, shut, forward, history>>

TimesOut(i) ==
  /\ reply[i] = "none"
  /\ LeaveFor(i, {"waiting"}, IF i \in User THEN "retiring"
                              ELSE IF i \in Peer THEN "abandoning" ELSE "cancelling")
PeerIsCancelled(i) == i \in Peer /\ LeaveFor(i, {"waiting"}, "abandoning")
IsDropped(i) ==
  /\ i \notin Peer
  /\ LeaveFor(i, IF i \in User THEN {"registered", "waiting"} ELSE {"waiting"}, "sweeping")

(* RouterCleanupGuard::drop.                                               *)
Sweep(i) ==
  /\ waiter[i] = "sweeping"
  /\ Remove(i)
  /\ Goto(i, "over")
  /\ UNCHANGED <<reply, writerVars, readerVars, conn, shut, forward, history>>

(* retire_on_timeout: a frame being written stays tracked.                 *)
Retire(i) ==
  /\ waiter[i] = "retiring"
  /\ CASE entry[i] = "absent" -> UNCHANGED routerVars
       [] entry[i] = "Writing" ->
            /\ entry' = [entry EXCEPT ![i] = "CancelledWriting"]
            /\ UNCHANGED <<down, up, failures, accepting, epoch, draining>>
       [] OTHER -> Remove(i)
  /\ Goto(i, "over")
  /\ UNCHANGED <<reply, writerVars, readerVars, conn, shut, forward, history>>

(* abandon_in_flight: cancel_peer.  Settled already, the guard sweeps.     *)
Abandon(i) ==
  LET Moves(to) == /\ entry' = [entry EXCEPT ![i] = to]
                   /\ UNCHANGED <<down, up, failures, accepting, epoch, draining>>
  IN
  /\ waiter[i] = "abandoning"
  /\ \/ entry[i] = "absent" /\ UNCHANGED routerVars /\ Goto(i, "sweeping")
     \/ entry[i] = "Queued" /\ Remove(i) /\ Goto(i, "over")
     \/ entry[i] = "Writing" /\ Moves("CancelledWriting") /\ Goto(i, "cancelling")
     \/ entry[i] = "Sent" /\ Moves("CancelledSent") /\ Goto(i, "cancelling")
  /\ UNCHANGED <<reply, writerVars, readerVars, conn, shut, forward, history>>

(* Its $/cancelRequest, best effort; then a peer's cleanup watches, and a  *)
(* routing request's guard sweeps.                                         *)
QueueCancel(i) ==
  /\ waiter[i] = "cancelling"
  /\ queue' = IF CanSend THEN Append(queue, CancelOf(i)) ELSE queue
  /\ Goto(i, IF i \in Peer THEN "watching" ELSE "sweeping")
  /\ UNCHANGED <<reply, rx, writer, handle>>
  /\ UNCHANGED <<routerVars, readerVars, conn, shut, forward, history>>

(* cleanup_cancelled_peer: the entry left the router, or its deadline came *)
(* (expire_peer_cancel).  A write in progress is wedged when a full budget *)
(* passed since it was claimed; until then the cleanup waits on.           *)
Settle(i) ==
  /\ waiter[i] = "watching"
  /\ \/ entry[i] = "absent" /\ UNCHANGED routerVars /\ Goto(i, "over")
     \/ entry[i] = "CancelledSent" /\ Remove(i) /\ Goto(i, "over")
     \/ entry[i] = "CancelledWriting" /\ FailAll({i}) /\ Goto(i, "aborting")
  /\ UNCHANGED <<reply, writerVars, readerVars, conn, shut, forward, history>>

(* fail_and_abort_writer: dropping the handle cancels the writer.          *)
AbortWriter(i) ==
  /\ waiter[i] = "aborting"
  /\ conn' = IF conn = "Ready" THEN "Failed" ELSE conn
  /\ handle' = IF handle = "held" THEN "dropped" ELSE handle
  /\ Goto(i, "over")
  /\ UNCHANGED <<reply, queue, rx, writer>>
  /\ UNCHANGED <<routerVars, readerVars, shut, forward, history>>

-----------------------------------------------------------------------------
(* forward_cancel_by_upstream_id *)

\* Mutant: requests still queued are told to the server, not skipped.
PrepareWithoutMarking(u) ==
  /\ State = "Ready" /\ up[u] # {} /\ forward = {}
  /\ forward' = { i \in up[u] : entry[i] \in {"Queued", "Writing", "Sent"} }
  /\ UNCHANGED <<routerVars, skipped, begun, cancelsOut>>
  /\ UNCHANGED <<waiterVars, writerVars, readerVars, conn, shut>>

(* prepare_cancel_by_upstream: what is queued is marked for the writer to  *)
(* skip; what was written, or is being, needs a cancel behind it.          *)
Prepare(u) ==
  LET queued == { i \in up[u] : entry[i] = "Queued" } IN
  /\ State = "Ready" /\ up[u] # {} /\ forward = {}
  /\ entry' = [i \in Id |-> IF i \in queued THEN "CancelledQueued" ELSE entry[i]]
  /\ forward' = { i \in up[u] : entry[i] \in {"Writing", "Sent"} }
  /\ skipped' = skipped \cup queued
  /\ UNCHANGED <<down, up, failures, accepting, epoch, draining, begun, cancelsOut>>
  /\ UNCHANGED <<waiterVars, writerVars, readerVars, conn, shut>>

ForwardCancel(i) ==
  /\ i \in forward
  /\ forward' = forward \ {i}
  /\ queue' = IF CanSend THEN Append(queue, CancelOf(i)) ELSE queue
  /\ UNCHANGED <<rx, writer, handle, conn, shut>>
  /\ UNCHANGED <<routerVars, waiterVars, readerVars, history>>

-----------------------------------------------------------------------------
(* The writer *)

WriterUnchanged == UNCHANGED <<waiterVars, readerVars, conn, shut, forward>>
WriterGoes(pc) == writer' = [writer EXCEPT !.pc = pc, !.msg = NoMsg]

\* Mutant: the queue still accepts frames while it is drained.
TakeStopWithoutClosing ==
  /\ writer.pc = "select" /\ ~writer.drain /\ handle = "stopped"
  /\ writer' = [writer EXCEPT !.drain = TRUE]
  /\ UNCHANGED <<rx, routerVars, queue, handle, history>> /\ WriterUnchanged

(* The stop signal: no more frames, and what is buffered is drained.       *)
TakeStop ==
  /\ writer.pc = "select" /\ ~writer.drain /\ handle = "stopped"
  /\ writer' = [writer EXCEPT !.drain = TRUE]
  /\ rx' = FALSE
  /\ UNCHANGED <<routerVars, queue, handle, history>> /\ WriterUnchanged

(* Drained: the writer goes back to the shutdown.                          *)
ReturnWriter ==
  /\ writer.pc = "select" /\ writer.drain /\ queue = <<>>
  /\ WriterGoes("returned")
  /\ UNCHANGED <<routerVars, queue, rx, handle, history>> /\ WriterUnchanged

(* The handle was dropped: the writer is cancelled.                        *)
TakeCancel ==
  /\ writer.pc = "select" /\ ~writer.drain /\ handle = "dropped"
  /\ WriterGoes("failing")
  /\ UNCHANGED <<routerVars, queue, rx, handle, history>> /\ WriterUnchanged

\* Mutant: a request cancelled while queued leaves without a reply.
TakeAndDiscard ==
  LET m == Head(queue) IN
  /\ writer.pc = "select" /\ queue # <<>> /\ (writer.drain \/ handle = "held")
  /\ queue' = Tail(queue)
  /\ IF m.kind = "request" /\ entry[m.id] = "CancelledQueued"
       THEN Remove(m.id)
       ELSE UNCHANGED routerVars
  /\ UNCHANGED <<writer, rx, handle, history>> /\ WriterUnchanged

(* The next frame; a request's is claimed first (claim_for_write), and one *)
(* that was cancelled in the queue, or has no entry left, is skipped.      *)
Take ==
  LET m == Head(queue) IN
  /\ writer.pc = "select" /\ queue # <<>> /\ (writer.drain \/ handle = "held")
  /\ queue' = Tail(queue)
  /\ \/ /\ m.kind = "cancel"
        /\ writer' = [writer EXCEPT !.pc = "writing", !.msg = m]
        /\ UNCHANGED <<routerVars, begun>>
     \/ /\ m.kind = "request" /\ entry[m.id] = "Queued"
        /\ writer' = [writer EXCEPT !.pc = "writing", !.msg = m]
        /\ entry' = [entry EXCEPT ![m.id] = "Writing"]
        /\ begun' = begun \cup {m.id}
        /\ UNCHANGED <<down, up, failures, accepting, epoch, draining>>
     \/ /\ m.kind = "request" /\ entry[m.id] = "CancelledQueued"
        /\ Removed(m.id)
        /\ draining' = [draining EXCEPT ![m.id] = "cancelled"]
        /\ UNCHANGED <<failures, accepting, epoch, writer, begun>>
     \/ /\ m.kind = "request" /\ entry[m.id] \notin {"Queued", "CancelledQueued"}
        /\ UNCHANGED <<routerVars, writer, begun>>
  /\ UNCHANGED <<rx, handle, skipped, cancelsOut>> /\ WriterUnchanged

(* The write completes; a server that stopped reading never lets it.       *)
FinishWrite ==
  /\ writer.pc = "writing" /\ handle # "dropped"
  /\ writer' = [writer EXCEPT !.pc = "written"]
  /\ cancelsOut' = IF writer.msg.kind = "cancel" THEN cancelsOut \cup {writer.msg.id}
                   ELSE cancelsOut
  /\ UNCHANGED <<routerVars, queue, rx, handle, begun, skipped>> /\ WriterUnchanged

(* It fails (then the loop goes on), or the writer is cancelled in it.     *)
WriteEnds(pc) ==
  /\ writer.pc = "writing"
  /\ IF writer.msg.kind = "request" THEN FailRequest(writer.msg.id) ELSE UNCHANGED routerVars
  /\ WriterGoes(pc)
  /\ UNCHANGED <<queue, rx, handle, history>> /\ WriterUnchanged

WriteFails == handle # "dropped" /\ WriteEnds("select")

WriteCancelled == handle = "dropped" /\ WriteEnds("failing")

\* Mutant: the cancel mapping of an entry that is retired here stays.
MarkSentKeepsMapping ==
  LET i == writer.msg.id IN
  /\ writer.pc = "written"
  /\ IF writer.msg.kind = "request" /\ entry[i] = "Writing"
       THEN entry' = [entry EXCEPT ![i] = "Sent"]
       ELSE IF writer.msg.kind = "request" /\ entry[i] = "CancelledWriting"
       THEN entry' = [entry EXCEPT ![i] = IF i \in Peer THEN "CancelledSent" ELSE "absent"]
       ELSE UNCHANGED entry
  /\ UNCHANGED <<down, up, failures, accepting, epoch, draining>>
  /\ WriterGoes("select")
  /\ UNCHANGED <<queue, rx, handle, history>> /\ WriterUnchanged

(* mark_sent.  An entry that was given up in the middle of its write is    *)
(* retired here, unless a cleanup watches it.                              *)
MarkSent ==
  LET i == writer.msg.id
      Moves(to) == /\ entry' = [entry EXCEPT ![i] = to]
                   /\ UNCHANGED <<down, up, failures, accepting, epoch, draining>>
      tracked == writer.msg.kind = "request"
  IN
  /\ writer.pc = "written"
  /\ \/ tracked /\ entry[i] = "Writing" /\ Moves("Sent")
     \/ tracked /\ entry[i] = "CancelledWriting" /\ i \in Peer /\ Moves("CancelledSent")
     \/ tracked /\ entry[i] = "CancelledWriting" /\ i \notin Peer /\ Remove(i)
     \/ /\ tracked => entry[i] \notin {"Writing", "CancelledWriting"}
        /\ UNCHANGED routerVars
  /\ WriterGoes("select")
  /\ UNCHANGED <<queue, rx, handle, history>> /\ WriterUnchanged

(* fail_queued, frame by frame; then the task ends and its receiver goes.  *)
FailQueued ==
  LET m == Head(queue) IN
  /\ writer.pc = "failing"
  /\ IF queue = <<>>
       THEN WriterGoes("exiting") /\ UNCHANGED <<routerVars, queue>>
       ELSE /\ queue' = Tail(queue)
            /\ IF m.kind = "request" THEN FailRequest(m.id) ELSE UNCHANGED routerVars
            /\ UNCHANGED writer
  /\ UNCHANGED <<rx, handle, history>> /\ WriterUnchanged

ExitWriter ==
  /\ writer.pc = "exiting"
  /\ WriterGoes("gone")
  /\ rx' = FALSE /\ queue' = <<>>
  /\ UNCHANGED <<routerVars, handle, history>> /\ WriterUnchanged

-----------------------------------------------------------------------------
(* The reader *)

ReaderUnchanged == UNCHANGED <<writerVars, shut, forward, history, conn, waiter>>
ReaderGoes(pc) == reader' = [reader EXCEPT !.pc = pc]

(* The select is biased: the stop channel, the timer, the start channel,   *)
(* and the server's output last.                                           *)
Reads == reader.pc = "select" /\ ~stopQ /\ ~startQ

(* A response of the server to a request it got: route.                    *)
Answer(i) ==
  /\ Reads /\ i \in begun /\ ~(writer.pc = "writing" /\ writer.msg = Request(i))
  /\ ReaderGoes("handled")
  /\ IF Pending(i)
       THEN /\ Removed(i)
            /\ reply' = [reply EXCEPT ![i] = IF Listening(i) THEN "answer" ELSE @]
       ELSE UNCHANGED <<entry, down, up, reply>>
  /\ UNCHANGED <<failures, accepting, epoch, draining, startQ, stopQ, failSignal>>
  /\ ReaderUnchanged

(* Any other message.                                                      *)
Chatter ==
  /\ Reads
  /\ ReaderGoes("handled")
  /\ UNCHANGED <<routerVars, reply, startQ, stopQ, failSignal>> /\ ReaderUnchanged

(* After each message: nothing awaited, the timer stops.                   *)
AfterMessage ==
  /\ reader.pc = "handled"
  /\ reader' = [reader EXCEPT !.pc = "select", !.timer = IF Awaiting = {} THEN 0 ELSE @]
  /\ UNCHANGED <<routerVars, reply, startQ, stopQ, failSignal>> /\ ReaderUnchanged

(* Shutdown began: the timer is off for good.                              *)
StopTimer ==
  /\ reader.pc = "select" /\ stopQ
  /\ stopQ' = FALSE
  /\ reader' = [reader EXCEPT !.timer = 0, !.enabled = FALSE]
  /\ UNCHANGED <<routerVars, reply, startQ, failSignal>> /\ ReaderUnchanged

\* Mutant: the timer is started for the next epoch.
StartTimerForNext ==
  /\ reader.pc = "select" /\ startQ /\ ~stopQ
  /\ startQ' = FALSE
  /\ reader' = [reader EXCEPT !.timer = IF reader.enabled THEN epoch + 1 ELSE @]
  /\ UNCHANGED <<routerVars, reply, stopQ, failSignal>> /\ ReaderUnchanged

(* A wake-up starts the timer for the router's current epoch.              *)
StartTimer ==
  /\ reader.pc = "select" /\ startQ /\ ~stopQ
  /\ startQ' = FALSE
  /\ reader' = [reader EXCEPT !.timer = IF reader.enabled THEN epoch ELSE @]
  /\ UNCHANGED <<routerVars, reply, stopQ, failSignal>> /\ ReaderUnchanged

TimerElapses ==
  /\ reader.pc = "select" /\ reader.timer # 0 /\ ~stopQ
  /\ ReaderGoes("expired")
  /\ UNCHANGED <<routerVars, reply, startQ, stopQ, failSignal>> /\ ReaderUnchanged

(* fail_all_if_awaiting_downstream: a newer epoch restarts the timer,      *)
(* nothing awaited stops it, else the connection fails and the task ends.  *)
Expire ==
  /\ reader.pc = "expired"
  /\ \/ /\ epoch # reader.timer
        /\ reader' = [reader EXCEPT !.pc = "select", !.timer = epoch]
        /\ UNCHANGED routerVars
     \/ /\ epoch = reader.timer /\ Awaiting = {}
        /\ reader' = [reader EXCEPT !.pc = "select", !.timer = 0]
        /\ UNCHANGED routerVars
     \/ /\ epoch = reader.timer /\ Awaiting # {}
        /\ FailAll({})
        /\ ReaderGoes("publish")
  /\ UNCHANGED <<reply, startQ, stopQ, failSignal>> /\ ReaderUnchanged

(* publish_failure, before any waiter is woken.                            *)
Publish ==
  /\ reader.pc = "publish"
  /\ failSignal' = "signalled"
  /\ ReaderGoes("gone")
  /\ UNCHANGED <<routerVars, reply, startQ, stopQ>> /\ ReaderUnchanged

(* The server's output ends: it exited, crashed or was killed.             *)
Eof ==
  /\ Reads
  /\ FailAll({})
  /\ ReaderGoes("gone")
  /\ UNCHANGED <<reply, startQ, stopQ, failSignal>> /\ ReaderUnchanged

-----------------------------------------------------------------------------
(* graceful_shutdown, as far as requests see it.                           *)

ShutUnchanged == UNCHANGED <<routerVars, waiterVars, reader, startQ, failSignal, forward, history>>

BeginShutdown ==
  /\ MayShutDown /\ shut = "none"
  /\ shut' = "begun"
  /\ stopQ' = TRUE
  /\ conn' = IF State = "Failed" THEN conn ELSE "Closing"
  /\ UNCHANGED writerVars /\ ShutUnchanged

(* stop_and_reclaim.                                                       *)
StopWriter ==
  /\ shut = "begun"
  /\ shut' = IF handle = "held" THEN "reclaiming" ELSE "finishing"
  /\ handle' = IF handle = "held" THEN "stopped" ELSE handle
  /\ UNCHANGED <<queue, rx, writer, conn, stopQ>> /\ ShutUnchanged

ReclaimWriter ==
  /\ shut = "reclaiming" /\ writer.pc \in {"returned", "gone"}
  /\ shut' = "finishing"
  /\ UNCHANGED <<writerVars, conn, stopQ>> /\ ShutUnchanged

\* Mutant: the aborted shutdown leaves the writer alone.
AbortsGently ==
  /\ shut = "reclaiming" /\ (writer.drain \/ writer.pc = "writing")
  /\ shut' = "finishing"
  /\ UNCHANGED <<handle, queue, rx, writer, conn, stopQ>> /\ ShutUnchanged

(* The global deadline aborts the shutdown: the handle is dropped.         *)
ShutdownAborts ==
  /\ shut = "reclaiming" /\ (writer.drain \/ writer.pc = "writing")
  /\ shut' = "finishing"
  /\ handle' = "dropped"
  /\ UNCHANGED <<queue, rx, writer, conn, stopQ>> /\ ShutUnchanged

FinishShutdown ==
  /\ shut = "finishing"
  /\ shut' = "done"
  /\ conn' = "Closed"
  /\ UNCHANGED <<writerVars, stopQ>> /\ ShutUnchanged

-----------------------------------------------------------------------------
RequesterStep(i) ==
  \/ Notify(i) \/ Send(i) \/ Receive(i) \/ TimesOut(i) \/ Sweep(i) \/ Retire(i)
  \/ Abandon(i) \/ QueueCancel(i) \/ Settle(i) \/ AbortWriter(i)

WriterStep ==
  \/ TakeStop \/ ReturnWriter \/ TakeCancel \/ Take \/ MarkSent \/ WriteCancelled
  \/ FailQueued \/ ExitWriter

ReaderStep == AfterMessage \/ StopTimer \/ StartTimer \/ Expire \/ Publish

ShutdownStep == StopWriter \/ ReclaimWriter \/ ShutdownAborts \/ FinishShutdown

Next ==
  \/ \E i \in Id : \/ \E u \in Upstream \cup {NoUpstream} : Register(i, u)
                   \/ RequesterStep(i) \/ PeerIsCancelled(i) \/ IsDropped(i)
                   \/ Deliver(i) \/ ForwardCancel(i) \/ Answer(i)
  \/ \E u \in Upstream : Prepare(u)
  \/ WriterStep \/ FinishWrite \/ WriteFails
  \/ ReaderStep \/ Chatter \/ TimerElapses \/ Eof
  \/ BeginShutdown \/ ShutdownStep

(* Tasks run and deadlines come.  Nothing obliges the server to read its   *)
(* input, to answer, or to exit; it does fall silent long enough for the   *)
(* liveness timer.                                                         *)
Fairness ==
  /\ \A i \in Id : WF_vars(RequesterStep(i)) /\ WF_vars(Deliver(i)) /\ WF_vars(ForwardCancel(i))
  /\ WF_vars(WriterStep) /\ WF_vars(ReaderStep) /\ WF_vars(ShutdownStep)
  /\ SF_vars(TimerElapses)

Safety == Init /\ [][Next]_vars
Spec == Safety /\ Fairness

-----------------------------------------------------------------------------
(* Properties *)

Frames == { queue[k] : k \in 1..Len(queue) }

TypeOK ==
  /\ entry \in [Id -> {"absent", "Queued", "CancelledQueued", "Writing", "CancelledWriting",
                       "Sent", "CancelledSent"}]
  /\ down \in [Id -> Upstream \cup {NoUpstream}] /\ up \in [Upstream -> SUBSET Id]
  /\ failures \in [Id -> {"none", "ConnectionLost", "RequestTimeout"}]
  /\ accepting \in BOOLEAN /\ epoch \in 0..Cardinality(Id)
  /\ draining \in [Id -> {"none", "error", "cancelled"}]
  /\ waiter \in [Id -> {"new", "notifying", "registered", "waiting", "retiring", "abandoning",
                        "cancelling", "watching", "aborting", "sweeping", "over"}]
  /\ reply \in [Id -> {"none", "answer", "error", "cancelled"}]
  /\ Len(queue) <= QueueCapacity /\ Frames \subseteq [kind : {"request", "cancel"}, id : Id]
  /\ rx \in BOOLEAN /\ startQ \in BOOLEAN /\ stopQ \in BOOLEAN
  /\ writer.pc \in {"select", "writing", "written", "returned", "failing", "exiting", "gone"}
  /\ reader.pc \in {"select", "handled", "expired", "publish", "gone"}
  /\ reader.timer \in 0..epoch /\ reader.enabled \in BOOLEAN
  /\ handle \in {"held", "stopped", "dropped"}
  /\ conn \in {"Ready", "Failed", "Closing", "Closed"}
  /\ failSignal \in {"none", "signalled", "taken"}
  /\ shut \in {"none", "begun", "reclaiming", "finishing", "done"}
  /\ forward \cup begun \cup skipped \cup cancelsOut \subseteq Id

(* The two cancel maps are inverse to each other and name pending requests *)
(* only, whichever of the router's eight ways out an entry took: an        *)
(* editor's cancellation reaches every live request and no dead one.       *)
CancelMapsAgree ==
  \A i \in Id : /\ \A u \in Upstream : i \in up[u] <=> down[i] = u
                /\ down[i] # NoUpstream => Pending(i)

(* Once the router refused admission (reader gone, server hung, write      *)
(* wedged), nothing is left in it and nothing gets in: the tasks that      *)
(* would retire an entry are gone too.                                     *)
ClosedRouterIsEmpty ==
  ~accepting => \A i \in Id : ~Pending(i) /\ down[i] = NoUpstream

(* The router keeps no mapping and no request beyond its time.             *)
RouterIsConsistent == CancelMapsAgree /\ ClosedRouterIsEmpty

(* Every requester still listening has its entry, or its reply, or a reply *)
(* under way: none is left to its deadline because somebody took its entry *)
(* without answering.                                                      *)
AnsweredOrPending ==
  \A i \in Id : Listening(i) => Pending(i) \/ draining[i] # "none" \/ reply[i] # "none"

(* A failure record never outlives the requester that would read it.       *)
NoFailureLeak ==
  \A i \in Id : failures[i] # "none" /\ draining[i] = "none" =>
    \/ Listening(i) /\ reply[i] # "none"
    \/ waiter[i] \in {"abandoning", "sweeping"}

(* A request that waits to be written is in the queue of a writer that     *)
(* will look at it (an aborted writer abandons the queue), and one that is *)
(* being written is the writer's frame.                                    *)
FrameIsOwned ==
  \A i \in Id :
    /\ entry[i] \in {"Queued", "CancelledQueued"} /\ waiter[i] = "waiting"
       => \/ Request(i) \in Frames /\ writer.pc \in {"select", "writing", "written"}
          \/ handle = "dropped"
    /\ entry[i] \in {"Writing", "CancelledWriting"} =>
         writer.msg = Request(i) /\ writer.pc \in {"writing", "written"}

(* The server is told to cancel only requests whose bytes were begun, and  *)
(* never gets a request that was cancelled while it was queued.            *)
CancelsAreExact ==
  /\ cancelsOut \cap (User \cup Peer) \subseteq begun
  /\ skipped \cap begun = {}

(* While a request other than a routing refinement awaits a Ready          *)
(* connection's server, the liveness timer runs or is about to be started. *)
TimerArmed ==
  /\ conn = "Ready" /\ accepting
  /\ reader.enabled /\ ~stopQ
  /\ Awaiting \cap (User \cup Peer) # {}
  => reader.timer # 0 \/ startQ \/ \E i \in Id : waiter[i] = "notifying"

(* Every entry leaves the router, also when the server answers nothing and *)
(* reads nothing: no frame that hangs is kept forever.                     *)
EntriesAreRetired == \A i \in Id : Pending(i) ~> ~Pending(i)
=============================================================================
