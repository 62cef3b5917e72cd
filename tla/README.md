# kakehashi in TLA+

kakehashi is a language server that parses documents with tree-sitter, finds the
regions of other languages embedded in them, and bridges those regions (and the
whole document) to downstream language servers. It is one tokio process: LSP
handlers run as futures beside each other, parsing runs on a compute pool, and
every downstream server has its own connection with a writer and a reader task.

This directory holds TLA+ models of its concurrent core, TLC configurations that
check them on small instances, and proofs for TLAPS. Paths below are relative to
the repository; `lsp/...` stands for `src/lsp/...` of the crate.

* [Inventory](#inventory)
* [Modules](#modules)
* [Runs](#runs)
* [Fairness](#fairness)
* [Proofs](#proofs)
* [Disagreements between the code and its comments](#disagreements)
* [What the models leave out](#what-the-models-leave-out)
* [Plan](#plan)

## Inventory

| Component | State it keeps | Operations | Meets | What is hard |
| --- | --- | --- | --- | --- |
| **Ingress ordering** `lsp/ingress_order.rs` | per document: ticket tail, completion channel, early completions | `call` (ticket or barrier), the future's wait, completion, `finish_close` | every handler; the document store after didSave | futures polled in any order, dropped ones, the entry removed beside later tickets |
| **Document store, snapshots** `document/{store,model,snapshot}.rs` | text, content version, incarnation, edit log and its floor, the snapshot cell, parse watermark | insert, apply_edit, replace, remove, install_parse, complete_parse, publish_giveup, invalidate_all_parses | passes, handlers, readers | optimistic publication: passes hold no lock between capture and install |
| **Parse passes** `lsp/lsp_impl/coordinator/parse.rs` | the inputs a pass captured, its parser, its snapshot | parse_document, reparse_latest, reparse_installed_document, populate_and_install | the store, the parser pool, settings reload | captured inputs go stale at every await; the parser pool's generation |
| **Parse scheduler** `lsp/lsp_impl/parse_scheduler.rs`, `lsp_impl.rs` | one entry per document: running, dirty, ticket | schedule, start_pass, finish, clear | didChange, reload, the loop it spawns | lost wakeups, two loops, an entry without its loop |
| **Lifecycle handlers** `lsp/lsp_impl/text_document/did_*.rs` | none of their own | didOpen, didChange, didSave, didClose | all of the above; virtual documents | a close between two steps of anything else |
| **Settings reload** `lsp/settings_manager.rs`, `lsp_impl.rs` | settings, generation, reload lock | apply, reload_languages_locked | store, parser pool, scheduler | not ordered with the handlers or passes |
| **Snapshot readers** `lsp/lsp_impl/snapshot_read.rs`, `semantic_tokens.rs` | a subscription to the cell, two deadlines | subscribe, look, park, wake, time out | store | a waiter nobody wakes: subscribed to a closed lifetime's cell, or waiting for what is already there |
| **Injection coordination, regions** `document/node_tracker.rs`, `lsp/lsp_impl/coordinator/` | node ids by position, mint epochs, virtual URIs | track, apply edits, invalidate | store, virtual documents | ids minted from a snapshot an edit overtook |
| **Bridge connections** `lsp/bridge/pool.rs`, `pool/` | per key: the mapped handle, its state and process, the debt to reopen (`pending_reopen.rs`), respawn backoff | acquire, handshake, replace, retire, purge, claim, hand off, rearm, sweep | actors, virtual documents, commands | a debt claimed by several tasks, the map's lock held across a purge, a handshake that outlives its process |
| **Bridge actors** `lsp/bridge/actor/` | response router (pending, upstream and downstream ids), write queue, liveness timer | register, claim, send, route, cancel, expire, fail all | connections, upstream cancellation | a response, a cancel, a timeout and a disconnect of one request in any order |
| **Virtual documents** `lsp/bridge/pool/document_tracker.rs` and its users | opened and pending virtual documents, versions | claim open, didChange, didClose, host close, reopen | connections, injection coordination | a host's close against an open in flight; a crash between two notifications |
| **Host documents** `lsp/bridge/` host bridge | host revisions per server | open, sync, close | connections | a sync computed from an older revision |
| **Bridge registries** | progress tokens, inbound requests, dynamic registrations, command origins | remap, clean up | connections | cleanup at disconnect, tokens reused by a respawn |
| **Bridge shutdown** `lsp/bridge/pool/shutdown.rs` | a flag, a snapshot of the connections, one deadline | graceful, then forced | every connection | a replacement under way behind the snapshot; one server's silence at the others' expense |
| **Aggregation** `lsp/aggregation/` | pending answers in priority order | preferred, concatenated fan-in | bridge requests | answers in any order, all empty, all failed, cancelled |
| **Diagnostics** `lsp/diagnostic_cache.rs`, `coordinator/diagnostic*.rs`, `debounced_diagnostics.rs`, `synthetic_diagnostics.rs` | per host: slots by source, a revision, the last set recorded and sent, the wire gate; a debounce timer and one registered pull | record, evict, set pull layer, republish, withhold, wake, register, commit, clear | bridge, lifecycle, parse loop | six kinds of tasks republish one host; publishes withheld, stale, deferred or aborted; a close under all of them |
| **Automatic installation** `lsp/auto_install*` | languages being installed, waiters | claim, finish, reparse | passes, reload | two opens of one language |
| **Compute pool, cancellation** | permits, cancellation flags by request id | run, cancel | passes, requests | a cancel before its request registers |
| **Token and capture caches** `analysis/`, `lsp/` caches | products by document and generation | read, store, invalidate | snapshots | a product of an older snapshot stored after the newer |
| Server lifecycle, language loading, syntax analysis, request handlers, installers, configuration, command line | | | | mostly sequential, or I/O |

`PROJECT.json` lists the same components with their sources and status, and under
`hazards` what each is exposed to at the line where it bites.

What makes the components correct, in a line each: handlers see a document's
writes in wire order; a reader's tree is of the text, the lifetime and the grammar
it claims, and never goes back; one parse loop per document, and none of its edits
forgotten; a bridge request has one outcome and leaves nothing behind; a
virtual document is opened, changed and closed in that order, once each; a replaced
process is given its documents again before a command that waited for them; a
diagnostic shown belongs to an open document and the newest answer; everything
ends by the shutdown deadline.

## Modules

### `WireOrder`, `IngressOrder`: handlers in wire order

`WireOrder` is the promise: requests arrive on one wire; a request's handler may start
when the *writers* of the same document before it are over; any future may be
dropped. It knows no tickets.

`IngressOrder` is the middleware. `wire`, `pc` and `gate` are the requests received,
how far each one's future is, and what `call` gave it; `seqs` holds every
`DocSeq` ever allocated (its `tail`, its completion ledger as `done` and `early`), and
`docs` names the one in the `DashMap` for each document. A DocSeq removed from the map
lives on in the gates that hold it, which is why the model never frees one.

| Action | Code |
| --- | --- |
| `CallWriter`, `CallFirstWriter` | `issue_writer_ticket`, run synchronously in `call` |
| `CallReader` | `reader_barrier_and_tail` |
| `Start` | `WriterGate::wait_turn`, `ReaderBarrier::wait` |
| `FinishWriter`, `FinishReader` | the handler returned: drop the gate (`DocCompletion::complete`), then `finish_close` for a didClose, or a didSave that found no document |
| `DropWriter`, `DropReader` | the future is dropped, waiting or running: `Drop` completes the ticket |

`open` is all that the model knows of the handlers: whether the store has the document.
`Completions` computes the ledger's cascade without recursion: the set of its possible
ends has one member.

### `DocumentStore`: a document and the passes that parse it

One document. `doc` is the `Document` with its snapshot cell; a text is named by the
version that wrote it and a tree by what it was parsed from. `pass[p]` is a parse pass: what
it captured under the read guard, then the parser it holds, the tree it got, the check and
the snapshot it will install. `pool` is the parser pool's generation and its
`reloading` flag, and `reload` how far a settings reload is, a synchronous stretch that
other threads see in the middle.

| Action | Code |
| --- | --- |
| `DidOpen` | `did_open_impl`: insert, then the open parse or an auto-install |
| `DidChange` | `apply_edit` with an incremental or a full sync |
| `DidClose` | `remove_preserving_edit_lock` |
| `ReloadBegins` .. `ReloadFinishes` | `reload_languages_locked` step by step |
| `CaptureForOpen`, `CaptureLatest`, `CaptureAttempt` | the three passes' reads of their inputs |
| `AcquireParser`, `ReleaseParser`, `RetryParse`, `ParseYieldsNothing` | `parse_with_pool` |
| `FinishWithoutTree` | a pass with no tree |
| `Latch`, `InstallSingle`, `InstallFirst`, `Complete` | `populate_and_install`: tree first, regions later |
| `InstallFails`, `InstallSucceeds`, `ResolveInstalled` | the auto-install and `reparse_installed_document` |
| `GiveUp` | `publish_giveup` |

The history field `sound` says whether a tree meets tree-sitter's incremental contract:
it was parsed from scratch, or from a sound tree of the same language and grammar with
exactly the edits since that tree's text replayed onto it.

### `SnapshotReads`: a reader of the store

`DocumentStore` with one reader beside it: requests never parse, they take what is published or park on the
snapshot cell. `reader` is where it is, the lifetime whose cell it subscribed to, and whether that cell changed
since. A reader subscribes and looks in two steps (`Subscribe`, `Look`: `subscribe_snapshots` and
`latest_snapshot`), and everything the store and its passes do comes between them. A cell notifies
(`Notifies`) when something is published into it, when regions are added, when a reload takes its tree and
when its document closes; an edit does not notify. A woken reader starts over, as the loops of
`wait_for_current_snapshot_in` and `snapshot_for_tokens` do.

### `ParseScheduler`: the loop behind didChange

One document again, with versions for texts. `entry` is the scheduler's map entry, `loop[l]`
a spawned loop with its ticket and the inputs it read, `opener[i]` the parse the i-th didOpen
spawned, `wm` the watermark readers wait for. Two history variables: `unread` (a scheduled
text no pass has read) and `resolved` (the newest writer whose text a finished pass
read). Its handlers run one at a time, which is what `IngressOrder` shows; its passes
publish what `DocumentStore` admits, here only the version.

| Action | Code |
| --- | --- |
| `EditText`, `ScheduleEdit` | `did_change_impl` up to `apply_edit`, and its `schedule_reparse` |
| `Reload`, `ScheduleReload` | `invalidate_all_parses`, and the later `schedule_reparse` of what was open |
| `StartPass` .. `Finish` | the spawned loop: `start_pass`, `reparse_latest`, watermark, the closed check, downstream, `finish` |
| `Stop` | `clear`, a moment after what called for it |
| `Panic` | `ParseLoopGuard` |
| `OpenerReads`, `OpenerInstalls`, `OpenerAdvances` | `parse_document`, `reparse_installed_document` |

### `BridgeRequests`: the requests of one downstream connection

A connection that is Ready, with the tasks around its `ResponseRouter`. `entry`, `down`, `up`,
`failures`, `accepting` and `epoch` are the router's state under its mutex, and `draining` what an
operation that has unlocked it still owes to the requesters. `waiter[i]` is how far request i's
requester is, `reply[i]` its oneshot; `queue`, `rx`, `writer` and `handle` are the outbound queue and the
writer task; `reader` with `startQ`, `stopQ` and `failSignal` the reader and its liveness timer. There
are three kinds of requests: `User` (the editor's, carrying an upstream id), `Peer`
(`kakehashi/bridge/peer/request`, whose cleanup watches a cancelled entry) and `Routing` (refinements that
do not start the timer). One router operation is one step, and what its caller does after
unlocking is another.

| Action | Code |
| --- | --- |
| `Register`, `Notify`, `Send`, `Receive` | `register_request_with_upstream`, `send_request`, `wait_for_response_inner` |
| `TimesOut`, `Retire` | `wait_for_response_until` and `retire_on_timeout` |
| `IsDropped`, `Sweep` | the requester's task is dropped: `RouterCleanupGuard` |
| `PeerIsCancelled`, `Abandon`, `QueueCancel`, `Settle`, `AbortWriter` | `abandon_in_flight`, `cancel_peer`, `cleanup_cancelled_peer` with `expire_peer_cancel`, `fail_and_abort_writer` |
| `Prepare`, `ForwardCancel` | `$/cancelRequest` of the editor: `prepare_cancel_by_upstream`, then the frames it asks for |
| `Take`, `TakeCancel`, `FinishWrite`, `WriteFails`, `MarkSent` | `writer_loop`: `claim_for_write`, the write, `mark_sent` |
| `TakeStop`, `ReturnWriter`, `WriteCancelled`, `FailQueued`, `ExitWriter` | the writer's ways out |
| `Answer`, `Chatter`, `AfterMessage` | `route` and what the reader does after each message |
| `StartTimer`, `StopTimer`, `TimerElapses`, `Expire`, `Publish` | the liveness timer and `fail_all_if_awaiting_downstream` |
| `Eof` | the server's output ends: `fail_all` |
| `BeginShutdown` .. `FinishShutdown` | `graceful_shutdown_inner`, and its abort at the global deadline |
| `Deliver` | the replies that `fail_request`, `fail_all` and a skipped frame send after unlocking |

### `TextSync`, `VirtualDocuments`: what a server is told of its documents

`TextSync` is the promise to one server process: didOpen only of a closed document, didChange only of an
open one and with a greater version, a new process knows nothing. `VirtualDocuments` implements it under the
refinement `server <- wire`.

It is the tracker of `document_tracker.rs` for one connection key (`generation`, `versions`, `fingerprints`, `claims`,
`openedOn`, `registered`, one field of the code each), the tasks that go through it, and the process it speaks to.
The code's locks are variables that name their holder (`connections`, `transition`, `editLock`, `lifecycle`), so that a
deadlock of the tasks would be one of the model. A task (`at[t]`) moves from one await to the next;
what it read before the await it carries along and may find stale. `delivered` is history: the content the last pass has
forwarded of a document, until the next pass takes it up or a repair sends its own.

| Action | Code |
| --- | --- |
| `Ask`, `Fetch`, `BeginRepair`, `RepairNext` | who opens: a request (`pool/execute.rs`), an eager open, the sweep after a respawn |
| `Enter`, `CheckLive`, `TakeClaim`, `AlreadyOpen`, `Unsettled` | `ensure_document_opened_with_content` up to its claim, and the ways it has nothing to do |
| `SendOpen`, `Promote`, `RecordOpen` | the didOpen, its own task that marks it sent, and the opener's record |
| `Abort`, `CleanUp` | the opener is dropped at an await; its guard's task rolls the claim back |
| `Edit`, `BeginPass` | the host's text moves; the downstream half of a pass: `cancel_eager_open`, what is no longer wanted |
| `BeginClose`, `EndLifetime`, `TakeAll` | `close_document_lifecycle` |
| `FetchForClose`, `CloseDocument`, `Invalidate` | `close_virtual_doc`, and the retirement of a connection that would not take the didClose |
| `RecordLatest` .. `RecordChange` | the forward of a region's new content: `did_change.rs` |
| `Crash`, `Handshake`, `Replace`, `PurgeVersions` .. `PurgeEnds`, `AbortReplace`, `SpawnFirst` | the process dies; `purge_connection` await by await under the map's lock; the acquisition is dropped in it |

### `Connections`: the processes of one key, and the debt to reopen

Handles are numbered by their process. `mapped` is the key's entry in `connections`, `lock` the holder of the map's
lock across awaits; `state`, `running` and `handshake` are a handle's stored state, its process and its handshake
task; `shutdown`, `shuttingDown` and `teardown` what ends it.

A replaced process leaves a debt: its documents must be opened in the replacement before a command that names them is
sent. `armed` and `inFlight` are the two maps of `PendingReopenRegistry`; `barrier[b]` is the watch channel the b-th claim made,
with `sender` saying who holds its sending half (the handshake, the channel to the sweep, the sweep, nobody) and `todo`,
`exempt` and `repaired` the sweep's work. Three history variables carry the properties: `promise[h]` (the
barrier that covered h's Ready), `usurped` and `faults`.

| Action | Code |
| --- | --- |
| `SpawnFirst`, `BeginReplace`, `Replace`, `SpawnFails` | `get_or_create_connection_resolved` with a failed, closed or reconfigured entry |
| `BeginRetire`, `BeginInvalidate`, `PurgeArms`, `AbortPurge`, `Remove` | `retire_invalidated_connections`, the retirement after a failed didClose, the purge that arms the debt, and its abort |
| `Answered`, `Publish`, `ClaimLate`, `HandOff` | the handshake task: claim, publish Ready, claim what was armed meanwhile, give the claim to the sweep |
| `HandshakeFails`, `StoreFailed`, `HandshakeTimesOut`, `Crash`, `WriterWedges` | its failures, and those of the process |
| `BeginSweep` .. `SweepPanics`, `StopForwarding` | the sweep in `lifecycle.rs`, and the end of the loop that starts it |
| `FindConnection` .. `SendCommand` | `dispatch_execute_command`, `wait_for_reopen`, `send_execute_command_on_handle` |
| `ArmForDivert`, `HandOffReady`, `DivertFails` | a recovery whose demand now routes to this key |
| `BeginShutdownAll`, `Snapshot`, `ShutdownTimesOut`, `KillAll`, `EndGraceful`, `EndTeardown` | `shutdown_all_with_timeout`, `force_kill_all`, the detached teardown of a retired handle |

### `DiagnosticPublish`: what the editor is shown

One host document with one region and one push server. `pull`, `slots`, `revision` and `allocated` are the cache of
`DiagnosticAggregator`, `recorded`, `onWire` and `gate` what it remembers of its publishes, `trail` the trailing publishes that
wait for the quiet window. A merge is the pull layer with the lineage it was computed for, and the version of the text the
region's push is anchored at. Whoever republishes (`rep[p]`: the consumer of pushes, the registered pull, the parse loop, a close, a
prefetch, a trailing publish) queues for the republish lock (`queue`, in order) and goes through the steps of
`republish_core`, between which the cache may move. `shownAt` is history: how old the shown merge is.

| Action | Code |
| --- | --- |
| `Begin`, `Compare`, `Admit`, `Send`, `SendClosed` | `republish_core`: snapshot and merge; compare and record; the wire gate; the send with its commit; a closed host's send |
| `ScheduleLatest`, `Park`, `TrailWakes`, `TrailDies` | `schedule_stale_wire_retry`, `spawn_trailing_wire_publish` and its wake |
| `Resolve`, `RecordPush`, `ServerDies` | the consumer: `record_region_push` before and after its await, `evict_connection_diagnostics` |
| `TimerFires`, `Save`, `SaveRegisters`, `TreeCame`, `Commit` | the debounced and the saved pull: `register_task_for_lineage`, `commit_synthetic_diagnostics_when_current` |
| `Prefetch`, `PrefetchCommits` | the pull of a forwarded refresh |
| `OpenParsed`, `OpenRegisters`, `Pass`, `Remerge`, `Prepare`, `Arm` | the open parse's tail and the parse loop's, up to the debounce timer |
| `DidOpen`, `DidChange`, `Invalidate`, `DidClose`, `Evicts`, `Forgets` | the handlers under the edit lock; `clear_host` before and after its republish |

### How they compose

`IngressOrder` justifies that `DocumentStore` and `ParseScheduler` let one writing handler
at a time act. `DocumentStore` leaves open *when* a pass runs (`CaptureLatest` at
any moment), so its safety holds under every schedule and in particular that of
`ParseScheduler`; `ParseScheduler` has of the store only "admitted when newer". `SnapshotReads` is the
composition of the store with its readers.

`VirtualDocuments` and `Connections` look at the same respawn from two sides. `Connections` has of the purge only
that it takes several steps under the map's lock and arms the debt; `VirtualDocuments` has of the debt
only that some repair sweep may run, whenever. `BridgeRequests` is one Ready connection of `Connections`; its
`graceful_shutdown` is the step `EndGraceful` there.

`DiagnosticPublish` has of the parse loop of `ParseScheduler` its downstream tail, and of `VirtualDocuments` only which region's
virtual document a push can name.

## Runs

| Run | Checks | Bounds, and why they are enough |
| --- | --- | --- |
| `ingress_order` | `TypeOK`, `NoOvertaking`, `EntriesAreExact`, `ImplementsWireOrder`, `EveryRequestIsOver` | four requests on one document, with fairness: a removed entry with a straggler, a fresh entry and a writer in it. Sequencing is per document; several documents are the proof's |
| `store_reload` | `TreesAreSound`, `SnapshotNeverRegresses` | two passes, three versions, one reload, a parser that is there or has to be installed, a seed cap of one edit so that it overflows |
| `store_lifetimes` | `TypeOK`, `SnapshotIsFaithful`, `TreesAreSound`, `ParkedReaderIsOwed` | `SnapshotReads`: a reader, two passes, two lifetimes of two versions, two languages, one declared, one to be installed, parses that fail |
| `store_blocked` | `TreelessPublishNeverBlocks` is violated | see below |
| `scheduler` | `TypeOK`, `LoopAndEntryAgree`, `NoLostWakeup`, `WatermarkHonest`, `EveryVersionIsParsed` | one lifetime of four versions, a reload, a close and a panic, with fairness; a second loop slot that must stay empty. A reopen is the proofs' and the next run's |
| `scheduler_wakeup` | `NoLostWakeup` is violated | two lifetimes of two versions: see below |
| `bridge_requests` | `TypeOK`, `RouterIsConsistent`, `AnsweredOrPending`, `NoFailureLeak`, `CancelsAreExact`, `TimerArmed`, `FrameIsOwned`, `EntriesAreRetired` | a user's and a peer's request with one upstream id and a queue of one frame, so that it is full for the second and for cancels, or a user's request against a graceful shutdown that drains, waits or is aborted; with fairness. The constraint `Apart` keeps a shutdown and the peer's request out of one behaviour; it only cuts their first steps, which no fairness asks for. Both together, and two requests of one upstream id, are the proofs' |
| `bridge_timer` | `TimerArmed` is violated | a user's request beside a routing request: see below |
| `virtual_documents` | `TypeOK`, `TrackerAgrees`, `NeverWedged`, `ContentConverges`, `ImplementsTextSync`, and no deadlock | one document with two contents; one request, eager open, repair, pass and host close each; one edit, one reopen, one respawn, one dropped frame and one aborted task; versions up to five (`MaxVersion`), which these never reach past. Several documents, passes and respawns are the proof's |
| `virtual_stale` | `NoStaleSkip` is violated | one document with two contents, three passes, three edits, a request, two eager opens and a respawn: see below. The constraint `OnlyForwards` keeps passes that close something and cancelled opens that linger out, so that the one counterexample left is that of the respawn; what it leaves are executions of `Spec` |
| `connections` | `TypeOK`, `DebtIsKept`, `CommandFollowsReopen`, `RepairedMeansHeld`, `NoSpawnAfterSnapshot`, `ShutdownEnds`, `WaitersAreReleased` | a process and its replacement, three claims, two faults or disturbances of any kind (named by `Disturb`), one document, one slot for commands that is used again and again; with fairness |
| `diagnostic_publish` | `TypeOK`, `NothingOutlivesClose`, `SendsInOrder`, `EditorConverges` | two lifetimes; two events among edits, pushes, crashes, saves and prefetches, beside the parses, debounces and pulls that follow by themselves; five trailing publishes; with fairness |

Every race in `DocumentStore` is between one pass and either the handlers or one other pass:
a pass's guards read only the document, never another pass. The same
is true of the scheduler's loops, where the second slot exists to show that it is never used.
A bridge request meets others in the router's counters (what is awaited, the epoch), in the
queue's capacity and in the drains of the whole router; a second request shows each of them, and
one cancellation of the editor is forwarded at a time. The liveness epoch is bounded by
the number of registrations.
In `connections` the bounds were varied by hand: three processes with three claims, two documents, and for the
safety properties two commands or three faults (five million states) show the same.
In `diagnostic_publish` two events are what a hazard takes: one that leaves a publish withheld, stale or in flight, and one
that meets it; the close, the reopen and the pulls come on top. `TypeOK` says that a free trailing publish is always left, so five
are enough.

Deadlock is checked in `virtual_documents`, where tasks hold locks across awaits; there a state in which every
task is over may stutter (`Over`). In the other runs a quiescent editor is a legal end, and every counter is bounded.

## Fairness

* `IngressOrder`: `buffer_unordered` polls every future it was given, so a future whose gate
  opened eventually runs and its handler eventually returns (weak fairness of `Progress`). The
  client owes nothing. That a handler *returns* is an assumption on the handlers.
* `ParseScheduler`: the runtime runs spawned tasks and the end of a handler; `Panic`,
  `Shutdown`, edits, closes and reloads are never owed. `EveryVersionIsParsed` assumes that
  a parse of the current version yields a tree (a timeout is a give-up, and the code
  promises nothing after it), and says nothing after a shutdown.
* `BridgeRequests`: tasks run and deadlines come, each task by itself (weak fairness of a requester's
  steps, of the drains it owes, of the writer, the reader and a shutdown). The server owes
  nothing: it need not read its input, answer or exit. `TimerElapses` is strongly fair: the
  timer restarts at every message, and the assumption is that the server is silent for a whole timeout
  again and again while it is armed. A server that writes messages forever and answers none may
  keep a frame that hangs.
* `Connections`: whoever holds the map's lock goes on, a handshake that has its answer publishes and hands off,
  a sweep goes through its documents, and the timers of a shutdown fire (weak fairness each). Nothing is asked
  of a server, an acquisition need not begin, and a command's own timer (`WaitTimesOut`) need not fire:
  `WaitersAreReleased` is what the senders of the barrier owe.
* `DiagnosticPublish`: tasks run, the republish lock is handed on in turn (tokio's mutex is fair), every timer fires (weak fairness of each
  publisher, each trailing publish, the parses, the pulls and what a handler began). Edits, opens, closes, saves, pushes, refreshes and
  crashes are never owed. `EditorConverges` assumes that a parse yields a tree and a pull an answer.
* `DocumentStore`, `SnapshotReads` and `VirtualDocuments` are checked for safety only. That a parked reader is woken is shown as
  `ParkedReaderIsOwed`: it waits on the right cell, for something not there yet, and before the first
  snapshot a pass of its lifetime is under way.

## Proofs

The proof modules hold for every set of documents, loops, passes, languages
and requests and every value of the bounds; they assume at most the modules' named assumptions, and where a
theorem's statement says so: a reopen that finds no loop of its document (`QuietReopen`), a routing request that finds something
awaited (`RoutingFollows`), no abort that leaves the fingerprint of another text (`FreshAborts`), finitely many requests (the types of `BridgeRequests`), as many trailing publishes as
are asked for (the types of `DiagnosticPublish`).

* `IngressOrder`. `IInv` is type correctness with what ties the ledger to the requests: the
  tickets of a DocSeq are exactly those its writers hold, in wire order and once each; a ticket
  is complete (below `done` or in `early`) if and only if its writer's future is over; a document's requests
  hold the DocSeq in the map unless all writers of their DocSeq are over; a reader's barrier is the
  tail it found. It is needed because `NoOvertaking` speaks of requests while the code only sees
  tickets, which restart at 1. From it follow `StartIsInTurn` (an open gate means that every
  earlier writer is over), and with an induction over steps `NoOvertaking`, the safety half of the
  refinement (`RefinesWireOrder`), `LiveEntryKept` and `ClosedEntryReclaimed`, together `EntriesAreExact`.
* `ParseScheduler`. `SingleLoop` and `EntryHasLoop` are not inductive alone: a loop's exit
  clears the entry whoever it belongs to. (The run checks their conjunction, `LoopAndEntryAgree`.) The strengthening `EntryIffLoop` says that the entry is on exactly
  while a loop is live; the proof has one step per action, grouped by
  what it does to entry and loops.
  `NoLostWakeup` and `WatermarkHonest` are false when a document is reopened while the loop of its former lifetime still runs
  (see Disagreements), so they are proved of every behaviour in which that does not happen (`QuietReopen`; the first lifetime is
  always such a one, and so is every later one whose loop had time to stop). `WakeInv` adds to the claim that a loop decides to stop only
  of a document that is gone, which is what a reopen would undo. `HonestInv` adds what the numbers in flight are: the ticket
  an entry, a loop or an opener carries is no later than the text it is about to read, and once that pass is over it is no later than what has been
  resolved.

* `BridgeRequests`. `RouterIsConsistent` is `CancelMapsAgree` and `ClosedRouterIsEmpty`, which need of each other that an entry without a mapping is
  one the maps do not name, and that a registration finds no trace of its own id (`NewIsAbsent`). Whatever
  the step, it moves the router in one of four ways (`RouterStep`): entries keep their presence,
  one is removed with its mappings, all are, or one is admitted by an open router. Lemmas
  show this task by task, and `StepKeepsInvariant` that each way keeps the invariant.
* Deliveries (the second half of `BridgeRequestsProofs`), on top of that invariant. `AnsweredOrPending` and `NoFailureLeak` need that an
  entry that was given up has no listener any more, and that a failure is recorded only of a peer whose entry
  is gone (`DInv`): an entry that leaves the router leaves a reply behind (`Settles`). `FrameIsOwned` needs
  that the writer looks at the queue until its handle is dropped, and that nothing is queued once it drains (`FInv`);
  most steps ask no more of the writer than before (`Calm`). `CancelsAreExact` needs that an entry is queued
  at most once and only before its write, and that of users and peers only begun requests are on any way to
  a `$/cancelRequest`: an upstream's cancellation, a peer's, the queue, the writer's frame (`CInv`).
  The types (`TInv`) need the bound of the queue, and that an epoch begins only with a registration, of which each request has one (`EpochOK`).
* The liveness timer (the end of `BridgeRequestsProofs`). `TimerArmed` is false of a routing request that is registered first (run
  `bridge_timer`), so it is proved of every behaviour in which none is (`RoutingFollows`): that case is the only
  one. `AInv`: what is awaited has an epoch, and while the connection is Ready, its router open and its timer allowed, the timer runs, its
  start was asked for, or a registered request is about to ask. A timer that expires or stops while something is awaited was started for an earlier epoch,
  or everything has been failed.

* `DocumentStore` (`DocumentStoreProofs`). `StoreInv` says that whatever a pass holds is *faithful*: of a lifetime that was
  drawn, and, as long as that lifetime is the open one, the text its version has; and that an
  unpublished lifetime is worked for (`FirstParseOwed`, with what a pass's path to its next
  publication needs: an installing pass waits for the label the document still has). The proof
  splits each step in what it does to the document and what the pass that moves holds next:
  every operation on the document `Keeps` what was captured of it (texts are only added, beyond the
  version), so passes that do not move need no case of their own. `SnapshotIsFaithful` (`SnapshotOfItsText` and
  `RegionsOfTheirTree`) and `FirstParseOwed` follow; `SnapshotNeverRegresses` from how each operation moves the snapshot (`Onwards`).
* `SnapshotReads` (`SnapshotReadsProofs`). The same invariant with `ReaderInv`, what a parked reader's
  subscription says of the cell it waits on, gives `ParkedReaderIsOwed`. A step of the store
  wakes the reader or leaves what it waits for.
* Sound trees (the second half of `DocumentStoreProofs`). `SoundInv` adds to `StoreInv` what makes a seed meet tree-sitter's
  contract: while the snapshot is at or beyond the floor the log holds every write after it
  (`LogOK`; pruning drops only what the snapshot contains, an overflow raises the floor). A pass's
  seed, grammar, tree and snapshot are good *or stale*: the document's snapshot is newer and
  `admits` refuses the pass. A reload makes every pass of its document stale, since it publishes a
  version of its own, and only between its swap and its invalidation may a good seed be of the
  replaced grammar; in that window the pool hands out no parser, and its generation tells a parse that
  began before (`PoolInv`). `TreesAreSound`, which is `NoCorruptTree` and `GrammarIsCurrent`, follows.
  The types (`FitInv`) need that what is in flight has the labels, versions and grammars of its document, and that the regions of a
  snapshot are those of the pass that made it.
* `DiagnosticPublish` (`DiagnosticPublishProofs`). `SendsInOrder` needs the republish lock: whoever has taken its
  snapshot is first in the queue, and read the cache no earlier than what the editor is shown and no later
  than now (`LockInv`). Every step of a publisher is one of four (it queues, leaves, takes its snapshot or goes on with it),
  each with a lemma; every other step only queues or leaves (`Waits`), which is also what an abort of a
  synthetic task in the middle of its republish does. `NothingOutlivesClose` is about a state that only settles after some publishes,
  so what is invariant is a debt (`CloseInv`, with `LockInv`): once didClose has evicted the host (`Dark`), as long as the editor is shown
  anything of it a publish that clears it is queued or under way: didClose's own, the consumer's, or one that already holds an
  empty merge. A publish that was in flight when the host was evicted cannot undo this without leaving the debt: revisions never repeat, so a merge read before is
  told apart at the gate, and what is recorded as sent is what the editor is shown unless the gate says it is dirty. When nothing is in
  flight the debt is paid.
  The types (`PubInv`) include that a trailing publish is always free. A step parks at most one, so only finitely many are ever alive, and that is
  what is proved: of an unlimited supply one is free (`TypeCorrect`), and of any supply everything else holds while one is (`TypedWhileFree`).
* `Connections` (`ConnectionsProofs`). Every theorem of it follows from one invariant, `IInv`, type correctness with six parts.
  `Structure`: barriers are used in the order of their numbers, what the lock of the map protects is there while it is held, how far
  a handshake is and what its handle may be then, and that a command heard only what was said. `Refused`: once a shutdown
  has looked at the map no acquisition holds its lock; this is `NoSpawnAfterSnapshot`. The others are about the debt a
  replaced process leaves: it is recorded, or on its way to a sweep (`DebtInv`); unless somebody else claimed it (`usurped`)
  the successor finds it and claims it itself (`ClaimInv`), and what is in flight from then on, or what a command waits on, is
  no older than that claim (`CoverInv`); what a sweep in flight has passed is open on the process that is mapped *now*, or excused
  (`FreshInv`). The argument rests on the map's lock: between a process and its successor there is a purge
  under that lock, so nothing that was swept for one counts for the other.

* `VirtualDocuments` (`VirtualDocumentsProofs`). One invariant again, `IInv`, of which `TypeCorrect`, `TrackerIsRight`, `OpensAgain` and `SyncRefined` are read off. Whoever works on a
  document holds `connections`, the document's transition lock, or a registration that it took in some generation: `Tasks`
  says what each place of a task may rely on, `Docs` that a lock or claim names a task that knows of it, and how far a purge has
  come. While the tracker speaks of the mapped process (`Intact`: no purge, and the process has not died behind an unlocked map), `Ledgers` balances
  what it says of a document with the process's copy and with the closes that are owed. The fence is the argument
  across a respawn: a purge moves the generation before it clears anything and waits for the documents'
  locks before a new process can begin, so nothing begun for the old one carries the new generation, while
  a promotion, a change or a close that was begun before may still end. `TrackerAgrees` and `NeverWedged` are the ledger without the tasks in flight. For
  `ImplementsTextSync` each of the six steps that reach the process is shown to be the TextSync step it stands for, and all others stutters.
  Most lemmas are one per action (`...Keeps`), over a few shapes of steps: `Quiet` (the tracker stays), `Works` (one document
  under its lock), `Takes`, `Relaxes`, `Clears`, `Fences`, `Spawns`.
* The texts (the end of `VirtualDocumentsProofs`). `ContentConverges` (what the last *pass* brought; a repair that sends ends the claim until the next pass, as a later open may send
  the older recorded text) is false in general: an abort between a didOpen and its record can leave
  a stale fingerprint (run `virtual_stale`). It is proved of every behaviour without such an abort (`ContentIsKept`; an abort there is allowed when the
  fingerprint it finds is gone or of the text just sent). `ContentInv` adds to `IInv`: a pass or close has the host's edit lock from its first step
  to its last, so what it forwards is what is recorded as latest, and nobody owes a close meanwhile (`Editing`, `Forwarding`);
  a fingerprint is of the text the process has, unless whoever sent another is about to record it (`Printed`, `Recording`, `Sent`); and what counts
  as delivered is both what the next open sends and what the process has (`Converged`). Most steps are `Mild`: nothing is sent but closes and
  no fingerprint is written. Each of the others has its own lemma (`...Converges`).

Model-checked only:

* liveness (`EveryRequestIsOver`, `EveryVersionIsParsed`, `EntriesAreRetired`, `ShutdownEnds`, `WaitersAreReleased`,
  `EditorConverges`, the fairness half of `ImplementsWireOrder`), which the prover does not do;
* that the trailing publishes of the checked instance of `DiagnosticPublish` are enough (the last conjunct of its `TypeOK`);
* `ContentConverges` without the hypothesis `FreshAborts`: it holds of one pass beside its openers, closes and a respawn, aborts of every kind
  included (the run); with three passes it fails (`virtual_stale`, next section).

## Disagreements

* **`scheduler_wakeup`**: the loop finds its document closed, and a moment later clears the
  entry. A reopen and an edit in between mark that entry dirty and are forgotten: the text is parsed
  only by the open parse, if at all. `parse_scheduler.rs:41` promises that no edit is lost.
* **`store_blocked`**: the open parse's tree-less publish records no language, and the tree another
  pass parsed of the same version is refused by the language check; `snapshot.rs:162` says that a
  tree-less publish must not block the real parse of its version.
* **`bridge_timer`**: a routing request that is registered first starts the liveness epoch and not the timer;
  a user's request registered beside it finds something awaited already and starts neither. It then awaits a
  server that nothing watches, and a write that hangs stays in the router (its requester's
  own deadline only marks it). `TimerStaysArmed` proves that there is no other way. `response_router.rs:239` decides by what is awaited;
  `ls-bridge-async-connection.md:174` has the timer run whenever requests are pending.
* **`virtual_stale`**: a fingerprint can outlive its process. A forward that has sent its didChange records the fingerprint
  (`did_change.rs:136`) under the document's transition lock, which `purge_connection` takes only at its end: between the two a purge
  on another thread clears the fingerprints (`document_tracker.rs:750`: "so a respawn under the same key
  re-syncs from scratch rather than skipping on a stale fingerprint"), and the old content's is written after that. An open on the new process
  overwrites it, unless its opener is aborted between the promotion and the record (`pool.rs:2828`). An edit
  back to the old content is then skipped as unchanged while the server has another, until the next edit. The counterexample has
  47 steps: three edits, three passes, one respawn, one eager open that the third pass cancels. It breaks `ContentConverges` too, which is why that
  property needs the hypothesis `FreshAborts` to be a theorem; `ContentIsKept` proves that without such an abort it always holds.

Seen while modelling and not asserted by a run:

* The same reopen over a running loop that `scheduler_wakeup` shows also moves the watermark too far: `start_pass` gives the loop its
  ticket before `reparse_latest` reads the text; after a close and a reopen in between, the pass reads the new lifetime's text and
  moves the new lifetime's watermark to the old one's ticket, ahead of writers that no pass has read. The comment at
  `coordinator/parse.rs:1182` rules this out. With `WatermarkHonest` in the place of `NoLostWakeup` the configuration of `scheduler_wakeup` finds it.
* What `virtual_stale` shows needs no respawn when a close comes in the place of the purge: an opener that records its
  fingerprint after a pass has closed and untracked the document leaves it for the next open, with the same consequence if that opener is aborted.
* The registry of debts. `pending_reopen.rs:40` says of a key that it is armed or in flight, never both; a purge that
  arms while an older claim is in flight makes it both. The handshake of a process that has just been
  replaced may then claim the debt that its own purge armed (the model's `usurped`): the replacement becomes Ready with
  no barrier, and a command does not wait. `CommandFollowsReopen` and the second half of `DebtIsKept` are stated
  for the executions without that, and `CommandFollowsReopen` for those in which the loop that receives upstream requests still runs.
* `connection_handle.rs` calls Closed terminal; a handshake's timeout and a second `begin_shutdown` overwrite it.
* An acquisition that is dropped while it purges a connection whose configuration changed leaves a mapped handle that is Closing
  and that no task closes; a shutdown skips it, as somebody else's.
* A handle that reads as Failed when a shutdown takes its snapshot is marked Closed and its process, if it still runs, not killed.
* `snapshot_read.rs:43` says that every edit's parse releases a settled reader's park. A pass that yields no tree publishes
  only while there is no snapshot at all: after an edit that no parse survives the park lasts until its deadline.
* The republish of a closed host is said not to touch the wire gate (`diagnostic_publisher.rs:1400`). One whose merge is stale mints a gate
  all the same and parks a trailing publish, which finds the host closed; `clear_host` forgets the gate, unless a push comes after it.

## What the models leave out

* Only one document at a time in the store and the scheduler: nothing of theirs is shared
  across documents but the parser pool, whose generation and reload flag are modelled.
* A didOpen of a document that is open already; the repair of a missing query when the parser
  itself loads; several changes in one didChange (collapsed to one edit); a language that
  fails to load is merged with a parse that yields nothing.
* The content of texts, trees and regions; detection is "the label, else what the text says".
* The loop's downstream work (bridging, diagnostics), which the scheduler only waits for.
* Of a connection in `BridgeRequests`: its states before Ready, respawn, what the server asks or notifies, a
  notification's frames, shutdown's own request and exit notification. A cancelled reader task, and the
  end of a user's upstream cancellation (its local error is the editor's).
* `FrameIsOwned` exempts a writer whose handle was dropped: a forced termination abandons the queue,
  and its requesters end by their deadlines. It speaks of requests that still wait: the guard of
  a dropped task removes its entry in the middle of a write as well. `CancelsAreExact` is about
  users' and peers' requests: a routing request's cancel is sent whether or not its frame was.
* Of `Connections`: the backoff after repeated failures (`crash_recovery.rs`) and the circuit breaker for handshakes
  that panic, the provenance of a command's arguments and its limit, what a consolidation claims after it waited for Ready (its arming
  is `ArmForDivert`), and the palette commands a replaced server leaves. The signals a forced shutdown sends are one step.
* Of `VirtualDocuments`: scratch documents, the limit on remembered URI provenance, several connections of one
  document (each has its own key, tracker entries and transition locks). `did_change.rs:84` describes an order of the
  purge that is not the code's; the code's is modelled.
* Of `SnapshotReads`: the second look of `current_snapshot`, the regions a reader resolves by itself, cancellation of a
  parked token request. A reader whose cell changed starts over at once.
* Of `DiagnosticPublish`: host pushes (`_self`), the pull-driven filter, publish seals, settings reloads and the retries that wait for a
  language to settle, the refresh of pull clients with its coverage. Messages of the editor and of the wire are not lost. The parse loop's
  stop and clear are one step (`scheduler_wakeup` cuts them), as are its read and its parse; `clear_host` forgets at once. A parse that gives
  up is excluded: its document keeps no geometry and its region pushes stay deferred until the next edit. The clock is a choice: whether
  the quiet time or the longest wait has passed is settled where the gate asks, and a trailing publish that woke at its
  deadline finds one of them passed (`due`).
* Which LSP methods are writers and which readers is a table in `ingress_order.rs`; the model
  takes the kinds as given.

## Plan

In this order, the most important behaviour first; each module written to be proved about.

1. *(done)* `WireOrder`, `IngressOrder`, `DocumentStore`, `ParseScheduler`, and their proofs.
2. *(done)* `BridgeRequests`, all its safety properties proved.
3. *(done)* `TextSync`, `VirtualDocuments`: claims, host close, reopen after a crash, and the refinement.
4. *(done)* `Connections`: states, handshake, replacement, the debt to reopen, shutdown under one deadline. 5. *(done)* `SnapshotReads`, with its proof.
6. The backoff of `crash_recovery.rs` and the circuit breaker, beside `Connections`.
7. *(done)* `DiagnosticPublish`; left of the diagnostics: the refresh of pull clients, seals and reloads. 8. Automatic installation: claims and waiters.
9. Registries: progress tokens, inbound requests, dynamic capabilities, command origins.
10. Aggregation, as operators against a reference definition and as fan-in. 11. Region ids, caches, settings, cancellation by id.

The list of runs is kept short (a dozen), one for each question: what is added merges with or replaces a
run that has become the weaker one.
