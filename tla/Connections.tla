------------------------------ MODULE Connections ------------------------------
(***************************************************************************)
(* The lifecycle of the downstream processes of one connection key: how    *)
(* the pool (lsp/bridge/pool.rs) spawns, replaces, retires and shuts them  *)
(* down, the state machine of their handles (pool/connection_handle.rs),   *)
(* and the registry that makes a replacement process get the documents of  *)
(* its predecessor before a command overtakes them                         *)
(* (pool/pending_reopen.rs, the sweep of lsp_impl/lifecycle.rs and the     *)
(* commands of workspace/execute_command.rs).                              *)
(*                                                                         *)
(* A replaced process leaves a debt: the key is `armed`.  The handshake of *)
(* the replacement claims it before it publishes Ready, which installs a   *)
(* barrier, and hands the barrier to the sweep that opens the documents.   *)
(* Commands wait on the barrier they find.                                 *)
(*                                                                         *)
(* A handle is the number of its process.  A step is what happens between  *)
(* two points where another task can run; while the lock of the connection *)
(* map is held across awaits, `lock` says by whom.                         *)
(***************************************************************************)
EXTENDS Naturals, FiniteSets

CONSTANTS
  Doc,          \* the open documents that route to this key
  Command,      \* executeCommand requests
  MaxHandles,   \* processes spawned
  MaxBarriers,  \* claims made
  MaxFaults     \* faults and disturbances, of any kind (see Disturb)

ASSUME ConnectionsAssumption ==
  /\ MaxHandles \in Nat /\ MaxBarriers \in Nat /\ MaxFaults \in Nat

Handle == 1..MaxHandles
Barrier == 1..MaxBarriers
None == 0

VARIABLES
  mapped,       \* the key's handle in `connections`, or None
  lock,         \* the holder of the map's lock across awaits: [step, by, changed]
  state,        \* state[h]: the stored ConnectionState, "unborn" before the spawn
  running,      \* running[h]: h's process runs and its router accepts
  held,         \* held[h]: the documents process h was sent a didOpen for
  handshake,    \* handshake[h]: h's handshake task: [step, done]
  teardown,     \* the invalidated handles whose detached shutdown runs
  shutdown,     \* shutdown_all: [step, handle]
  shuttingDown, \* the pool's flag
  armed,        \* PendingReopenRegistry: the key owes a re-open
  inFlight,     \* PendingReopenRegistry: the registered barrier, or None
  barrier,      \* barrier[b]: the watch channel b and the work behind it
  command,      \* command[c]: [step, handle, barrier, settled]
  recovery,     \* a recovery that diverts demand from another key to this one is on its way
  forwarding,   \* the loop that receives upstream requests runs
  promise,      \* history: promise[h] is the barrier that covered h's Ready, or None
  usurped,      \* history: a handshake claimed the debt of the process that replaced its own
  faults        \* history: the faults so far

registry == <<armed, inFlight, barrier>>
pool == <<mapped, lock>>
ending == <<teardown, shutdown, shuttingDown>>
handles == <<state, running, held>>
demand == <<command, recovery, forwarding>>
history == <<promise, usurped>>
quiet == <<history, faults>>
vars == <<pool, handles, handshake, ending, registry, demand, quiet>>

-----------------------------------------------------------------------------
(* One more of what the environment may do to the key: a process fails, a  *)
(* task is dropped, the settings change.                                   *)
Disturb == faults < MaxFaults /\ faults' = faults + 1

(* ConnectionHandle *)

(* A process that died reads as Failed before anyone stores it.            *)
State(h) ==
  IF state[h] \in {"Initializing", "Ready"} /\ ~running[h] THEN "Failed" ELSE state[h]

(* begin_shutdown: a Failed handle stays Failed, so that an acquisition    *)
(* that finds it still mapped replaces it.                                 *)
BegunShutdown(h) == IF State(h) = "Failed" THEN state[h] ELSE "Closing"

(* Its documents die with the process.                                     *)
Dies(h) ==
  /\ running' = [running EXCEPT ![h] = FALSE]
  /\ held' = [held EXCEPT ![h] = {}]

-----------------------------------------------------------------------------
(* PendingReopenRegistry *)

(* Nobody runs a command, or its successor is still to come.               *)
Idle == [step |-> "idle", handle |-> None, barrier |-> None, settled |-> FALSE]

Unused == {b \in Barrier : barrier[b].sender = "unused"}
NextBarrier == CHOOSE b \in Unused : \A c \in Unused : b <= c

(* The task that holds the receiver: a command that waits, or that has the *)
(* answer and has yet to look at the registry again.                       *)
Heard(b) == inFlight = b \/ \E c \in Command : /\ command[c].step \in {"waiting", "settled"}
                                               /\ command[c].barrier = b

(* Disarms and installs the barrier in one step, over whatever is there.   *)
Claim(holder, h) ==
  /\ Unused # {}
  /\ armed' = FALSE
  /\ inFlight' = NextBarrier
  /\ barrier' = [barrier EXCEPT ![NextBarrier] = [@ EXCEPT !.sender = holder, !.handle = h]]

\* Mutant: the debt of a claim that is given back is forgotten.
RearmForgets(b) ==
  /\ inFlight' = IF inFlight = b THEN None ELSE inFlight
  /\ barrier' = [barrier EXCEPT ![b].sender = "dropped"]
  /\ UNCHANGED armed

(* rearm(done) and the drop of `done`: a barrier a later claim replaced is *)
(* left alone, and so is the debt that claim settled.                      *)
Rearm(b) ==
  /\ IF inFlight = b
       THEN armed' = TRUE /\ inFlight' = None
       ELSE UNCHANGED <<armed, inFlight>>
  /\ barrier' = [barrier EXCEPT ![b].sender = "dropped"]   \* its handle stays None

(* The message ReopenDocuments; the loop that is gone gives it back.       *)
SendReopen(b, h) ==
  IF forwarding
    THEN /\ barrier' = [barrier EXCEPT ![b] = [@ EXCEPT !.sender = "queued", !.handle = h]]
         /\ UNCHANGED <<armed, inFlight>>
    ELSE Rearm(b)

-----------------------------------------------------------------------------
Init ==
  /\ mapped = None
  /\ lock = [step |-> "free", by |-> "none", changed |-> FALSE]
  /\ state = [h \in Handle |-> "unborn"]
  /\ running = [h \in Handle |-> FALSE]
  /\ held = [h \in Handle |-> {}]
  /\ handshake = [h \in Handle |-> [step |-> "none", done |-> None]]
  /\ teardown = {}
  /\ shutdown = [step |-> "none", handle |-> None]
  /\ shuttingDown = FALSE
  /\ armed = FALSE
  /\ inFlight = None
  /\ barrier = [b \in Barrier |-> [sender |-> "unused", handle |-> None, done |-> FALSE,
                                   todo |-> {}, exempt |-> {}, repaired |-> TRUE]]
  /\ command = [c \in Command |-> Idle]
  /\ recovery = FALSE
  /\ forwarding = TRUE
  /\ promise = [h \in Handle |-> None]
  /\ usurped = FALSE
  /\ faults = 0

-----------------------------------------------------------------------------
(* Acquisition: get_or_create_connection_resolved *)

Unborn == {h \in Handle : state[h] = "unborn"}
NextHandle == CHOOSE h \in Unborn : \A g \in Unborn : h <= g

Free == [step |-> "free", by |-> "none", changed |-> FALSE]

(* The process starts: its handle is Initializing and in the map before    *)
(* the lock is released, and its handshake is a task of its own.           *)
Spawned ==
  /\ mapped' = NextHandle
  /\ state' = [state EXCEPT ![NextHandle] = "Initializing"]
  /\ running' = [running EXCEPT ![NextHandle] = TRUE]
  /\ handshake' = [handshake EXCEPT ![NextHandle].step = "running"]

(* shutdown_invalidated_connection.  Its begin_shutdown finds a handle that *)
(* is Closing or Failed already.                                           *)
TornDown(h) == teardown' = teardown \cup {h}

(* The key has no connection.                                              *)
SpawnFirst ==
  /\ lock.step = "free" /\ ~shuttingDown
  /\ mapped = None /\ Unborn # {}
  /\ Spawned
  /\ UNCHANGED <<lock, held, ending, registry, demand, quiet>>

\* Mutant: a shutdown does not refuse replacements.
BeginReplaceAnyway(changed) ==
  /\ lock.step = "free"
  /\ mapped # None /\ Unborn # {}
  /\ changed \/ State(mapped) \in {"Failed", "Closed"}
  /\ lock' = [step |-> "purging", by |-> "acquire", changed |-> changed]
  /\ state' = IF changed THEN [state EXCEPT ![mapped] = BegunShutdown(mapped)] ELSE state
  /\ IF changed THEN Disturb ELSE UNCHANGED faults
  /\ UNCHANGED <<mapped, running, held, handshake, ending, registry, demand, history>>

(* A connection that failed or closed is replaced, and one whose launch    *)
(* configuration changed whatever its state.                               *)
BeginReplace(changed) ==
  /\ lock.step = "free" /\ ~shuttingDown
  /\ mapped # None /\ Unborn # {}
  /\ changed \/ State(mapped) \in {"Failed", "Closed"}
  /\ lock' = [step |-> "purging", by |-> "acquire", changed |-> changed]
  /\ state' = IF changed THEN [state EXCEPT ![mapped] = BegunShutdown(mapped)] ELSE state
  /\ IF changed THEN Disturb ELSE UNCHANGED faults
  /\ UNCHANGED <<mapped, running, held, handshake, ending, registry, demand, history>>

(* A settings reload, or the consolidation of the per-root instances:      *)
(* retire_invalidated_connections.                                         *)
BeginRetire ==
  /\ lock.step = "free" /\ mapped # None
  /\ lock' = [step |-> "purging", by |-> "retire", changed |-> TRUE]
  /\ state' = [state EXCEPT ![mapped] = BegunShutdown(mapped)]
  /\ Disturb
  /\ UNCHANGED <<mapped, running, held, handshake, ending, registry, demand, history>>

(* A didClose could not be enqueued on process h.                          *)
BeginInvalidate ==
  /\ lock.step = "free" /\ mapped # None
  /\ lock' = [step |-> "purging", by |-> "invalidate", changed |-> FALSE]
  /\ state' = [state EXCEPT ![mapped] = "Failed"]
  /\ TornDown(mapped)
  /\ Disturb
  /\ UNCHANGED <<mapped, running, held, handshake, shutdown, shuttingDown, registry,
                 demand, history>>

(* The tracker's purge is done (VirtualDocuments); the debt is recorded    *)
(* before anything else can run.                                           *)
PurgeArms ==
  /\ lock.step = "purging"
  /\ armed' = TRUE
  /\ lock' = [lock EXCEPT !.step = "armed"]
  /\ UNCHANGED <<mapped, handles, handshake, ending, inFlight, barrier, demand, quiet>>

(* An acquisition, or the invalidation, is dropped at an await of the      *)
(* purge: the entry stays in the map.                                      *)
AbortPurge ==
  /\ lock.step \in {"purging", "armed"} /\ lock.by # "retire"
  /\ lock' = Free
  /\ Disturb
  /\ UNCHANGED <<mapped, handles, handshake, ending, registry, demand, history>>

(* The entry goes; an acquisition spawns the replacement under the same    *)
(* lock.                                                                   *)
Replace ==
  /\ lock.step = "armed" /\ lock.by = "acquire"
  /\ lock' = Free
  /\ Spawned
  /\ IF lock.changed THEN TornDown(mapped) ELSE UNCHANGED teardown
  /\ UNCHANGED <<held, shutdown, shuttingDown, registry, demand, quiet>>

(* The command of the server does not start: no replacement.               *)
SpawnFails ==
  /\ lock.step = "armed" /\ lock.by = "acquire"
  /\ lock' = Free
  /\ mapped' = None
  /\ IF lock.changed THEN TornDown(mapped) ELSE UNCHANGED teardown
  /\ Disturb
  /\ UNCHANGED <<handles, handshake, shutdown, shuttingDown, registry, demand, history>>

Remove ==
  /\ lock.step = "armed" /\ lock.by \in {"retire", "invalidate"}
  /\ lock' = Free
  /\ mapped' = None
  /\ IF lock.by = "retire" THEN TornDown(mapped) ELSE UNCHANGED teardown
  /\ UNCHANGED <<handles, handshake, shutdown, shuttingDown, registry, demand, quiet>>

-----------------------------------------------------------------------------
(* The handshake task *)

Step(h, to) == handshake' = [handshake EXCEPT ![h].step = to]

(* The debt is that of the process that has replaced h or is about to.     *)
Usurps(h) == mapped # h \/ lock.step = "armed"

\* Mutant: the debt is claimed once Ready is published.
AnsweredUnclaimed(h) ==
  /\ handshake[h].step = "running"
  /\ Step(h, "claimed")
  /\ UNCHANGED <<pool, handles, ending, registry, demand, quiet>>

(* The server answered: the debt is claimed before Ready is published.     *)
Answered(h) ==
  /\ handshake[h].step = "running"
  /\ usurped' = (usurped \/ (armed /\ Usurps(h)))
  /\ IF armed
       THEN Claim("handshake", None) /\ handshake' = [handshake EXCEPT ![h] = [step |-> "claimed",
                                                                            done |-> NextBarrier]]
       ELSE Step(h, "claimed") /\ UNCHANGED registry
  /\ UNCHANGED <<pool, handles, ending, demand, promise, faults>>

(* transition_initializing_to_ready: a handle that someone invalidated is  *)
(* not resurrected; its claim goes back.                                   *)
Publish(h) ==
  /\ handshake[h].step = "claimed"
  /\ IF state[h] = "Initializing"
       THEN /\ state' = [state EXCEPT ![h] = "Ready"]
            /\ Step(h, "published")
            /\ promise' = [promise EXCEPT ![h] = handshake[h].done]
            /\ UNCHANGED registry
       ELSE /\ handshake' = [handshake EXCEPT ![h] = [step |-> "ended", done |-> None]]
            /\ IF handshake[h].done # None THEN Rearm(handshake[h].done) ELSE UNCHANGED registry
            /\ UNCHANGED <<state, promise>>
  /\ UNCHANGED <<pool, running, held, ending, demand, usurped, faults>>

(* The claim is handed to the sweep, or one that was armed meanwhile.      *)
LateClaim(h) == handshake[h].done = None /\ armed

\* Mutant: the task keeps a sender of the barrier it handed off.
HandOffKeeps(h) ==
  /\ handshake[h].step = "published"
  /\ ~LateClaim(h)
  /\ Step(h, "ended")
  /\ IF handshake[h].done # None THEN SendReopen(handshake[h].done, h) ELSE UNCHANGED registry
  /\ UNCHANGED <<pool, handles, ending, demand, quiet>>

HandOff(h) ==
  /\ handshake[h].step = "published"
  /\ ~LateClaim(h)
  /\ handshake' = [handshake EXCEPT ![h] = [step |-> "ended", done |-> None]]
  /\ IF handshake[h].done # None THEN SendReopen(handshake[h].done, h) ELSE UNCHANGED registry
  /\ UNCHANGED <<pool, handles, ending, demand, quiet>>

ClaimLate(h) ==
  /\ handshake[h].step = "published"
  /\ LateClaim(h)
  /\ usurped' = (usurped \/ Usurps(h))
  /\ Claim("handshake", None)
  /\ handshake' = [handshake EXCEPT ![h].done = NextBarrier]
  /\ UNCHANGED <<pool, handles, ending, demand, promise, faults>>

(* The handshake fails, the process dead or refusing.  The state is read,  *)
(* and stored in a step of its own.                                        *)
HandshakeFails(h) ==
  /\ handshake[h].step = "running"
  /\ Step(h, IF State(h) \in {"Closing", "Closed"} THEN "ended" ELSE "failed")
  /\ IF running[h] THEN Disturb ELSE UNCHANGED faults
  /\ UNCHANGED <<pool, handles, ending, registry, demand, history>>

StoreFailed(h) ==
  /\ handshake[h].step = "failed"
  /\ Step(h, "ended")
  /\ state' = [state EXCEPT ![h] = "Failed"]
  /\ UNCHANGED <<pool, running, held, ending, registry, demand, quiet>>

HandshakeTimesOut(h) ==
  /\ handshake[h].step = "running"
  /\ Step(h, "ended")
  /\ state' = [state EXCEPT ![h] = "Failed"]
  /\ Disturb
  /\ UNCHANGED <<pool, running, held, ending, registry, demand, history>>

-----------------------------------------------------------------------------
(* The process *)

(* It exits or its stream breaks: the reader fails the router.             *)
Crash(h) ==
  /\ running[h]
  /\ Dies(h)
  /\ Disturb
  /\ UNCHANGED <<pool, state, handshake, ending, registry, demand, history>>

(* The writer is stuck in a write: fail_and_abort_writer.  The process may *)
(* live on until it is seen to end.                                        *)
WriterWedges(h) ==
  /\ running[h] /\ state[h] = "Ready"
  /\ state' = [state EXCEPT ![h] = "Failed"]
  /\ Disturb
  /\ UNCHANGED <<pool, running, held, handshake, ending, registry, demand, history>>

-----------------------------------------------------------------------------
(* The sweep of a barrier: UpstreamRequest::ReopenDocuments *)

Drop(b) == barrier' = [barrier EXCEPT ![b] = [@ EXCEPT !.sender = "dropped", !.todo = {},
                                                       !.exempt = {}, !.repaired = TRUE]]

(* The documents that are open now are its targets.                        *)
BeginSweep(b) ==
  /\ barrier[b].sender = "queued" /\ forwarding
  /\ barrier' = [barrier EXCEPT ![b] = [@ EXCEPT !.sender = "sweeping", !.todo = Doc]]
  /\ UNCHANGED <<pool, handles, handshake, ending, armed, inFlight, demand, quiet>>

(* Nobody can hear the answer any more.                                    *)
SweepStops(b) ==
  /\ barrier[b].sender = "sweeping" /\ barrier[b].todo # {} /\ ~Heard(b)
  /\ Drop(b)
  /\ UNCHANGED <<pool, handles, handshake, ending, armed, inFlight, demand, quiet>>

(* The didOpen of d goes to the connection that is Ready under the key.    *)
SweepOpens(b, d) ==
  /\ barrier[b].sender = "sweeping" /\ d \in barrier[b].todo /\ Heard(b)
  /\ lock.step = "free" /\ mapped # None /\ State(mapped) = "Ready"
  /\ held' = [held EXCEPT ![mapped] = @ \cup {d}]
  /\ barrier' = [barrier EXCEPT ![b].todo = @ \ {d}]
  /\ UNCHANGED <<pool, state, running, handshake, ending, armed, inFlight, demand, quiet>>

\* Mutant: a document that did not open does not count as a failure.
SweepMissesQuietly(b, d, owed) ==
  /\ barrier[b].sender = "sweeping" /\ d \in barrier[b].todo /\ Heard(b)
  /\ barrier' = [barrier EXCEPT ![b] = IF owed THEN [@ EXCEPT !.todo = @ \ {d}]
                                               ELSE [@ EXCEPT !.todo = @ \ {d},
                                                              !.exempt = @ \cup {d}]]
  /\ IF mapped # None /\ State(mapped) = "Ready" THEN Disturb ELSE UNCHANGED faults
  /\ UNCHANGED <<pool, handles, handshake, ending, armed, inFlight, demand, history>>

(* d does not open: no connection is Ready, its parse is not settled, or   *)
(* the queue is full.  A document that was closed since, or that belongs   *)
(* to another connection, is not owed.                                     *)
SweepMisses(b, d, owed) ==
  /\ barrier[b].sender = "sweeping" /\ d \in barrier[b].todo /\ Heard(b)
  /\ barrier' = IF owed THEN [barrier EXCEPT ![b].todo = @ \ {d}, ![b].repaired = FALSE]
                        ELSE [barrier EXCEPT ![b].todo = @ \ {d}, ![b].exempt = @ \cup {d}]
  /\ IF mapped # None /\ State(mapped) = "Ready" THEN Disturb ELSE UNCHANGED faults
  /\ UNCHANGED <<pool, handles, handshake, ending, armed, inFlight, demand, history>>

(* done.send(repaired), and the sender is dropped.  With no receiver left  *)
(* the value is not stored.                                                *)
SweepReports(b) ==
  /\ barrier[b].sender = "sweeping" /\ barrier[b].todo = {}
  /\ barrier' = [barrier EXCEPT ![b] = [@ EXCEPT !.sender = "dropped", !.repaired = TRUE,
                                                 !.done = barrier[b].repaired /\ Heard(b)]]
  /\ UNCHANGED <<pool, handles, handshake, ending, armed, inFlight, demand, quiet>>

SweepPanics(b) ==
  /\ barrier[b].sender = "sweeping"
  /\ Drop(b)
  /\ Disturb
  /\ UNCHANGED <<pool, handles, handshake, ending, armed, inFlight, demand, history>>

\* Mutant: the messages that were not serviced stay in the channel.
StopForwardingKeeps ==
  /\ forwarding /\ shuttingDown
  /\ forwarding' = FALSE
  /\ UNCHANGED <<pool, handles, handshake, ending, registry, command, recovery, quiet>>

(* The server's loop ends: what is queued for it is dropped.               *)
StopForwarding ==
  /\ forwarding /\ shuttingDown
  /\ forwarding' = FALSE
  /\ barrier' = [b \in Barrier |-> IF barrier[b].sender = "queued"
                                     THEN [barrier[b] EXCEPT !.sender = "dropped"]
                                     ELSE barrier[b]]
  /\ UNCHANGED <<pool, handles, handshake, ending, armed, inFlight, command, recovery,
                 quiet>>

-----------------------------------------------------------------------------
(* A command: dispatch_execute_command *)

(* The connection that is Ready under its key, there from the start or     *)
(* after the command waited for a reconnect.                               *)
FindConnection(c) ==
  /\ command[c].step = "idle"
  /\ lock.step = "free" /\ mapped # None /\ State(mapped) = "Ready"
  /\ command' = [command EXCEPT ![c] = [@ EXCEPT !.step = "found", !.handle = mapped]]
  /\ UNCHANGED <<pool, handles, handshake, ending, registry, recovery, forwarding, quiet>>

(* wait_for_reopen                                                         *)
LookForBarrier(c) ==
  /\ command[c].step = "found"
  /\ command' = [command EXCEPT ![c] = IF inFlight = None
                                         THEN [@ EXCEPT !.step = "clear"]
                                         ELSE [@ EXCEPT !.step = "waiting", !.barrier = inFlight]]
  /\ UNCHANGED <<pool, handles, handshake, ending, registry, recovery, forwarding, quiet>>

(* The barrier was settled, or no news will come.                          *)
HearBarrier(c) ==
  /\ command[c].step = "waiting"
  /\ LET b == barrier[command[c].barrier] IN
       /\ b.done \/ b.sender = "dropped"
       /\ command' = [command EXCEPT ![c] = [@ EXCEPT !.step = "settled", !.settled = b.done]]
  /\ UNCHANGED <<pool, handles, handshake, ending, registry, recovery, forwarding, quiet>>

(* The barrier is retired, unless a later claim replaced it.               *)
RetireBarrier(c) ==
  /\ command[c].step = "settled"
  /\ inFlight' = IF inFlight = command[c].barrier THEN None ELSE inFlight
  /\ command' = [command EXCEPT ![c] = IF @.settled THEN [@ EXCEPT !.step = "clear"] ELSE Idle]
  /\ UNCHANGED <<pool, handles, handshake, ending, armed, barrier, recovery, forwarding,
                 quiet>>

\* Mutant: the barrier is retired on a timeout too.
WaitTimesOutRetires(c) ==
  /\ command[c].step = "waiting"
  /\ command' = [command EXCEPT ![c] = Idle]
  /\ inFlight' = IF inFlight = command[c].barrier THEN None ELSE inFlight
  /\ UNCHANGED <<pool, handles, handshake, ending, armed, barrier, recovery, forwarding, quiet>>

(* REOPEN_WAIT is over: the command is refused, the barrier stays.         *)
WaitTimesOut(c) ==
  /\ command[c].step = "waiting"
  /\ command' = [command EXCEPT ![c] = Idle]
  /\ UNCHANGED <<pool, handles, handshake, ending, registry, recovery, forwarding, quiet>>

(* send_execute_command_on_handle: under the map's lock, the handle is     *)
(* still the mapped one and Ready.                                         *)
Sends(c) == mapped = command[c].handle /\ State(mapped) = "Ready"

SendCommand(c) ==
  /\ command[c].step = "clear" /\ lock.step = "free"
  /\ command' = [command EXCEPT ![c] = Idle]
  /\ UNCHANGED <<pool, handles, handshake, ending, registry, recovery, forwarding, quiet>>

-----------------------------------------------------------------------------
(* A recovery of another key whose demand now routes here *)

(* arm_reopen_if_key_changed, before the acquisition.                      *)
ArmForDivert ==
  /\ ~recovery
  /\ recovery' = TRUE
  /\ armed' = TRUE
  /\ Disturb
  /\ UNCHANGED <<pool, handles, handshake, ending, inFlight, barrier, command, forwarding,
                 history>>

(* handoff_ready_reopen: the acquisition found this key's connection       *)
(* Ready, and the debt was armed after its handshake's claim.              *)
HandOffReady ==
  /\ recovery /\ lock.step = "free"
  /\ mapped # None /\ State(mapped) = "Ready"
  /\ recovery' = FALSE
  /\ IF ~armed THEN UNCHANGED registry
     ELSE IF forwarding THEN Claim("queued", mapped)
     ELSE inFlight' = None /\ UNCHANGED <<armed, barrier>>   \* claimed and given back
  /\ UNCHANGED <<pool, handles, handshake, ending, command, forwarding, quiet>>

(* The acquisition failed, or its connection is not Ready any more.        *)
DivertFails ==
  /\ recovery
  /\ recovery' = FALSE
  /\ UNCHANGED <<pool, handles, handshake, ending, registry, command, forwarding, quiet>>

-----------------------------------------------------------------------------
(* The detached shutdown of an invalidated handle, capped at three seconds *)

(* The server answered, or it is killed.                                   *)
EndTeardown(h) ==
  /\ h \in teardown
  /\ teardown' = teardown \ {h}
  /\ state' = [state EXCEPT ![h] = "Closed"]
  /\ Dies(h)
  /\ UNCHANGED <<pool, handshake, shutdown, shuttingDown, registry, demand, quiet>>

-----------------------------------------------------------------------------
(* shutdown_all_with_timeout *)

BeginShutdownAll ==
  /\ shutdown.step = "none"
  /\ shuttingDown' = TRUE
  /\ shutdown' = [shutdown EXCEPT !.step = "flagged"]
  /\ Disturb
  /\ UNCHANGED <<pool, handles, handshake, teardown, registry, demand, history>>

Ended == [step |-> "ended", handle |-> None]

(* graceful_shutdown starts with begin_shutdown.                           *)
Graceful(step, h) ==
  /\ shutdown' = [step |-> step, handle |-> h]
  /\ state' = [state EXCEPT ![h] = BegunShutdown(h)]

(* A live handle gets a graceful shutdown of its own; a Failed one is      *)
(* Closed at once; one that is closing is somebody else's.                 *)
Snapshot ==
  /\ shutdown.step = "flagged" /\ lock.step = "free"
  /\ IF mapped = None \/ State(mapped) \in {"Closing", "Closed"}
       THEN shutdown' = Ended /\ UNCHANGED state
     ELSE IF State(mapped) = "Failed"
       THEN shutdown' = Ended /\ state' = [state EXCEPT ![mapped] = "Closed"]
     ELSE Graceful("waiting", mapped)
  /\ UNCHANGED <<pool, running, held, handshake, teardown, shuttingDown, registry, demand,
                 quiet>>

(* The server answered, or the writer was lost, or it is killed.           *)
EndGraceful(step) ==
  /\ shutdown.step = step
  /\ shutdown' = Ended
  /\ state' = [state EXCEPT ![shutdown.handle] = "Closed"]
  /\ Dies(shutdown.handle)
  /\ UNCHANGED <<pool, handshake, teardown, shuttingDown, registry, demand, quiet>>

\* Mutant: the deadline is enforced on a server that died only.
ShutdownTimesOutIfDead ==
  /\ shutdown.step = "waiting" /\ ~running[shutdown.handle]
  /\ shutdown' = [step |-> "expired", handle |-> None]
  /\ UNCHANGED <<pool, handles, handshake, teardown, shuttingDown, registry, demand, quiet>>

(* The global deadline: the task is aborted.                               *)
ShutdownTimesOut ==
  /\ shutdown.step = "waiting"
  /\ shutdown' = [step |-> "expired", handle |-> None]
  /\ UNCHANGED <<pool, handles, handshake, teardown, shuttingDown, registry, demand, quiet>>

(* force_kill_all: what is mapped and not Closed is shut down again, under *)
(* a cap of three seconds.                                                 *)
KillAll ==
  /\ shutdown.step = "expired" /\ lock.step = "free"
  /\ IF mapped # None /\ State(mapped) # "Closed"
       THEN Graceful("killing", mapped)
       ELSE shutdown' = Ended /\ UNCHANGED state
  /\ UNCHANGED <<pool, running, held, handshake, teardown, shuttingDown, registry, demand,
                 quiet>>

-----------------------------------------------------------------------------
Acquire == SpawnFirst \/ Replace \/ SpawnFails \/ \E changed \in BOOLEAN : BeginReplace(changed)

Invalidate == BeginRetire \/ BeginInvalidate \/ PurgeArms \/ AbortPurge \/ Remove

Shakes(h) ==
  \/ Answered(h) \/ Publish(h) \/ HandOff(h) \/ ClaimLate(h)
  \/ HandshakeFails(h) \/ StoreFailed(h) \/ HandshakeTimesOut(h)

Sweep(b) ==
  \/ BeginSweep(b) \/ SweepStops(b) \/ SweepReports(b) \/ SweepPanics(b)
  \/ \E d \in Doc : SweepOpens(b, d) \/ \E owed \in BOOLEAN : SweepMisses(b, d, owed)

Commands(c) ==
  \/ FindConnection(c) \/ LookForBarrier(c) \/ HearBarrier(c) \/ RetireBarrier(c)
  \/ WaitTimesOut(c) \/ SendCommand(c)

Recover == ArmForDivert \/ HandOffReady \/ DivertFails

Shutdown ==
  \/ BeginShutdownAll \/ Snapshot \/ ShutdownTimesOut \/ KillAll
  \/ EndGraceful("waiting") \/ EndGraceful("killing") \/ StopForwarding

Next ==
  \/ Acquire \/ Invalidate \/ Recover \/ Shutdown
  \/ \E h \in Handle : Shakes(h) \/ Crash(h) \/ WriterWedges(h) \/ EndTeardown(h)
  \/ \E b \in Barrier : Sweep(b)
  \/ \E c \in Command : Commands(c)

Spec == Init /\ [][Next]_vars

(* The holder of the map's lock goes on, tasks are scheduled, and the      *)
(* timers of the shutdown fire.  Nothing is asked of a server, and not     *)
(* that a command's own timer fires.                                       *)
Fairness ==
  /\ WF_vars(PurgeArms) /\ WF_vars(Replace) /\ WF_vars(Remove)
  /\ WF_vars(Snapshot) /\ WF_vars(ShutdownTimesOut) /\ WF_vars(KillAll)
  /\ WF_vars(EndGraceful("killing"))
  /\ \A h \in Handle : WF_vars(Publish(h) \/ HandOff(h) \/ ClaimLate(h))
  /\ \A b \in Barrier : WF_vars(Sweep(b))
  /\ \A c \in Command : WF_vars(HearBarrier(c))

FairSpec == Spec /\ Fairness

-----------------------------------------------------------------------------
LockState == [step : {"free", "purging", "armed"},
              by : {"none", "acquire", "retire", "invalidate"}, changed : BOOLEAN]
HandshakeState == [step : {"none", "running", "claimed", "published", "failed", "ended"},
                   done : Barrier \cup {None}]
ShutdownState == [step : {"none", "flagged", "waiting", "expired", "killing", "ended"},
                  handle : Handle \cup {None}]
BarrierState == [sender : {"unused", "handshake", "queued", "sweeping", "dropped"},
                 handle : Handle \cup {None}, done : BOOLEAN, todo : SUBSET Doc,
                 exempt : SUBSET Doc, repaired : BOOLEAN]
CommandState == [step : {"idle", "found", "waiting", "settled", "clear"},
                 handle : Handle \cup {None}, barrier : Barrier \cup {None}, settled : BOOLEAN]

Types ==
  /\ mapped \in Handle \cup {None} /\ lock \in LockState
  /\ state \in [Handle -> {"unborn", "Initializing", "Ready", "Failed", "Closing", "Closed"}]
  /\ running \in [Handle -> BOOLEAN] /\ held \in [Handle -> SUBSET Doc]
  /\ handshake \in [Handle -> HandshakeState]
  /\ teardown \in SUBSET Handle /\ shutdown \in ShutdownState /\ shuttingDown \in BOOLEAN
  /\ armed \in BOOLEAN /\ inFlight \in Barrier \cup {None}
  /\ barrier \in [Barrier -> BarrierState] /\ command \in [Command -> CommandState]
  /\ recovery \in BOOLEAN /\ forwarding \in BOOLEAN
  /\ promise \in [Handle -> Barrier \cup {None}] /\ usurped \in BOOLEAN
  /\ faults \in 0..MaxFaults

OneOwner ==
  \A b \in Barrier : barrier[b].sender = "handshake" <=>
    \E h \in Handle : /\ handshake[h].done = b
                     /\ \A g \in Handle \ {h} : handshake[g].done # b

(* The types of the variables; the sender of a claim has one owner.        *)
TypeOK == Types /\ OneOwner

IsSent(c) == command[c].step = "clear" /\ command'[c].step = "idle" /\ Sends(c)

(* A command is not sent to a process whose handshake found a debt while   *)
(* the re-open of that debt, and any later one that took its place, is     *)
(* still to come.  Two cases are excluded: executions in which a replaced  *)
(* process's own late handshake claims the debt armed for its successor    *)
(* (usurped), whose promise may then be of an older claim or missing; and  *)
(* the time after the loop that receives upstream requests has ended       *)
(* (~forwarding), when no sweep is started any more.                       *)
CommandFollowsReopen ==
  [][\A c \in Command : IsSent(c) =>
       LET own == promise[command[c].handle] IN
         own # None /\ forwarding /\ ~usurped =>
           \E b \in Barrier : b >= own /\ barrier[b].sender = "dropped"]_vars

(* A command that was told its re-open succeeded reaches a process that    *)
(* holds every document that was owed to it.                               *)
RepairedMeansHeld ==
  [][\A c \in Command : IsSent(c) /\ command[c].settled =>
       Doc \subseteq held[command[c].handle] \cup barrier[command[c].barrier].exempt]_vars

Claimed == {b \in Barrier : barrier[b].sender # "unused"}
LastClaim == CHOOSE b \in Claimed : \A c \in Claimed : c <= b

(* The debt of a replaced process does not vanish: behind a replacement    *)
(* the key is armed, or the last claim is on its way to a sweep or was     *)
(* handed to one; and a replacement that is Ready claimed it itself,       *)
(* unless the handshake of an older process did.                           *)
DebtIsKept ==
  mapped \notin {None, 1} =>
    /\ \/ armed
       \/ /\ Claimed # {}
          /\ \/ barrier[LastClaim].sender = "handshake"
             \/ barrier[LastClaim].handle # None
    /\ state[mapped] = "Ready" /\ ~usurped => promise[mapped] # None

(* A shutdown that took its snapshot of the connections missed none: no    *)
(* process appears behind it.                                              *)
NoSpawnAfterSnapshot ==
  [][shutdown.step \notin {"none", "flagged"} => mapped' \in {mapped, None}]_vars

(* A shutdown ends, whatever the servers and the handshakes do.            *)
ShutdownEnds == shuttingDown ~> shutdown.step = "ended"

(* A command that waits for a re-open is released, one way or the other,   *)
(* without its timeout: whoever holds the sender settles or drops it.      *)
WaitersAreReleased ==
  \A c \in Command : command[c].step = "waiting" ~> command[c].step # "waiting"
=============================================================================
