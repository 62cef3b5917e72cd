--------------------------- MODULE VirtualDocuments ---------------------------
(***************************************************************************)
(* The virtual documents of one downstream connection key: the tracker of  *)
(* lsp/bridge/pool/document_tracker.rs and the tasks that open, change and *)
(* close documents through it, while the process dies and is replaced.     *)
(*                                                                         *)
(* Openers are requests, which open what they need (pool/execute.rs), the  *)
(* eager opens a pass spawns, and the repair sweep of a respawned process  *)
(* (text_document/did_open.rs).  A pass is the downstream half of a parse  *)
(* pass of the host (coordinator/injection.rs): it closes what is no       *)
(* longer wanted, forwards the new contents and spawns an eager open.  The *)
(* host's didClose closes everything.                                      *)
(*                                                                         *)
(* Locks are variables that name their holder: `connections` (the pool's   *)
(* map), transition[d], the host's edit lock and its lifecycle lock.  A    *)
(* step is what happens between two points where another task can run.     *)
(* One host document is modelled; its text is given by the content of each *)
(* region.  A frame that was enqueued reaches its process in order.        *)
(***************************************************************************)
EXTENDS Naturals, FiniteSets

CONSTANTS
  Doc,          \* the virtual documents (regions) of the host
  Text, NoText,
  Request,      \* tasks: requests of the editor
  Eager,        \* eager opens; each is spawned once
  Repair,       \* repair sweeps
  Pass,         \* parse passes of the host
  HostClose,    \* didClose notifications of the host
  Acquirer,     \* the task that finds the connection dead and replaces it
  NoTask,
  NoEntry,      \* a document that has no registration
  MaxVersion, MaxProcesses, MaxEdits, MaxLifetimes, MaxDrops, MaxAborts \* bounds

ASSUME DocumentsAssumption ==
  /\ Doc # {} /\ NoText \notin Text /\ Text # {} /\ NoEntry \notin Nat
  /\ MaxVersion \in Nat \ {0} /\ MaxProcesses \in Nat \ {0} /\ MaxLifetimes \in Nat \ {0}
  /\ MaxEdits \in Nat /\ MaxDrops \in Nat /\ MaxAborts \in Nat

(* A task is of one kind.                                                  *)
ASSUME TasksAssumption ==
  /\ Request \cap (Eager \cup Repair) = {} /\ Eager \cap Repair = {} /\ Pass \cap HostClose = {}
  /\ (Request \cup Eager \cup Repair) \cap (Pass \cup HostClose) = {}
  /\ {Acquirer, NoTask} \cap (Request \cup Eager \cup Repair \cup Pass \cup HostClose) = {}
  /\ Acquirer # NoTask

Opener == Request \cup Eager \cup Repair
Closer == Pass \cup HostClose
Task == Opener \cup Closer

VARIABLES
  handle,       \* the key's entry in `connections`: [state, proc]
  connections,  \* holder of the lock of the pool's connection map
  transition,   \* transition[d]: holder of d's open_transition_lock
  generation,   \* connection_generations
  versions,     \* document_versions; 0: no entry
  fingerprints, \* document_fingerprints
  claims,       \* open_claims: the opener whose claim it is
  openedOn,     \* virtual_to_servers: the documents opened on this connection
  registered,   \* host_to_virtual: the generation of d's entry, or NoEntry
  latest,       \* latest_virtual_contents
  host,         \* the host: [incarnation (0: closed), lifetimes, edits, text]
  editLock,     \* holder of the host's edit lock
  lifecycle,    \* the host's lifecycle lock: [readers, writer]
  at,           \* at[t]: where task t is and what it carries
  cancelled,    \* eager opens that cancel_eager_open aborted
  promoting,    \* openers whose promotion task has not run
  cleanups,     \* openers whose dropped claim guard has not run
  purge,        \* the purge under `connections`: [step, uris, left]
  wire,         \* what the current process made of the frames enqueued to it
  delivered,    \* history: the content the last pass has forwarded
  faults        \* history: [drops, aborts]

tracker == <<generation, versions, fingerprints, claims, openedOn, registered>>
locks == <<connections, transition, editLock, lifecycle>>
side == <<cancelled, promoting, cleanups>>
vars == <<handle, tracker, locks, latest, host, at, side, purge, wire, delivered, faults>>

NoPurge == [step |-> "none", uris |-> {}, left |-> {}]
Idle == [pc |-> "idle", doc |-> CHOOSE d \in Doc : TRUE, left |-> {}, text |-> [d \in Doc |-> NoText],
         gens |-> [d \in Doc |-> NoEntry], live |-> {}, proc |-> 0, gen |-> 0, ver |-> 0, inc |-> 0, ok |-> FALSE]

Gone == [Idle EXCEPT !.pc = "done"]

Goto(t, pc) == at' = [at EXCEPT ![t].pc = pc]

-----------------------------------------------------------------------------
(* The downstream process *)

Closed == [version |-> 0, text |-> NoText]
Misordered == [version |-> MaxVersion + 1, text |-> NoText]

(* A server that gets a frame the protocol forbids is broken for good.     *)
Receive(copy, f) ==
  CASE copy = Misordered -> Misordered
    [] f.kind = "open" -> IF copy = Closed THEN [version |-> 1, text |-> f.text] ELSE Misordered
    [] f.kind = "change" -> IF copy # Closed /\ f.version > copy.version
                              THEN [version |-> f.version, text |-> f.text] ELSE Misordered
    [] f.kind = "close" -> Closed

Open(t) == [kind |-> "open", text |-> t]
Change(v, t) == [kind |-> "change", version |-> v, text |-> t]
Close == [kind |-> "close"]

(* send_notification on a handle of process p: Queued, or dropped because  *)
(* the queue is full.                                                      *)
Queued(p, d, f) ==
  /\ wire' = IF p = handle.proc THEN [wire EXCEPT ![d] = Receive(@, f)] ELSE wire
  /\ UNCHANGED faults

Dropped ==
  /\ faults.drops < MaxDrops
  /\ faults' = [faults EXCEPT !.drops = @ + 1]
  /\ UNCHANGED wire

-----------------------------------------------------------------------------
(* DocumentTracker *)

Claimable(d) == versions[d] = 0 /\ claims[d] = NoTask

\* Mutant: the claim goes, the version it seeded stays.
RollbackKeepsVersion(o, d) ==
  IF claims[d] = o
    THEN /\ claims' = [claims EXCEPT ![d] = NoTask]
         /\ fingerprints' = [fingerprints EXCEPT ![d] = NoText]
         /\ registered' = [registered EXCEPT ![d] = NoEntry]
         /\ UNCHANGED <<generation, versions, openedOn>>
    ELSE UNCHANGED tracker

(* rollback_open_claim_if: only the claim's own owner takes it back.       *)
Rollback(o, d) ==
  IF claims[d] = o
    THEN /\ claims' = [claims EXCEPT ![d] = NoTask]
         /\ versions' = [versions EXCEPT ![d] = 0]
         /\ fingerprints' = [fingerprints EXCEPT ![d] = NoText]
         /\ registered' = [registered EXCEPT ![d] = NoEntry]
         /\ UNCHANGED <<generation, openedOn>>
    ELSE UNCHANGED tracker

\* Mutant: a didOpen that entered the queue of a process since replaced counts.
MarkOpenSentAnyGeneration(o, d) ==
  IF claims[d] \in {o, NoTask}
    THEN /\ claims' = [claims EXCEPT ![d] = NoTask]
         /\ openedOn' = openedOn \cup {d}
         /\ UNCHANGED <<generation, versions, fingerprints, registered>>
    ELSE Rollback(o, d)

(* mark_open_sent, and the rollback of a promotion that came too late.     *)
MarkOpenSent(o, d) ==
  IF generation = at[o].gen /\ claims[d] = o
    THEN /\ claims' = [claims EXCEPT ![d] = NoTask]
         /\ openedOn' = openedOn \cup {d}
         /\ UNCHANGED <<generation, versions, fingerprints, registered>>
    ELSE Rollback(o, d)

\* untrack_document
Untrack(d) ==
  /\ versions' = [versions EXCEPT ![d] = 0]
  /\ fingerprints' = [fingerprints EXCEPT ![d] = NoText]
  /\ openedOn' = openedOn \ {d}
  /\ claims' = [claims EXCEPT ![d] = NoTask]
  /\ UNCHANGED <<generation, registered>>

(* increment_version_if_content_changed: the next version, or 0 when the   *)
(* content is the one last sent or the document is not tracked.            *)
NextVersion(d, t) ==
  IF fingerprints[d] = t \/ versions[d] = 0 THEN 0 ELSE versions[d] + 1

(* remove_host_virtual_docs, take_host_virtual_docs_where and              *)
(* remove_matching_virtual_docs: the registrations go, and with them the   *)
(* documents' visibility, before any didClose is sent.                     *)
Take(S) ==
  /\ registered' = [d \in Doc |-> IF d \in S THEN NoEntry ELSE registered[d]]
  /\ openedOn' = openedOn \ S
  /\ UNCHANGED <<generation, versions, fingerprints, claims>>

Registered == { d \in Doc : registered[d] # NoEntry }

-----------------------------------------------------------------------------
(* Openers: ensure_document_opened_with_content and its callers *)

(* A request asks for d with the content it captured, on a connection that *)
(* is Ready by then (get_or_create_connection waits).                      *)
Ask(q, d) ==
  /\ q \in Request /\ at[q].pc = "idle"
  /\ host.incarnation # 0 /\ handle.state = "ready"
  /\ at' = [at EXCEPT ![q] = [@ EXCEPT !.pc = "asked", !.doc = d, !.left = {d},
                                       !.text = host.text, !.proc = handle.proc]]
  /\ UNCHANGED <<handle, tracker, locks, latest, host, side, purge, wire, delivered, faults>>

(* An eager open reaches its connection once that is Ready.                *)
Fetch(o) ==
  /\ o \in Eager /\ at[o].pc = "spawned" /\ at[o].left # {}
  /\ handle.state = "ready"
  /\ \E d \in at[o].left :
       at' = [at EXCEPT ![o] = [@ EXCEPT !.pc = "asked", !.doc = d, !.proc = handle.proc]]
  /\ UNCHANGED <<handle, tracker, locks, latest, host, side, purge, wire, delivered, faults>>

(* A repair sweep opens every region from the text it resolved, document   *)
(* by document under the host's edit lock, while that text is current.     *)
BeginRepair(r) ==
  /\ r \in Repair /\ at[r].pc = "idle"
  /\ host.incarnation # 0 /\ handle.state = "ready"
  /\ at' = [at EXCEPT ![r] = [@ EXCEPT !.pc = "spawned", !.left = Doc, !.text = host.text,
                                       !.proc = handle.proc,
                                       !.inc = host.incarnation, !.ver = host.edits]]
  /\ UNCHANGED <<handle, tracker, locks, latest, host, side, purge, wire, delivered, faults>>

RepairNext(r) ==
  /\ r \in Repair /\ at[r].pc = "spawned" /\ at[r].left # {}
  /\ editLock = NoTask
  /\ IF host.incarnation = at[r].inc /\ host.edits = at[r].ver
       THEN \E d \in at[r].left :
              /\ editLock' = r
              /\ at' = [at EXCEPT ![r] = [@ EXCEPT !.pc = "asked", !.doc = d]]
       ELSE at' = [at EXCEPT ![r] = Gone] /\ UNCHANGED editLock
  /\ UNCHANGED <<handle, tracker, connections, transition, lifecycle, latest, host, side, purge,
                 wire, delivered, faults>>

(* Requests hold the lifecycle lock shared and ask only that the host is   *)
(* open; the others hold it alone and ask for the lifetime they were       *)
(* spawned in.                                                             *)
Enter(o) ==
  /\ at[o].pc = "asked"
  /\ lifecycle.writer = NoTask
  /\ o \notin Request => lifecycle.readers = {}
  /\ IF host.incarnation # 0 /\ (o \in Request \/ host.incarnation = at[o].inc)
       THEN /\ lifecycle' = IF o \in Request THEN [lifecycle EXCEPT !.readers = @ \cup {o}]
                                             ELSE [lifecycle EXCEPT !.writer = o]
            /\ Goto(o, "entered") /\ UNCHANGED editLock
       ELSE /\ at' = [at EXCEPT ![o] = Gone] /\ UNCHANGED lifecycle
            /\ editLock' = IF editLock = o THEN NoTask ELSE editLock
  /\ UNCHANGED <<handle, tracker, connections, transition, latest, host, side, purge, wire,
                 delivered, faults>>

Released(o) ==
  /\ lifecycle' = [readers |-> lifecycle.readers \ {o},
                   writer |-> IF lifecycle.writer = o THEN NoTask ELSE lifecycle.writer]
  /\ editLock' = IF editLock = o THEN NoTask ELSE editLock
  /\ connections' = IF connections = o THEN NoTask ELSE connections

(* o is done with its document; `go` says whether it goes on to the next.  *)
NextDocument(o, go) ==
  /\ Released(o)
  /\ LET left == at[o].left \ {at[o].doc}
     IN  at' = [at EXCEPT ![o] = IF go /\ left # {} THEN [@ EXCEPT !.left = left, !.pc = "spawned"]
                                                    ELSE Gone]

(* Under `connections`: is the handle still the live one?  If so the       *)
(* generation is read, and o waits for the document's transition lock.     *)
CheckLive(o) ==
  /\ at[o].pc = "entered" /\ connections = NoTask
  /\ IF handle.proc = at[o].proc /\ handle.state = "ready"
       THEN /\ connections' = o
            /\ at' = [at EXCEPT ![o].pc = "locking", ![o].gen = generation]
            /\ UNCHANGED <<lifecycle, editLock>>
       ELSE NextDocument(o, FALSE)
  /\ UNCHANGED <<handle, tracker, transition, latest, host, side, purge, wire, delivered, faults>>

(* With the transition lock: the document is claimed, found open, or left  *)
(* by an owner that is gone, whose claim is rolled back first.             *)
TakeClaim(o) ==
  LET d == at[o].doc IN
  /\ at[o].pc = "locking" /\ transition[d] = NoTask
  /\ Claimable(d) \/ (d \notin openedOn /\ claims[d] # NoTask)
  /\ transition' = [transition EXCEPT ![d] = o]
  /\ versions' = [versions EXCEPT ![d] = 1]
  /\ claims' = [claims EXCEPT ![d] = o]
  /\ registered' = [registered EXCEPT ![d] = IF @ = NoEntry \/ claims[d] # NoTask THEN generation ELSE @]
  /\ fingerprints' = [fingerprints EXCEPT ![d] = IF claims[d] # NoTask THEN NoText ELSE @]
  /\ Goto(o, "claimed")
  /\ UNCHANGED <<handle, generation, openedOn, connections, editLock, lifecycle, latest, host,
                 side, purge, wire, delivered, faults>>

(* The document is open already: a repair brings it up to date             *)
(* (sync_open_document_from_snapshot), the others are content.             *)
AlreadyOpen(o) ==
  LET d == at[o].doc
      t == at[o].text[d]
      v == NextVersion(d, t)
  IN
  /\ at[o].pc = "locking" /\ transition[d] = NoTask
  /\ ~Claimable(d) /\ d \in openedOn /\ v <= MaxVersion
  /\ IF o \notin Repair \/ v = 0
       THEN UNCHANGED <<tracker, wire, delivered, faults>>
       ELSE /\ versions' = [versions EXCEPT ![d] = v]
            /\ \/ /\ Queued(at[o].proc, d, Change(v, t))
                  /\ fingerprints' = [fingerprints EXCEPT ![d] = t]
               \/ Dropped /\ UNCHANGED fingerprints
            /\ delivered' = [delivered EXCEPT ![d] = NoText]
            /\ UNCHANGED <<generation, claims, openedOn, registered>>
  /\ NextDocument(o, TRUE)
  /\ UNCHANGED <<handle, transition, latest, host, side, purge>>

(* "virtual document claim did not settle": a close has taken the document *)
(* and not sent its didClose yet.                                          *)
Unsettled(o) ==
  LET d == at[o].doc IN
  /\ at[o].pc = "locking" /\ transition[d] = NoTask
  /\ ~Claimable(d) /\ d \notin openedOn /\ claims[d] = NoTask
  /\ NextDocument(o, TRUE)
  /\ UNCHANGED <<handle, tracker, transition, latest, host, side, purge, wire, delivered, faults>>

\* Mutant: an open sends the recorded content, which may not exist yet.
OpenRecordedText(o, d) == latest[d]

\* The content of the didOpen: what was forwarded last, or what o was given.
OpenText(o, d) ==
  IF o \notin Repair /\ latest[d] # NoText THEN latest[d] ELSE at[o].text[d]

SendOpen(o) ==
  LET d == at[o].doc
      t == OpenText(o, d)
  IN
  /\ at[o].pc = "claimed"
  /\ \/ /\ Queued(at[o].proc, d, Open(t))
        /\ at' = [at EXCEPT ![o].pc = "sent", ![o].text[d] = t]
        /\ promoting' = promoting \cup {o}
        /\ delivered' = IF o \in Repair THEN [delivered EXCEPT ![d] = NoText] ELSE delivered
        /\ UNCHANGED <<tracker, locks>>
     \/ /\ Dropped
        /\ Rollback(o, d)
        /\ transition' = [transition EXCEPT ![d] = NoTask]
        /\ NextDocument(o, TRUE)
        /\ UNCHANGED <<promoting, delivered>>
  /\ UNCHANGED <<handle, latest, host, cancelled, cleanups, purge>>

(* The promotion is a task of its own: it outlives its opener.             *)
Promote(o) ==
  LET d == at[o].doc IN
  /\ o \in promoting
  /\ MarkOpenSent(o, d)
  /\ at' = [at EXCEPT ![o] = IF @.pc = "done" THEN Gone
                              ELSE [@ EXCEPT !.ok = generation = at[o].gen /\ claims[d] = o]]
  /\ promoting' = promoting \ {o}
  /\ transition' = [transition EXCEPT ![d] = NoTask]
  /\ UNCHANGED <<handle, connections, editLock, lifecycle, latest, host, cancelled, cleanups,
                 purge, wire, delivered, faults>>

(* The opener hears of it and records what it sent.                        *)
RecordOpen(o) ==
  LET d == at[o].doc
      t == at[o].text[d]
  IN
  /\ at[o].pc = "sent" /\ o \notin promoting
  /\ fingerprints' = [fingerprints EXCEPT ![d] = IF at[o].ok THEN t ELSE @]
  /\ NextDocument(o, TRUE)
  /\ UNCHANGED <<handle, generation, versions, claims, openedOn, registered, transition, latest,
                 host, side, purge, wire, delivered, faults>>

(* The task of a request or of an eager open is dropped at an await point. *)
(* A claim in hand is left to the guard's own task.                        *)
Abort(o) ==
  /\ \/ o \in cancelled
     \/ o \in Request /\ faults.aborts < MaxAborts
  /\ at[o].pc \in {"spawned", "asked", "entered", "locking", "claimed", "sent"}
  /\ faults' = IF o \in cancelled THEN faults ELSE [faults EXCEPT !.aborts = @ + 1]
  /\ cleanups' = IF at[o].pc = "claimed" THEN cleanups \cup {o} ELSE cleanups
  /\ transition' = IF at[o].pc = "claimed" THEN [transition EXCEPT ![at[o].doc] = NoTask] ELSE transition
  /\ Released(o)
  /\ at' = [at EXCEPT ![o] = IF o \in cleanups' \cup promoting THEN [@ EXCEPT !.pc = "done"] ELSE Gone]
  /\ UNCHANGED <<handle, tracker, latest, host, cancelled, promoting, purge, wire, delivered>>

(* OpenClaimGuard's Drop.                                                  *)
CleanUp(o) ==
  /\ o \in cleanups /\ transition[at[o].doc] = NoTask
  /\ Rollback(o, at[o].doc)
  /\ cleanups' = cleanups \ {o}
  /\ at' = [at EXCEPT ![o] = Gone]
  /\ UNCHANGED <<handle, locks, latest, host, cancelled, promoting, purge, wire, delivered, faults>>

-----------------------------------------------------------------------------
(* Passes and closes *)

Alive(S) == { o \in S : at[o].pc \notin {"idle", "done"} }

(* An edit moves the text under the host's edit lock.                      *)
Edit ==
  /\ editLock = NoTask /\ host.incarnation # 0 /\ host.edits < MaxEdits
  /\ \E t \in [Doc -> Text] \ {host.text} :
       host' = [host EXCEPT !.edits = @ + 1, !.text = t]
  /\ UNCHANGED <<handle, tracker, locks, latest, at, side, purge, wire, delivered, faults>>

(* process_injections_after_lifecycle_lock: eager opens are cancelled, the *)
(* documents in S are closed because their server is deselected, their     *)
(* region's language changed, or the region is gone.                       *)
BeginPass(p, S, why) ==
  LET taken == S \cap Registered IN
  /\ p \in Pass /\ at[p].pc = "idle"
  /\ editLock = NoTask /\ host.incarnation # 0
  /\ editLock' = p
  /\ cancelled' = cancelled \cup Alive(Eager)
  /\ Take(taken)
  /\ LET gone == CASE why = "deselected" -> {}
                   [] why = "replaced" -> taken
                   [] why = "invalidated" -> S
     IN  /\ latest' = [d \in Doc |-> IF d \in gone THEN NoText ELSE latest[d]]
         /\ delivered' = [d \in Doc |-> IF d \in gone THEN NoText ELSE delivered[d]]
  /\ at' = [at EXCEPT ![p] = [@ EXCEPT !.pc = "closing", !.left = taken, !.gens = registered,
                                       !.text = host.text, !.inc = host.incarnation,
                                       !.live = IF why = "deselected" THEN Doc ELSE Doc \ S]]
  /\ UNCHANGED <<handle, connections, transition, lifecycle, host, promoting, cleanups, purge,
                 wire, faults>>

(* close_document_lifecycle: the lifetime ends first, under the host's     *)
(* lifecycle lock; then every virtual document of the host is closed.      *)
BeginClose(c) ==
  /\ c \in HostClose /\ at[c].pc = "idle"
  /\ editLock = NoTask /\ host.incarnation # 0
  /\ editLock' = c
  /\ Goto(c, "ending")
  /\ UNCHANGED <<handle, tracker, connections, transition, lifecycle, latest, host, side, purge,
                 wire, delivered, faults>>

EndLifetime(c) ==
  /\ at[c].pc = "ending"
  /\ lifecycle = [readers |-> {}, writer |-> NoTask]
  /\ host' = [host EXCEPT !.incarnation = 0]
  /\ latest' = [d \in Doc |-> NoText]
  /\ delivered' = [d \in Doc |-> NoText]
  /\ Goto(c, "ended")
  /\ UNCHANGED <<handle, tracker, locks, side, purge, wire, faults>>

TakeAll(c) ==
  /\ at[c].pc = "ended"
  /\ cancelled' = cancelled \cup Alive(Eager)
  /\ Take(Registered)
  /\ at' = [at EXCEPT ![c] = [@ EXCEPT !.pc = "closing", !.left = Registered, !.gens = registered]]
  /\ UNCHANGED <<handle, locks, latest, host, promoting, cleanups, purge, wire, delivered, faults>>

Reopen ==
  /\ editLock = NoTask /\ host.incarnation = 0 /\ host.lifetimes < MaxLifetimes
  /\ lifecycle = [readers |-> {}, writer |-> NoTask]
  /\ \E t \in [Doc -> Text] :
       host' = [host EXCEPT !.incarnation = host.lifetimes + 1, !.lifetimes = @ + 1, !.text = t]
  /\ UNCHANGED <<handle, tracker, locks, latest, at, side, purge, wire, delivered, faults>>

(* close_virtual_doc: the handle first, then the transition lock.          *)
FetchForClose(c) ==
  /\ at[c].pc = "closing" /\ at[c].left # {} /\ connections = NoTask
  /\ \E d \in at[c].left :
       at' = [at EXCEPT ![c] = [@ EXCEPT !.pc = "close", !.doc = d,
                                  !.proc = IF handle.state = "ready" THEN handle.proc ELSE 0]]
  /\ UNCHANGED <<handle, tracker, locks, latest, host, side, purge, wire, delivered, faults>>

Closing(c, pc) == at' = [at EXCEPT ![c].pc = pc, ![c].left = @ \ {at[c].doc}]

\* Mutant: a close is sent and untracked whatever process was purged meanwhile.
CloseAnyGeneration(c) ==
  LET d == at[c].doc IN
  /\ at[c].pc = "close" /\ transition[d] = NoTask
  /\ IF at[c].proc = 0 THEN UNCHANGED <<wire, faults>> ELSE Queued(at[c].proc, d, Close)
  /\ Untrack(d)
  /\ Closing(c, "closing")
  /\ UNCHANGED <<handle, locks, latest, host, side, purge, delivered>>

CloseDocument(c) ==
  LET d == at[c].doc IN
  /\ at[c].pc = "close" /\ transition[d] = NoTask
  /\ \/ /\ generation # at[c].gens[d]
        /\ Closing(c, "closing")
        /\ UNCHANGED <<tracker, wire, faults>>
     \/ /\ generation = at[c].gens[d]
        /\ IF at[c].proc = 0 THEN UNCHANGED <<wire, faults>> ELSE Queued(at[c].proc, d, Close)
        /\ Untrack(d)
        /\ Closing(c, "closing")
     \/ /\ generation = at[c].gens[d] /\ at[c].proc \in 1..(MaxProcesses - 1)
        /\ Dropped
        /\ Goto(c, "invalidate")
        /\ UNCHANGED tracker
  /\ UNCHANGED <<handle, locks, latest, host, side, purge, delivered>>

(* A pass forwards region by region: the content is recorded, the          *)
(* connections that open or hold the document are listed, and the frame is *)
(* sent under the transition lock.                                         *)
BeginForward(p) ==
  /\ p \in Pass /\ at[p].pc = "closing" /\ at[p].left = {}
  /\ \/ at' = [at EXCEPT ![p].pc = "forward", ![p].left = at[p].live]
     \/ Goto(p, "spawning")
  /\ UNCHANGED <<handle, tracker, locks, latest, host, side, purge, wire, delivered, faults>>

RecordLatest(p) ==
  /\ at[p].pc = "forward"
  /\ IF at[p].left = {}
       THEN Goto(p, "spawning") /\ UNCHANGED <<latest, delivered>>
       ELSE \E d \in at[p].left :
              /\ latest' = [latest EXCEPT ![d] = at[p].text[d]]
              /\ delivered' = [delivered EXCEPT ![d] = NoText]
              /\ at' = [at EXCEPT ![p].pc = "list", ![p].doc = d, ![p].left = @ \ {d}]
  /\ UNCHANGED <<handle, tracker, locks, host, side, purge, wire, faults>>

\* Nothing to send: whatever is opened later takes the recorded content.
Forwarded(p) == delivered' = [delivered EXCEPT ![at[p].doc] = at[p].text[at[p].doc]]

\* Mutant: only the connections that already hold the document are listed.
ListOpened(p) ==
  LET d == at[p].doc IN
  /\ at[p].pc = "list"
  /\ IF d \in openedOn
       THEN Goto(p, "acquire") /\ UNCHANGED delivered
       ELSE Goto(p, "forward") /\ Forwarded(p)
  /\ UNCHANGED <<handle, tracker, locks, latest, host, side, purge, wire, faults>>

ListConnections(p) ==
  LET d == at[p].doc IN
  /\ at[p].pc = "list"
  /\ IF d \in openedOn \/ claims[d] # NoTask
       THEN Goto(p, "acquire") /\ UNCHANGED delivered
       ELSE Goto(p, "forward") /\ Forwarded(p)
  /\ UNCHANGED <<handle, tracker, locks, latest, host, side, purge, wire, faults>>

PinHandle(p) ==
  /\ at[p].pc = "acquire" /\ connections = NoTask
  /\ IF handle.state = "ready"
       THEN /\ connections' = p
            /\ at' = [at EXCEPT ![p].pc = "pinned", ![p].proc = handle.proc]
            /\ UNCHANGED delivered
       ELSE Goto(p, "forward") /\ Forwarded(p) /\ UNCHANGED connections
  /\ UNCHANGED <<handle, tracker, transition, editLock, lifecycle, latest, host, side, purge, wire, faults>>

PrepareChange(p) ==
  LET d == at[p].doc
      v == NextVersion(d, at[p].text[d])
  IN
  /\ at[p].pc = "pinned" /\ transition[d] = NoTask /\ v <= MaxVersion
  /\ connections' = NoTask
  /\ IF d \in openedOn /\ v # 0
       THEN /\ transition' = [transition EXCEPT ![d] = p]
            /\ versions' = [versions EXCEPT ![d] = v]
            /\ at' = [at EXCEPT ![p].pc = "send", ![p].ver = v]
            /\ UNCHANGED delivered
       ELSE Goto(p, "forward") /\ Forwarded(p) /\ UNCHANGED <<transition, versions>>
  /\ UNCHANGED <<handle, generation, fingerprints, claims, openedOn, registered, editLock,
                 lifecycle, latest, host, side, purge, wire, faults>>

SendChange(p) ==
  LET d == at[p].doc IN
  /\ at[p].pc = "send"
  /\ \/ /\ Queued(at[p].proc, d, Change(at[p].ver, at[p].text[d]))
        /\ Goto(p, "record")
        /\ UNCHANGED transition
     \/ /\ Dropped
        /\ Goto(p, "forward")
        /\ transition' = [transition EXCEPT ![d] = NoTask]
  /\ UNCHANGED <<handle, tracker, connections, editLock, lifecycle, latest, host, side, purge,
                 delivered>>

RecordChange(p) ==
  LET d == at[p].doc IN
  /\ at[p].pc = "record"
  /\ fingerprints' = [fingerprints EXCEPT ![d] = at[p].text[d]]
  /\ transition' = [transition EXCEPT ![d] = NoTask]
  /\ Goto(p, "forward") /\ Forwarded(p)
  /\ UNCHANGED <<handle, generation, versions, claims, openedOn, registered, connections,
                 editLock, lifecycle, latest, host, side, purge, wire, faults>>

(* The pass ends: an eager open of the live regions is spawned.            *)
EndPass(p, e) ==
  /\ at[p].pc = "spawning"
  /\ e \in Eager /\ at[e].pc = "idle"
  /\ at' = [at EXCEPT ![p] = Gone,
                      ![e] = IF at[p].live = {} THEN Gone
                             ELSE [@ EXCEPT !.pc = "spawned", !.left = at[p].live,
                                            !.text = at[p].text, !.inc = at[p].inc]]
  /\ editLock' = NoTask
  /\ UNCHANGED <<handle, tracker, connections, transition, lifecycle, latest, host, side, purge,
                 wire, delivered, faults>>

EndClose(c) ==
  /\ c \in HostClose /\ at[c].pc = "closing" /\ at[c].left = {}
  /\ at' = [at EXCEPT ![c] = Gone]
  /\ editLock' = NoTask
  /\ UNCHANGED <<handle, tracker, connections, transition, lifecycle, latest, host, side, purge,
                 wire, delivered, faults>>

-----------------------------------------------------------------------------
(* The process dies and is replaced *)

Crash ==
  /\ handle.state = "ready" /\ handle.proc < MaxProcesses
  /\ handle' = [handle EXCEPT !.state = "failed"]
  /\ UNCHANGED <<tracker, locks, latest, host, at, side, purge, wire, delivered, faults>>

Handshake ==
  /\ handle.state = "initializing"
  /\ \E s \in {"ready", "failed"} :
       /\ s = "failed" => handle.proc < MaxProcesses
       /\ handle' = [handle EXCEPT !.state = s]
  /\ UNCHANGED <<tracker, locks, latest, host, at, side, purge, wire, delivered, faults>>

\* Mutant: the purge leaves the generation alone.
PurgeBeginsSameGeneration(t) ==
  /\ connections = NoTask
  /\ connections' = t
  /\ purge' = [step |-> "versions", uris |-> {}, left |-> Doc]
  /\ UNCHANGED tracker

(* purge_connection: the generation moves first.                           *)
PurgeBegins(t) ==
  /\ connections = NoTask
  /\ connections' = t
  /\ generation' = generation + 1
  /\ purge' = [step |-> "versions", uris |-> {}, left |-> Doc]
  /\ UNCHANGED <<versions, fingerprints, claims, openedOn, registered>>

(* SpawnNew over a stale entry (get_or_create_connection_resolved).        *)
Replace ==
  /\ handle.state = "failed"
  /\ PurgeBegins(Acquirer)
  /\ UNCHANGED <<handle, transition, editLock, lifecycle, latest, host, at, side, wire, delivered, faults>>

(* invalidate_connection_after_didclose_failure: only the handle that      *)
(* failed is retired.                                                      *)
Invalidate(c) ==
  /\ at[c].pc = "invalidate" /\ connections = NoTask
  /\ IF handle.proc = at[c].proc /\ handle.state # "none"
       THEN /\ handle' = [handle EXCEPT !.state = "failed"]
            /\ PurgeBegins(c)
            /\ Goto(c, "purging")
       ELSE Closing(c, "closing") /\ UNCHANGED <<handle, tracker, connections, purge>>
  /\ UNCHANGED <<transition, editLock, lifecycle, latest, host, side, wire, delivered, faults>>

(* The version map is taken, and says which documents to hide.             *)
PurgeVersions ==
  /\ purge.step = "versions"
  /\ versions' = [d \in Doc |-> 0]
  /\ purge' = [purge EXCEPT !.step = "index", !.uris = { d \in Doc : versions[d] # 0 }]
  /\ UNCHANGED <<handle, generation, fingerprints, claims, openedOn, registered, locks, latest,
                 host, at, side, wire, delivered, faults>>

PurgeIndex ==
  /\ purge.step = "index"
  /\ fingerprints' = [d \in Doc |-> NoText]
  /\ openedOn' = openedOn \ purge.uris
  /\ purge' = [purge EXCEPT !.step = "rest"]
  /\ UNCHANGED <<handle, generation, versions, claims, registered, locks, latest,
                 host, at, side, wire, delivered, faults>>

PurgeRest ==
  /\ purge.step = "rest"
  /\ registered' = [d \in Doc |-> NoEntry]
  /\ claims' = [d \in Doc |-> NoTask]
  /\ purge' = [purge EXCEPT !.step = "wait"]
  /\ UNCHANGED <<handle, generation, versions, fingerprints, openedOn, locks, latest,
                 host, at, side, wire, delivered, faults>>

(* purge_open_transition_locks waits for every holder in turn.             *)
PurgeWaits(d) ==
  /\ purge.step = "wait" /\ d \in purge.left /\ transition[d] = NoTask
  /\ purge' = [purge EXCEPT !.left = @ \ {d}]
  /\ UNCHANGED <<handle, tracker, locks, latest, host, at, side, wire, delivered, faults>>

(* The stale entry goes last; an acquirer spawns the replacement while it  *)
(* still holds the map.                                                    *)
PurgeEnds ==
  /\ purge.step = "wait" /\ purge.left = {}
  /\ purge' = NoPurge
  /\ connections' = NoTask
  /\ IF connections = Acquirer
       THEN /\ handle' = [state |-> "initializing", proc |-> handle.proc + 1]
            /\ wire' = [d \in Doc |-> Closed]
            /\ UNCHANGED at
       ELSE /\ handle' = [handle EXCEPT !.state = "none"]
            /\ Closing(connections, "closing")
            /\ UNCHANGED wire
  /\ UNCHANGED <<tracker, transition, editLock, lifecycle, latest, host, side, delivered, faults>>

(* The acquiring task is dropped at an await of its purge: the stale entry *)
(* is left for the next acquisition, which purges again.                   *)
AbortReplace ==
  /\ connections = Acquirer /\ faults.aborts < MaxAborts
  /\ purge.step # "index"
  /\ faults' = [faults EXCEPT !.aborts = @ + 1]
  /\ connections' = NoTask
  /\ purge' = NoPurge
  /\ UNCHANGED <<handle, tracker, transition, editLock, lifecycle, latest, host, at, side, wire, delivered>>

SpawnFirst ==
  /\ handle.state = "none" /\ connections = NoTask
  /\ handle' = [state |-> "initializing", proc |-> handle.proc + 1]
  /\ wire' = [d \in Doc |-> Closed]
  /\ UNCHANGED <<tracker, locks, latest, host, at, side, purge, delivered, faults>>

-----------------------------------------------------------------------------
Init ==
  /\ handle = [state |-> "ready", proc |-> 1]
  /\ connections = NoTask /\ transition = [d \in Doc |-> NoTask]
  /\ editLock = NoTask /\ lifecycle = [readers |-> {}, writer |-> NoTask]
  /\ generation = 0
  /\ versions = [d \in Doc |-> 0] /\ fingerprints = [d \in Doc |-> NoText]
  /\ claims = [d \in Doc |-> NoTask] /\ openedOn = {}
  /\ registered = [d \in Doc |-> NoEntry]
  /\ latest = [d \in Doc |-> NoText]
  /\ \E t \in Text : host = [incarnation |-> 1, lifetimes |-> 1, edits |-> 0, text |-> [d \in Doc |-> t]]
  /\ at = [t \in Task |-> Idle]
  /\ cancelled = {} /\ promoting = {} /\ cleanups = {}
  /\ purge = NoPurge
  /\ wire = [d \in Doc |-> Closed]
  /\ delivered = [d \in Doc |-> NoText]
  /\ faults = [drops |-> 0, aborts |-> 0]

OpenerSteps(o) ==
  \/ Fetch(o) \/ BeginRepair(o) \/ RepairNext(o) \/ Enter(o) \/ CheckLive(o)
  \/ TakeClaim(o) \/ AlreadyOpen(o) \/ Unsettled(o) \/ SendOpen(o) \/ Promote(o)
  \/ RecordOpen(o) \/ Abort(o) \/ CleanUp(o)
  \/ \E d \in Doc : Ask(o, d)

CloserSteps(c) ==
  \/ \E S \in SUBSET Doc, why \in {"deselected", "replaced", "invalidated"} : BeginPass(c, S, why)
  \/ BeginClose(c) \/ EndLifetime(c) \/ TakeAll(c) \/ FetchForClose(c) \/ CloseDocument(c)
  \/ Invalidate(c) \/ BeginForward(c) \/ RecordLatest(c) \/ ListConnections(c) \/ PinHandle(c)
  \/ PrepareChange(c) \/ SendChange(c) \/ RecordChange(c) \/ EndClose(c)
  \/ \E e \in Eager : EndPass(c, e)

PoolSteps ==
  \/ Crash \/ Handshake \/ Replace \/ PurgeVersions \/ PurgeIndex \/ PurgeRest \/ PurgeEnds \/ AbortReplace \/ SpawnFirst
  \/ \E d \in Doc : PurgeWaits(d)

\* Nothing is under way: every task is over, not begun, or awaits a connection.
Over ==
  /\ \A t \in Task : at[t].pc \in {"idle", "done", "spawned"}
  /\ promoting = {} /\ cleanups = {}
  /\ UNCHANGED vars

Next ==
  \/ \E o \in Opener : OpenerSteps(o)
  \/ \E c \in Closer : CloserSteps(c)
  \/ PoolSteps \/ Edit \/ Reopen \/ Over

Spec == Init /\ [][Next]_vars

-----------------------------------------------------------------------------
Frames == {Closed, Misordered} \cup [version : 1..MaxVersion, text : Text]

HandleState == [state : {"none", "initializing", "ready", "failed"}, proc : 1..MaxProcesses]
HostState == [incarnation : 0..MaxLifetimes, lifetimes : 0..MaxLifetimes, edits : 0..MaxEdits,
              text : [Doc -> Text]]
PurgeState == [step : {"none", "versions", "index", "rest", "wait"}, uris : SUBSET Doc, left : SUBSET Doc]
OpenerPc == {"idle", "spawned", "asked", "entered", "locking", "claimed", "sent", "done"}
CloserPc == {"idle", "ending", "ended", "closing", "close", "invalidate", "purging", "forward", "list",
             "acquire", "pinned", "send", "record", "spawning", "done"}
TaskState == [pc : OpenerPc \cup CloserPc, doc : Doc, left : SUBSET Doc, text : [Doc -> Text \cup {NoText}],
              gens : [Doc -> Nat \cup {NoEntry}], live : SUBSET Doc, proc : 0..MaxProcesses, gen : Nat,
              ver : Nat, inc : 0..MaxLifetimes, ok : BOOLEAN]

TasksOK ==
  /\ at \in [Task -> TaskState]
  /\ \A t \in Task : at[t].pc \in (IF t \in Opener THEN OpenerPc ELSE CloserPc)

TrackerOK ==
  /\ generation \in Nat
  /\ versions \in [Doc -> 0..MaxVersion]
  /\ fingerprints \in [Doc -> Text \cup {NoText}]
  /\ claims \in [Doc -> Opener \cup {NoTask}]
  /\ openedOn \subseteq Doc
  /\ registered \in [Doc -> Nat \cup {NoEntry}]

LocksOK ==
  /\ connections \in Task \cup {Acquirer, NoTask}
  /\ transition \in [Doc -> Task \cup {NoTask}]
  /\ editLock \in Closer \cup Repair \cup {NoTask}
  /\ lifecycle \in [readers : SUBSET Request, writer : Eager \cup Repair \cup {NoTask}]

HostOK ==
  /\ host \in HostState
  /\ latest \in [Doc -> Text \cup {NoText}] /\ delivered \in [Doc -> Text \cup {NoText}]

PoolOK ==
  /\ handle \in HandleState
  /\ cancelled \subseteq Eager /\ promoting \subseteq Opener /\ cleanups \subseteq Opener
  /\ purge \in PurgeState
  /\ wire \in [Doc -> Frames]
  /\ faults \in [drops : 0..MaxDrops, aborts : 0..MaxAborts]

TypeOK == TasksOK /\ TrackerOK /\ LocksOK /\ HostOK /\ PoolOK

\* The process is up and no purge of its bookkeeping is under way.
Settled == handle.state = "ready" /\ purge = NoPurge

\* Some task has taken d's registration and owes it a didClose.
Owed(d) == \E c \in Closer : at[c].pc \in {"closing", "close", "invalidate"} /\ d \in at[c].left

(* The frames of a process are in the order the protocol demands, whoever  *)
(* sent them.                                                              *)
Server == INSTANCE TextSync WITH server <- wire
ImplementsTextSync == Server!Spec

(* A document the server holds open is one the tracker calls open and the  *)
(* host's close will find, unless its open or close is in flight: none is  *)
(* left open for ever.                                                     *)
EveryOpenIsOwned ==
  \A d \in Doc : Settled /\ wire[d] # Closed /\ transition[d] = NoTask =>
    \/ Owed(d)
    \/ d \in openedOn /\ registered[d] = generation

(* A document the tracker calls open is open on the current process.       *)
OpenedIsOpen ==
  \A d \in Doc : Settled /\ d \in openedOn => wire[d] # Closed

(* What the tracker calls open and what the process holds open are the     *)
(* same documents, up to the opens and closes in flight.                   *)
TrackerAgrees == EveryOpenIsOwned /\ OpenedIsOpen

(* A version entry that is neither open nor claimed would make every later *)
(* open fail; only a close in flight leaves one.                           *)
NeverWedged ==
  \A d \in Doc : Settled /\ versions[d] # 0 /\ d \notin openedOn /\ claims[d] = NoTask => Owed(d)

(* A forward that leaves an open document alone, as unchanged, finds its   *)
(* process with the very text it forwards: the purge of a respawn drops    *)
(* the fingerprints "so a respawn under the same key re-syncs from scratch *)
(* rather than skipping on a stale fingerprint" (document_tracker.rs:750). *)
Skips(p, d) ==
  /\ at[p].pc = "pinned" /\ at'[p].pc = "forward"
  /\ at[p].doc = d /\ d \in openedOn

NoStaleSkip ==
  [][\A p \in Pass, d \in Doc : Skips(p, d) => wire[d].text = at[p].text[d]]_vars

(* What the last pass brought the document to is what the process has,     *)
(* however opens and forwards overlapped.  Nothing is claimed of a repair: *)
(* one that sends ends the claim until the next pass, as its text may be   *)
(* newer than the recorded one, which a later open sends.  Three passes, a *)
(* crash and an abort can leave a stale fingerprint that breaks it         *)
(* (NoStaleSkip); ContentIsKept excludes such an abort.                    *)
ContentConverges ==
  \A d \in Doc :
    Settled /\ delivered[d] # NoText /\ wire[d] # Closed /\ transition[d] = NoTask
      => wire[d].text = delivered[d]
=============================================================================
