--------------------------- MODULE DiagnosticPublish ---------------------------
(***************************************************************************)
(* What the editor is shown of the diagnostics of one host document:       *)
(* DiagnosticAggregator (lsp/diagnostic_cache.rs), whose slots the feeds   *)
(* write, DiagnosticPublisher (coordinator/diagnostic_publisher.rs), which *)
(* merges them and sends the merge, and the tasks that feed and trigger    *)
(* it: the consumer of downstream pushes, the parse loop's re-merge, the   *)
(* debounced and the saved pull (debounced_diagnostics.rs,                 *)
(* synthetic_diagnostics.rs), the prefetch of a forwarded refresh, didOpen,*)
(* didChange and didClose.                                                 *)
(*                                                                         *)
(* A republish runs under the host's republish lock and is cut where       *)
(* another task can come between: at its snapshot, its compare-and-record, *)
(* its admission by the wire gate and its send.  A merge is the pull layer *)
(* and the place the current region's push is anchored at: a version of    *)
(* the text.  Whether the gate's debounce and its max-wait have run out is *)
(* settled where it is asked; a trailing publish that woke knows that one  *)
(* of them has, until activity or a send starts them again.                *)
(***************************************************************************)
EXTENDS Naturals, Sequences

CONSTANTS
  Trail,        \* trailing publishes; as many as can be alive at once
  MaxOpens,
  MaxEvents     \* edits, pushes, crashes, saves and prefetches

Task == {"consumer", "task", "loop", "editor", "prefetch"}

ASSUME PublishAssumption == MaxOpens \in Nat /\ MaxEvents \in Nat /\ Trail \cap Task = {}

Publisher == Task \cup Trail
Region == 1..(MaxOpens + MaxEvents)
Version == 1..(MaxEvents + 1)
Lineage == (1..MaxOpens) \X Version
None == <<0, 0>>       \* no lineage

VARIABLES
  doc,        \* [inc, ver, open, region]: region is the id of the one region of the text
  parsed,     \* the version the published snapshot is of; 0: none
  tracked,    \* the region whose virtual document is open downstream; 0: none
  opener,     \* the parse didOpen spawned: "parsing", "parsed" or "done"
  loop,       \* the parse loop: [pc, of, snap]
  owed,       \* the scheduler's entry is dirty
  timer,      \* the debounce timer: [of, snap]
  task,       \* the registered synthetic task: [key, pc]
  save,       \* a didSave between its reading of the lineage and its registration
  prefetch,   \* the lineage a prefetch collects for
  resolved,   \* the region of the push in the consumer's hands; 0: none
  editor,     \* didChange or didClose, while it holds the edit lock
  pull,       \* cache: the lineage the pull layer was computed for, or None
  slots,      \* cache: slots[r] is "absent", "empty" or "full"
  revision,   \* cache_revisions; 0: no entry
  allocated,  \* next_cache_revision
  gate,       \* the wire gate
  recorded,   \* last_published
  onWire,     \* last_wire_published
  trail,      \* trail[t]: "none", "parked" or "cancelled"
  queue,      \* the republish lock, which is fair: its holder, then those that wait for it
  rep,        \* rep[p]: the republish p is in
  shown,      \* what the editor was last sent
  shownAt,    \* history: the revision allocated when that merge was read
  events      \* history: how many outside events there were

docVars == <<doc, parsed, tracked, opener, loop, owed>>
pullVars == <<timer, task, save, prefetch>>
cacheVars == <<pull, slots, revision, allocated>>
wireVars == <<gate, recorded, onWire, trail>>
repVars == <<rep, queue>>
sent == <<shown, shownAt>>
vars == <<docVars, pullVars, resolved, editor, cacheVars, wireVars, repVars, sent, events>>

Clear == [pull |-> None, anchor |-> 0]
Unknown == [pull |-> None, anchor |-> MaxEvents + 2]   \* nothing was recorded
NoRep == [pc |-> "none", rev |-> 0, at |-> 0, set |-> Clear, activity |-> FALSE]
NoGate == [live |-> FALSE, sent |-> FALSE, seen |-> 0, due |-> FALSE, pending |-> FALSE, dirty |-> FALSE]
NoTimer == [of |-> None, snap |-> FALSE]
NoTask == [key |-> <<0, 0, 0, 0>>, pc |-> "none"]
NoPass == [pc |-> "idle", of |-> None, snap |-> FALSE]

Current == <<doc.inc, doc.ver>>
IsCurrent(l) == doc.open /\ l = Current
TreeIsCurrent == doc.open /\ parsed = doc.ver

Idle(p) == rep[p].pc = "none"

(* A synthetic task holds the edit lock from its commit to the end of its  *)
(* republish.                                                              *)
EditLockIsFree == editor = "idle" /\ Idle("task")

Happens == events < MaxEvents /\ events' = events + 1

-----------------------------------------------------------------------------
(* The cache *)

HasRegionSlots == \E r \in Region : slots[r] = "full"

(* current_region_geometry is None, and a live region slot needs it.       *)
GeometryIsUnknown == HasRegionSlots /\ doc.open /\ parsed # doc.ver

(* merge_cached_diagnostics: a region without an offset is left out.       *)
Merged == [pull |-> pull, anchor |-> IF doc.open /\ slots[doc.region] = "full" THEN doc.ver ELSE 0]

\* Mutant: each entry counts its own revisions.
BumpOwn == revision' = revision + 1 /\ allocated' = IF allocated > revision THEN allocated ELSE revision + 1

Bump == revision' = allocated + 1 /\ allocated' = allocated + 1

Keep == UNCHANGED <<revision, allocated>>

(* set_pull_layer_nudgeless, evict_pull_layer_nudgeless *)
SetPull(l) ==
  /\ pull' = l
  /\ IF l # pull THEN Bump ELSE Keep
  /\ UNCHANGED slots

Record(r, v) ==
  /\ slots' = [slots EXCEPT ![r] = v]
  /\ IF slots[r] # v THEN Bump ELSE Keep
  /\ UNCHANGED pull

(* evict_source, evict_connection *)
Evict(S) ==
  /\ slots' = [r \in Region |-> IF r \in S THEN "absent" ELSE slots[r]]
  /\ IF \E r \in S : slots[r] # "absent" THEN Bump ELSE Keep
  /\ UNCHANGED pull

EvictHost ==
  /\ pull' = None
  /\ slots' = [r \in Region |-> "absent"]
  /\ revision' = 0
  /\ UNCHANGED allocated

-----------------------------------------------------------------------------
(* The republish: DiagnosticPublisher::republish_core *)

Want(p) ==
  /\ rep' = [rep EXCEPT ![p] = [NoRep EXCEPT !.pc = "want"]]
  /\ queue' = Append(queue, p)

Place(p) == CHOOSE i \in 1..Len(queue) : queue[i] = p

Without(p) ==
  IF \E i \in 1..Len(queue) : queue[i] = p
    THEN SubSeq(queue, 1, Place(p) - 1) \o SubSeq(queue, Place(p) + 1, Len(queue))
    ELSE queue

Finish(p) ==
  /\ rep' = [rep EXCEPT ![p] = NoRep]
  /\ queue' = Without(p)

FreeTrail(t) == trail[t] = "none" /\ Idle(t)
Cancelled == [t \in Trail |-> IF trail[t] = "parked" THEN "cancelled" ELSE trail[t]]

(* spawn_trailing_wire_publish, unless one is parked.                      *)
Park(parked, trails) ==
  /\ \E t \in Trail : FreeTrail(t)
  /\ trail' = IF parked THEN trails ELSE [trails EXCEPT ![CHOOSE t \in Trail : FreeTrail(t)] = "parked"]

RepFrame == UNCHANGED <<docVars, pullVars, resolved, editor, cacheVars, events>>

Snapshot(p) ==
  rep' = [rep EXCEPT ![p] = [@ EXCEPT !.pc = "merged", !.rev = revision, !.at = allocated, !.set = Merged]]

\* Mutant: the snapshot does not wait for the lock.
BeginUnlocked(p) ==
  /\ rep[p].pc = "want"
  /\ IF GeometryIsUnknown THEN Finish(p) ELSE Snapshot(p) /\ UNCHANGED queue
  /\ UNCHANGED <<wireVars, sent>> /\ RepFrame

(* The snapshot and its merge, once the lock is had.  A host whose         *)
(* geometry is unknown is deferred: nothing is merged.                     *)
Begin(p) ==
  /\ rep[p].pc = "want" /\ Head(queue) = p
  /\ IF GeometryIsUnknown THEN Finish(p) ELSE Snapshot(p) /\ UNCHANGED queue
  /\ UNCHANGED <<wireVars, sent>> /\ RepFrame

Minted == [NoGate EXCEPT !.live = TRUE, !.dirty = TRUE, !.seen = revision]

(* schedule_stale_wire_retry: the debt stays, and a trailing publish is    *)
(* parked unless one is.  A gate that was quiet and owed nothing starts a  *)
(* cycle; what was parked for the old one is cancelled.                    *)
ScheduleLatest ==
  \E idle \in {FALSE, gate.live /\ ~gate.dirty} :
    LET g == IF gate.live THEN gate ELSE Minted
    IN /\ gate' = [g EXCEPT !.due = FALSE, !.seen = revision, !.dirty = TRUE, !.pending = TRUE]
       /\ Park(g.pending /\ ~idle, IF idle THEN Cancelled ELSE trail)

(* published_set_changed_current_revision, the skip of a merge that        *)
(* changes nothing and owes nothing, and the bypass of a closed host.      *)
Compare(p) ==
  /\ rep[p].pc = "merged"
  /\ LET changed == recorded # rep[p].set IN
     IF rep[p].rev # revision
       THEN ScheduleLatest /\ Finish(p) /\ UNCHANGED recorded
       ELSE /\ recorded' = rep[p].set
            /\ UNCHANGED <<gate, trail>>
            /\ IF ~changed /\ ~gate.dirty
                 THEN Finish(p)
                 ELSE /\ rep' = [rep EXCEPT ![p].pc = IF doc.open THEN "recorded" ELSE "clearing",
                                            ![p].activity = doc.open /\ changed /\ p \notin Trail]
                      /\ UNCHANGED queue
  /\ UNCHANGED <<onWire, sent>> /\ RepFrame

(* settle_wire_reversion_current_revision: the merge is back to what is on *)
(* the wire, so nothing is owed.                                           *)
Settle(p) ==
  /\ gate' = IF gate.live THEN [gate EXCEPT !.due = FALSE, !.dirty = FALSE] ELSE gate
  /\ Finish(p)
  /\ UNCHANGED trail

Discovered == gate.seen # revision

(* wire_debounce_admit_for_revision: a publish with activity of its own    *)
(* goes out after a quiet time, and one without waits for it.              *)
SendsNow(p, quiet, max) ==
  \/ ~gate.live \/ ~gate.sent \/ max
  \/ quiet /\ (rep[p].activity \/ ~Discovered)

\* Mutant: a send marks no debt before it is made.
AdmittedWithoutDebt(p, sends) ==
  LET g == [(IF gate.live THEN gate ELSE Minted) EXCEPT !.dirty = gate.dirty \/ ~sends]
  IN IF rep[p].activity \/ Discovered THEN [g EXCEPT !.due = FALSE, !.seen = revision] ELSE g

Admitted(p, sends) ==
  LET g == [(IF gate.live THEN gate ELSE Minted) EXCEPT !.dirty = TRUE]
  IN IF rep[p].activity \/ Discovered THEN [g EXCEPT !.due = FALSE, !.seen = revision] ELSE g

(* The admission: a stale merge is retried, one that is on the wire is     *)
(* settled, and every other marks the debt before it is sent or withheld.  *)
Admit(p) ==
  /\ rep[p].pc = "recorded"
  /\ IF rep[p].rev # revision THEN ScheduleLatest /\ Finish(p)
     ELSE IF onWire = rep[p].set THEN Settle(p)
     ELSE \E quiet, max \in BOOLEAN :
            /\ gate.due => quiet \/ max
            /\ IF SendsNow(p, quiet, max)
                 THEN /\ gate' = Admitted(p, TRUE)
                      /\ rep' = [rep EXCEPT ![p].pc = "sending", ![p].activity = FALSE]
                      /\ UNCHANGED <<trail, queue>>
                 ELSE /\ gate' = [Admitted(p, FALSE) EXCEPT !.pending = TRUE]
                      /\ Finish(p)
                      /\ Park(gate.pending, trail)
  /\ UNCHANGED <<recorded, onWire, sent>> /\ RepFrame

Shows(p) == shown' = rep[p].set /\ shownAt' = rep[p].at /\ Finish(p) /\ RepFrame

(* The send of an open host and wire_gate_commit_send: a merge that became *)
(* stale on the way leaves the debt and is retried.                        *)
Send(p) ==
  /\ rep[p].pc = "sending"
  /\ onWire' = recorded
  /\ LET g == [gate EXCEPT !.sent = TRUE, !.due = FALSE] IN
     IF rep[p].rev = revision
       THEN gate' = [g EXCEPT !.dirty = FALSE] /\ UNCHANGED trail
       ELSE /\ gate' = [g EXCEPT !.seen = revision, !.dirty = TRUE, !.pending = TRUE]
            /\ Park(gate.pending, trail)
  /\ UNCHANGED recorded /\ Shows(p)

SendClosed(p) == rep[p].pc = "clearing" /\ UNCHANGED wireVars /\ Shows(p)

Republish(p) == Begin(p) \/ Compare(p) \/ Admit(p) \/ Send(p) \/ SendClosed(p)

-----------------------------------------------------------------------------
(* The trailing publish *)

TrailFrame == UNCHANGED <<docVars, pullVars, resolved, editor, cacheVars, recorded, onWire, sent, events>>

(* wire_gate_trailing_wake at its deadline, and the republish of a host    *)
(* that is open.  A cancelled task may have left its select already.       *)
TrailWakes(t) ==
  /\ trail[t] # "none"
  /\ trail' = [trail EXCEPT ![t] = "none"]
  /\ gate' = [gate EXCEPT !.pending = FALSE, !.due = @ \/ gate.pending]
  /\ IF gate.pending /\ doc.open THEN Want(t) ELSE UNCHANGED repVars
  /\ TrailFrame

TrailDies(t) ==
  /\ trail[t] = "cancelled"
  /\ trail' = [trail EXCEPT ![t] = "none"]
  /\ UNCHANGED <<gate, repVars>> /\ TrailFrame

-----------------------------------------------------------------------------
(* Pushes: publish_push_batch and evict_connection_diagnostics, one after  *)
(* the other in the consumer of downstream notifications.                  *)

ConsumerFrame == UNCHANGED <<docVars, pullVars, editor, wireVars, sent>>

(* resolve_virtual_uri *)
Resolve ==
  /\ resolved = 0 /\ Idle("consumer") /\ tracked # 0 /\ Happens
  /\ resolved' = tracked
  /\ UNCHANGED <<cacheVars, repVars>> /\ ConsumerFrame

RecordPush ==
  /\ resolved # 0
  /\ \E v \in {"empty", "full"} : Record(resolved, v)
  /\ resolved' = 0
  /\ Want("consumer")
  /\ UNCHANGED events /\ ConsumerFrame

ServerDies ==
  /\ resolved = 0 /\ Idle("consumer") /\ (\E r \in Region : slots[r] # "absent") /\ Happens
  /\ Evict(Region)
  /\ Want("consumer")
  /\ UNCHANGED resolved /\ ConsumerFrame

-----------------------------------------------------------------------------
(* Synthetic pulls: SyntheticDiagnosticsManager *)

AtOpen == 0
AtChange == 1
AtSave == 2
Key(l, snap, trigger) == <<l[1], l[2], IF snap THEN 1 ELSE 0, trigger>>
Of(key) == <<key[1], key[2]>>

Above(k, l) == \E i \in 1..4 : k[i] > l[i] /\ \A j \in 1..(i - 1) : k[j] = l[j]

(* register_task_for_lineage: an older key is turned away, any other       *)
(* aborts the task before it, also in the middle of its republish, which   *)
(* awaits nothing between its record and its send.                         *)
Register(key, pc) ==
  IF Above(task.key, key)
    THEN UNCHANGED <<task, repVars>>
    ELSE /\ rep["task"].pc # "recorded"
         /\ task' = [key |-> key, pc |-> pc]
         /\ Finish("task")

PullFrame == UNCHANGED <<docVars, resolved, editor, wireVars, sent>>

(* execute_debounced_diagnostic, up to the registration; a task without a  *)
(* snapshot has nothing to collect.                                        *)
TimerFires ==
  /\ timer # NoTimer /\ EditLockIsFree
  /\ timer' = NoTimer
  /\ IF IsCurrent(timer.of)
       THEN Register(Key(timer.of, timer.snap, AtChange), IF timer.snap THEN "collecting" ELSE "none")
       ELSE UNCHANGED <<task, repVars>>
  /\ UNCHANGED <<save, prefetch, cacheVars, events>> /\ PullFrame

(* did_save_impl reads the saved lineage under the edit lock and registers *)
(* the pull after the lock is released.                                    *)
Save ==
  /\ doc.open /\ EditLockIsFree /\ save = None /\ Happens
  /\ save' = Current
  /\ UNCHANGED <<timer, task, prefetch, cacheVars, repVars>> /\ PullFrame

SaveRegisters ==
  /\ save # None
  /\ save' = None
  /\ Register(Key(save, TRUE, AtSave), "awaiting")
  /\ UNCHANGED <<timer, prefetch, cacheVars, events>> /\ PullFrame

(* wait_for_expected_diagnostic_tree *)
TreeCame ==
  /\ task.pc = "awaiting"
  /\ \/ ~IsCurrent(Of(task.key)) /\ task' = [task EXCEPT !.pc = "none"]
     \/ IsCurrent(Of(task.key)) /\ TreeIsCurrent /\ task' = [task EXCEPT !.pc = "collecting"]
  /\ UNCHANGED <<timer, save, prefetch, cacheVars, repVars, events>> /\ PullFrame

(* commit_synthetic_diagnostics_when_current: Clear or Publish.            *)
Commit ==
  /\ task.pc = "collecting" /\ EditLockIsFree
  /\ task' = [task EXCEPT !.pc = "none"]
  /\ IF IsCurrent(Of(task.key))
       THEN (\E l \in {None, Of(task.key)} : SetPull(l)) /\ Want("task")
       ELSE UNCHANGED <<cacheVars, repVars>>
  /\ UNCHANGED <<timer, save, prefetch, events>> /\ PullFrame

(* prefetch_open_pull_fallback_diagnostics *)
Prefetch ==
  /\ TreeIsCurrent /\ prefetch = None /\ Idle("prefetch") /\ Happens
  /\ prefetch' = Current
  /\ UNCHANGED <<timer, task, save, cacheVars, repVars>> /\ PullFrame

\* Mutant: the result is committed to whatever is open by then.
PrefetchCommitsAnyway ==
  /\ prefetch # None /\ EditLockIsFree
  /\ prefetch' = None
  /\ (\E l \in {None, prefetch} : SetPull(l)) /\ Want("prefetch")
  /\ UNCHANGED <<timer, task, save, events>> /\ PullFrame

(* commit_refresh_prefetch: the edit lock covers the check and the cache's *)
(* change only.  A pull with errors commits nothing.                       *)
PrefetchCommits ==
  /\ prefetch # None /\ EditLockIsFree
  /\ prefetch' = None
  /\ \/ IsCurrent(prefetch) /\ (\E l \in {None, prefetch} : SetPull(l)) /\ Want("prefetch")
     \/ UNCHANGED <<cacheVars, repVars>>
  /\ UNCHANGED <<timer, task, save, events>> /\ PullFrame

-----------------------------------------------------------------------------
(* Parses: didOpen's own, and the loop of schedule_reparse *)

ParseFrame == UNCHANGED <<doc, save, prefetch, resolved, editor, cacheVars, wireVars, sent, events>>

(* parse_document and process_injections_for_parse, of version 1           *)
OpenParsed ==
  /\ opener = "parsing"
  /\ IF IsCurrent(<<doc.inc, 1>>)
       THEN parsed' = 1 /\ tracked' = doc.region /\ opener' = "parsed"
       ELSE opener' = "done" /\ UNCHANGED <<parsed, tracked>>
  /\ UNCHANGED <<loop, owed, timer, task, repVars>> /\ ParseFrame

(* spawn_synthetic_diagnostic_for_parse *)
OpenRegisters ==
  /\ opener = "parsed" /\ EditLockIsFree
  /\ opener' = "done"
  /\ IF IsCurrent(<<doc.inc, 1>>)
       THEN Register(Key(<<doc.inc, 1>>, TRUE, AtOpen), "collecting")
       ELSE UNCHANGED <<task, repVars>>
  /\ UNCHANGED <<parsed, tracked, loop, owed, timer>> /\ ParseFrame

(* start_pass and reparse_latest; a loop whose document is gone stops.  A  *)
(* parse an edit overtook publishes a tree that is not current, like one   *)
(* it comes just after.                                                    *)
Pass ==
  /\ owed /\ loop.pc = "idle"
  /\ owed' = FALSE
  /\ IF doc.open
       THEN parsed' = doc.ver /\ loop' = [loop EXCEPT !.pc = "parsed"]
       ELSE UNCHANGED <<parsed, loop>>
  /\ UNCHANGED <<tracked, opener, timer, task, repVars>> /\ ParseFrame

(* process_injections, and the re-merge of a host with region slots        *)
Remerge ==
  /\ loop.pc = "parsed"
  /\ tracked' = IF TreeIsCurrent THEN doc.region ELSE tracked
  /\ loop' = [loop EXCEPT !.pc = "merging"]
  /\ IF HasRegionSlots THEN Want("loop") ELSE UNCHANGED repVars
  /\ UNCHANGED <<parsed, opener, owed, timer, task>> /\ ParseFrame

(* schedule_debounced_diagnostic: the snapshot first, the timer after it;  *)
(* one without a snapshot is of whatever is stored by then.                *)
Prepare ==
  /\ loop.pc = "merging" /\ Idle("loop")
  /\ loop' = IF TreeIsCurrent THEN [pc |-> "arming", of |-> Current, snap |-> TRUE]
             ELSE [NoPass EXCEPT !.pc = "arming"]
  /\ UNCHANGED <<parsed, tracked, opener, owed, timer, task, repVars>> /\ ParseFrame

Arm ==
  /\ loop.pc = "arming"
  /\ loop' = NoPass
  /\ timer' = IF loop.snap THEN [of |-> loop.of, snap |-> TRUE]
              ELSE IF doc.open THEN [of |-> Current, snap |-> FALSE]
              ELSE NoTimer
  /\ UNCHANGED <<parsed, tracked, opener, owed, task, repVars>> /\ ParseFrame

-----------------------------------------------------------------------------
(* didOpen, didChange, didClose, each under the edit lock *)

EditorFrame == UNCHANGED <<loop, save, prefetch, resolved, wireVars, sent>>

DidOpen ==
  /\ ~doc.open /\ EditLockIsFree /\ doc.inc < MaxOpens
  /\ doc' = [inc |-> doc.inc + 1, ver |-> 1, open |-> TRUE, region |-> doc.region + 1]
  /\ opener' = "parsing"
  /\ UNCHANGED <<parsed, tracked, owed, timer, task, editor, cacheVars, repVars, events>> /\ EditorFrame

(* The debounce and the registered pull are aborted first.  An edit either *)
(* leaves the region its id or invalidates it.                             *)
DidChange ==
  /\ doc.open /\ EditLockIsFree /\ Happens
  /\ timer' = NoTimer /\ task' = NoTask
  /\ \/ /\ doc' = [doc EXCEPT !.ver = @ + 1]
        /\ owed' = TRUE
        /\ UNCHANGED <<editor, tracked>>
     \/ /\ doc' = [doc EXCEPT !.ver = @ + 1, !.region = @ + 1]
        /\ tracked' = 0
        /\ editor' = "changing"
        /\ UNCHANGED owed
  /\ UNCHANGED <<parsed, opener, cacheVars, repVars>> /\ EditorFrame

(* close_invalidated_virtual_docs, which republishes nothing *)
Invalidate ==
  /\ editor = "changing"
  /\ Evict({doc.region - 1})
  /\ owed' = TRUE
  /\ editor' = "idle"
  /\ UNCHANGED <<doc, parsed, tracked, opener, timer, task, repVars, events>> /\ EditorFrame

(* The open parse of a lifetime that is gone does nothing more.            *)
DidClose ==
  /\ doc.open /\ EditLockIsFree
  /\ doc' = [doc EXCEPT !.open = FALSE, !.ver = 0]
  /\ parsed' = 0 /\ tracked' = 0 /\ opener' = "done"
  /\ timer' = NoTimer /\ task' = NoTask
  /\ editor' = "closing"
  /\ UNCHANGED <<owed, cacheVars, repVars, events>> /\ EditorFrame

CloseFrame == UNCHANGED <<docVars, pullVars, resolved, sent, events>>

\* Mutant: the wire gate is forgotten before the clearing publish.
ForgetsGateFirst ==
  /\ editor = "closing"
  /\ EvictHost /\ Want("editor")
  /\ gate' = NoGate /\ trail' = Cancelled
  /\ editor' = "clearing"
  /\ UNCHANGED <<recorded, onWire>> /\ CloseFrame

(* clear_host, up to its republish *)
Evicts ==
  /\ editor = "closing"
  /\ EvictHost /\ Want("editor")
  /\ editor' = "clearing"
  /\ UNCHANGED wireVars /\ CloseFrame

(* forget_published and forget_wire_gate, after it: the republish lock is  *)
(* not held any more.                                                      *)
Forgets ==
  /\ editor = "clearing" /\ Idle("editor")
  /\ recorded' = Unknown /\ onWire' = Unknown
  /\ gate' = NoGate /\ trail' = Cancelled
  /\ editor' = "idle"
  /\ UNCHANGED <<cacheVars, repVars>> /\ CloseFrame

-----------------------------------------------------------------------------
Init ==
  /\ doc = [inc |-> 0, ver |-> 0, open |-> FALSE, region |-> 0]
  /\ parsed = 0 /\ tracked = 0 /\ owed = FALSE
  /\ opener = "done" /\ loop = NoPass
  /\ timer = NoTimer /\ save = None /\ prefetch = None /\ task = NoTask
  /\ resolved = 0 /\ editor = "idle"
  /\ pull = None /\ slots = [r \in Region |-> "absent"]
  /\ revision = 0 /\ allocated = 0
  /\ gate = NoGate /\ recorded = Unknown /\ onWire = Unknown
  /\ trail = [t \in Trail |-> "none"]
  /\ queue = <<>> /\ rep = [p \in Publisher |-> NoRep]
  /\ shown = Clear /\ shownAt = 0 /\ events = 0

Pulls == TreeCame \/ Commit
Parse == OpenParsed \/ OpenRegisters \/ Pass \/ Remerge \/ Prepare \/ Arm
Edit == Invalidate \/ Evicts \/ Forgets
Outside == DidOpen \/ DidChange \/ DidClose \/ Save \/ Prefetch \/ Resolve \/ ServerDies

Next ==
  \/ Outside \/ RecordPush \/ TimerFires \/ SaveRegisters \/ PrefetchCommits
  \/ Pulls \/ Parse \/ Edit
  \/ \E p \in Publisher : Republish(p)
  \/ \E t \in Trail : TrailWakes(t) \/ TrailDies(t)

(* Tasks run, locks are handed on in turn and time passes; the editor, the *)
(* servers and their refreshes do what they like.                          *)
Fairness ==
  /\ \A p \in Publisher : WF_vars(Republish(p))
  /\ \A t \in Trail : WF_vars(TrailWakes(t) \/ TrailDies(t))
  /\ WF_vars(RecordPush) /\ WF_vars(TimerFires) /\ WF_vars(SaveRegisters)
  /\ WF_vars(PrefetchCommits) /\ WF_vars(Pulls) /\ WF_vars(Parse) /\ WF_vars(Edit)

Spec == Init /\ [][Next]_vars /\ Fairness

-----------------------------------------------------------------------------
(* The types.  A host's revision is the last that was allocated, so none is*)
(* met again after an eviction, and a free trailing publish always exists. *)
TypeOK ==
  /\ doc \in [inc : 0..MaxOpens, ver : {0} \cup Version, open : BOOLEAN, region : {0} \cup Region]
  /\ pull \in Lineage \cup {None}
  /\ slots \in [Region -> {"absent", "empty", "full"}]
  /\ revision \in {0, allocated}
  /\ trail \in [Trail -> {"none", "parked", "cancelled"}]
  /\ queue \in Seq(Publisher)
  /\ \E t \in Trail : FreeTrail(t)

(* No merge is sent after one that was read later, though feeds, the parse *)
(* loop, trailing publishes and a close all republish: the republish lock  *)
(* is held from the snapshot to the send.                                  *)
SendsInOrder == [][shownAt' >= shownAt]_vars

(* Nothing of a lifetime outlives its didClose, whatever debounce, save,   *)
(* prefetch, push or withheld publish was under way: the pull layer is of  *)
(* the open lifetime, and once no publish is in flight the editor is shown *)
(* nothing of a closed document.                                           *)
NothingOutlivesClose ==
  /\ pull # None => pull[1] = doc.inc /\ (doc.open \/ editor = "closing")
  /\ ~doc.open /\ editor = "idle" /\ (\A p \in Publisher : Idle(p)) => shown = Clear

(* When the editor leaves the document alone it ends up with the current   *)
(* pull and the regions where they are now: no withheld, deferred, stale   *)
(* or aborted publish is lost.                                             *)
EditorConverges ==
  <>[]( /\ shown = (IF doc.open THEN Merged ELSE Clear)
        /\ doc.open => pull \in {None, Current})
=============================================================================
