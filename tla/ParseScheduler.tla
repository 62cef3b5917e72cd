---------------------------- MODULE ParseScheduler ----------------------------
(***************************************************************************)
(* lsp_impl/parse_scheduler.rs and the loop lsp_impl.rs `schedule_reparse` *)
(* spawns, for one document.                                               *)
(*                                                                         *)
(* didChange stores the new text, then schedules: a loop is spawned unless *)
(* one runs, which is marked dirty instead.  The loop takes the latest     *)
(* writer ticket, reads the latest text, parses it, publishes, moves the   *)
(* document's watermark to the ticket, does the downstream work, and goes  *)
(* on while it is dirty.  It is neither stopped nor told by a didClose: it *)
(* finds the document gone.  didOpen spawns a parse of its own, or, with   *)
(* the parser missing, a reparse that follows the install.  A settings     *)
(* reload bumps the version of an open document and schedules it later,    *)
(* without a ticket and without the edit lock.                             *)
(*                                                                         *)
(* Handlers that write run one at a time, in wire order (IngressOrder).    *)
(* Texts and trees are versions here; DocumentStore has what they hold.    *)
(***************************************************************************)
EXTENDS Naturals, FiniteSets

CONSTANTS
  Loop,         \* slots for spawned loops
  MaxOpens,     \* bound on didOpens
  MaxVersion,   \* bound on the versions of a lifetime
  MaxReloads,   \* bound on settings reloads
  MaxPanics     \* bound on panics of the loop's own code

ASSUME SchedulerAssumption ==
  /\ MaxOpens \in Nat /\ MaxVersion \in Nat \ {0}
  /\ MaxReloads \in Nat /\ MaxPanics \in Nat

VARIABLES
  doc,      \* the document: [inc, ver, ticket], inc = 0 when it is closed
  opens,    \* incarnations drawn so far
  tail,     \* the last writer ticket the ingress layer issued
  editing,  \* a didChange has stored its text and not scheduled it yet
  parsed,   \* the version the document's published tree parsed, 0 for none
  wm,       \* the parse watermark: [inc, ticket], inc = 0 when there is none
  entry,    \* the scheduler's entry: [on, dirty, ticket]
  loop,     \* loop[l]: where loop l is, its ticket and the inputs it read
  opener,   \* opener[i]: the parse that the didOpen of incarnation i spawned
  reload,   \* "none", or "invalidated": its schedule is still to come
  reloads, panics,
  shutdown,
  unread,   \* history: a schedule call whose text no pass has read yet
  resolved  \* history: the newest ticket of this lifetime a finished pass read

vars == <<doc, opens, tail, editing, parsed, wm, entry, loop, opener, reload,
          reloads, panics, shutdown, unread, resolved>>

NoTicket == 0
Closed == [inc |-> 0, ver |-> 0, ticket |-> NoTicket]
NoWatermark == [inc |-> 0, ticket |-> 0]
NoEntry == [on |-> FALSE, dirty |-> FALSE, ticket |-> NoTicket]
Idle == [pc |-> "idle", ticket |-> NoTicket, read |-> Closed]
At(task, pc) == [task EXCEPT !.pc = pc]

IsOpen == doc.inc # 0
Later(a, b) == IF a >= b THEN a ELSE b
-----------------------------------------------------------------------------
(* ParseScheduler::schedule.  An entry exists only while its loop parses,  *)
(* so the branch that restarts an entry that does not is never taken.      *)
Schedule(ticket) ==
  /\ unread' = IsOpen
  /\ IF entry.on
       THEN /\ entry' = [on |-> TRUE, dirty |-> TRUE,
                         ticket |-> Later(entry.ticket, ticket)]
            /\ UNCHANGED loop
       ELSE /\ entry' = [on |-> TRUE, dirty |-> FALSE, ticket |-> ticket]
            /\ \E l \in Loop :
                 /\ loop[l] = Idle
                 /\ loop' = [loop EXCEPT ![l] = At(Idle, "top")]

(* ParseScheduler::start_pass: the entry after it, and the ticket it gives. *)
Started == IF entry.on THEN [entry EXCEPT !.dirty = FALSE] ELSE entry
PassTicket == IF entry.on THEN entry.ticket ELSE NoTicket

\* Mutant: finish stops although the loop was marked dirty.
NeverAgain == FALSE

(* ParseScheduler::finish. *)
LoopsAgain == entry.on /\ entry.dirty

\* Mutant: the entry goes though the loop goes on.
FinishedAlways == NoEntry

Finished == IF LoopsAgain THEN entry ELSE NoEntry

(* DocumentStore::advance_watermark and its incarnation-checked form.      *)
Advance(ticket) == [wm EXCEPT !.ticket = Later(@, ticket)]
AdvanceFor(inc, ticket) ==
  IF wm.inc = inc /\ inc # 0 THEN Advance(ticket) ELSE wm

(* install_parse, for a pass that read r: admitted when newer.             *)
Installed(r) ==
  IF IsOpen /\ doc.inc = r.inc /\ r.ver > parsed THEN r.ver ELSE parsed

(* The parse of an obsolete version is cancelled, or installs too late.    *)
Parsed(r) == {Installed(r)} \cup (IF doc = r THEN {} ELSE {parsed})

(* Whichever way the pass ended, r's writers are answered for.             *)
Resolved(r) ==
  IF IsOpen /\ doc.inc = r.inc THEN Later(resolved, r.ticket) ELSE resolved

-----------------------------------------------------------------------------
Init ==
  /\ doc = Closed /\ opens = 0 /\ tail = 0 /\ editing = FALSE
  /\ parsed = 0 /\ wm = NoWatermark /\ entry = NoEntry
  /\ loop = [l \in Loop |-> Idle]
  /\ opener = [i \in 1..MaxOpens |-> Idle]
  /\ reload = "none" /\ reloads = 0 /\ panics = 0 /\ shutdown = FALSE
  /\ unread = FALSE /\ resolved = 0

(* DocumentStore::insert: a new lifetime, its watermark at 0; then the     *)
(* open parse is spawned, or the watermark moves at once and an            *)
(* auto-install is.                                                        *)
DidOpen(skip_parse) ==
  LET i == opens + 1
      ticket == tail + 1
  IN
  /\ ~IsOpen /\ opens < MaxOpens
  /\ opens' = i /\ tail' = ticket
  /\ doc' = [inc |-> i, ver |-> 1, ticket |-> ticket]
  /\ parsed' = 0
  /\ wm' = [inc |-> i, ticket |-> IF skip_parse THEN ticket ELSE 0]
  /\ opener' = [opener EXCEPT ![i] =
       [pc |-> IF skip_parse THEN "installing" ELSE "open",
        ticket |-> IF skip_parse THEN NoTicket ELSE ticket, read |-> Closed]]
  /\ resolved' = IF skip_parse THEN ticket ELSE 0
  /\ UNCHANGED <<editing, entry, loop, reload, reloads, panics, shutdown, unread>>

\* Mutant: the version is bumped by apply_edit and by its caller.
EditTextTwice ==
  /\ IsOpen /\ ~editing /\ doc.ver < MaxVersion
  /\ tail' = tail + 1
  /\ doc' = [doc EXCEPT !.ver = @ + 2, !.ticket = tail + 1]
  /\ editing' = TRUE
  /\ UNCHANGED <<opens, parsed, wm, entry, loop, opener, reload, reloads, panics,
                 shutdown, unread, resolved>>

(* did_change_impl up to apply_edit: the new text is in the store.         *)
EditText ==
  /\ IsOpen /\ ~editing /\ doc.ver < MaxVersion
  /\ tail' = tail + 1
  /\ doc' = [inc |-> doc.inc, ver |-> doc.ver + 1, ticket |-> tail + 1]
  /\ editing' = TRUE
  /\ UNCHANGED <<opens, parsed, wm, entry, loop, opener, reload, reloads, panics,
                 shutdown, unread, resolved>>

(* Its end: schedule_reparse.                                              *)
ScheduleEdit ==
  /\ editing
  /\ editing' = FALSE
  /\ Schedule(doc.ticket)
  /\ UNCHANGED <<doc, opens, tail, parsed, wm, opener, reload, reloads, panics,
                 shutdown, resolved>>

(* close_document_lifecycle: the store forgets the document and its        *)
(* watermark.  The ingress layer forgets the ticket count as well, unless  *)
(* a later writer of the document is queued.                               *)
DidClose ==
  /\ IsOpen /\ ~editing
  /\ doc' = Closed /\ wm' = NoWatermark /\ parsed' = 0 /\ resolved' = 0
  /\ tail' \in {0, tail + 1}
  /\ unread' = FALSE
  /\ UNCHANGED <<opens, editing, entry, loop, opener, reload, reloads, panics, shutdown>>

(* invalidate_all_parses: the version moves and the tree is taken away.    *)
Reload ==
  /\ reload = "none" /\ reloads < MaxReloads
  /\ IsOpen /\ doc.ver < MaxVersion
  /\ reloads' = reloads + 1
  /\ reload' = "invalidated"
  /\ doc' = [doc EXCEPT !.ver = @ + 1]
  /\ parsed' = 0
  /\ UNCHANGED <<opens, tail, editing, wm, entry, loop, opener, panics, shutdown,
                 unread, resolved>>

(* After the rest of the reload: schedule_reparse of what was open then.   *)
ScheduleReload ==
  /\ reload = "invalidated"
  /\ reload' = "none"
  /\ Schedule(NoTicket)
  /\ UNCHANGED <<doc, opens, tail, editing, parsed, wm, opener, reloads, panics,
                 shutdown, resolved>>

Shutdown ==
  /\ ~shutdown
  /\ shutdown' = TRUE
  /\ UNCHANGED <<doc, opens, tail, editing, parsed, wm, entry, loop, opener, reload,
                 reloads, panics, unread, resolved>>

-----------------------------------------------------------------------------
(* The parse a didOpen spawned *)

OpenerUnchanged ==
  UNCHANGED <<doc, opens, tail, editing, entry, loop, reload, reloads, panics,
              shutdown, unread>>

(* parse_document, and each attempt of reparse_installed_document.         *)
OpenerReads(i) ==
  /\ opener[i].pc \in {"open", "installing"}
  /\ opener' = [opener EXCEPT ![i] =
       IF /\ doc.inc = i
          /\ opener[i].pc = "installing" => parsed # doc.ver
       THEN [pc |-> IF @.pc = "open" THEN "parse" ELSE "reparse",
             ticket |-> @.ticket, read |-> doc]
       ELSE Idle]
  /\ OpenerUnchanged /\ UNCHANGED <<parsed, wm, resolved>>

(* Cancelled when its version is obsolete: parse_document then publishes   *)
(* no tree, reparse_installed_document gives up.  Not current, it retries  *)
(* at most MAX_REPARSE_ATTEMPTS times.                                     *)
OpenerInstalls(i) ==
  LET o == opener[i]
      Retry == At(Idle, "installing")
  IN
  /\ o.pc \in {"parse", "reparse"}
  /\ parsed' \in Parsed(o.read)
  /\ resolved' = Resolved(o.read)
  /\ opener' \in
       IF o.pc = "parse" THEN {[opener EXCEPT ![i] = At(o, "advance")]}
       ELSE {[opener EXCEPT ![i] = Idle]}
              \cup (IF parsed' = doc.ver THEN {} ELSE {[opener EXCEPT ![i] = Retry]})
  /\ OpenerUnchanged /\ UNCHANGED wm

OpenerAdvances(i) ==
  LET o == opener[i] IN
  /\ o.pc = "advance"
  /\ wm' = AdvanceFor(o.read.inc, o.ticket)
  /\ opener' = [opener EXCEPT ![i] = Idle]
  /\ OpenerUnchanged /\ UNCHANGED <<parsed, resolved>>

-----------------------------------------------------------------------------
(* The loop *)

LoopUnchanged ==
  UNCHANGED <<doc, opens, tail, editing, opener, reload, reloads, shutdown>>

Goto(l, pc) == loop' = [loop EXCEPT ![l] = At(@, pc)]

(* start_pass: before the text is read.                                    *)
StartPass(l) ==
  /\ loop[l].pc = "top"
  /\ IF shutdown
       THEN Goto(l, "stop") /\ UNCHANGED entry
       ELSE /\ entry' = Started
            /\ loop' = [loop EXCEPT ![l] =
                          [pc |-> "read", ticket |-> PassTicket, read |-> Closed]]
  /\ LoopUnchanged /\ UNCHANGED <<parsed, wm, panics, unread, resolved>>

(* reparse_latest: the inputs, under one read guard.                       *)
ReadInputs(l) ==
  /\ loop[l].pc = "read"
  /\ IF IsOpen
       THEN /\ loop' = [loop EXCEPT ![l] =
                           [pc |-> "parse", ticket |-> @.ticket, read |-> doc]]
            /\ unread' = FALSE
       ELSE Goto(l, "check") /\ UNCHANGED unread
  /\ LoopUnchanged /\ UNCHANGED <<parsed, wm, entry, panics, resolved>>

(* The parse and its install.                                              *)
ParseAndInstall(l) ==
  LET r == loop[l].read IN
  /\ loop[l].pc = "parse"
  /\ parsed' \in Parsed(r)
  /\ resolved' = Resolved(r)
  /\ Goto(l, "advance")
  /\ LoopUnchanged /\ UNCHANGED <<wm, entry, panics, unread>>

\* Mutant: dirty is cleared after the pass, where start_pass should have.
AdvanceThenClearDirty(l) ==
  /\ loop[l].pc = "advance"
  /\ wm' = AdvanceFor(loop[l].read.inc, loop[l].ticket)
  /\ entry' = Started
  /\ Goto(l, "check")
  /\ LoopUnchanged /\ UNCHANGED <<parsed, panics, unread, resolved>>

\* Mutant: the ticket is read again after the pass.
AdvanceToLatestTicket(l) ==
  /\ loop[l].pc = "advance"
  /\ wm' = AdvanceFor(loop[l].read.inc, PassTicket)
  /\ Goto(l, "check")
  /\ LoopUnchanged /\ UNCHANGED <<parsed, entry, panics, unread, resolved>>

AdvanceWatermark(l) ==
  /\ loop[l].pc = "advance"
  /\ wm' = AdvanceFor(loop[l].read.inc, loop[l].ticket)
  /\ Goto(l, "check")
  /\ LoopUnchanged /\ UNCHANGED <<parsed, entry, panics, unread, resolved>>

(* A document that is gone, or a shutdown, ends the loop before the        *)
(* downstream work.                                                        *)
CheckOpen(l) ==
  /\ loop[l].pc = "check"
  /\ Goto(l, IF IsOpen /\ ~shutdown THEN "downstream" ELSE "stop")
  /\ LoopUnchanged /\ UNCHANGED <<parsed, wm, entry, panics, unread, resolved>>

\* Mutant: a loop that stops early leaves its entry.
StopWithoutClear(l) ==
  /\ loop[l].pc = "stop"
  /\ loop' = [loop EXCEPT ![l] = Idle]
  /\ LoopUnchanged /\ UNCHANGED <<parsed, wm, entry, panics, unread, resolved>>

(* `stop`: ParseScheduler::clear, a moment after what it was called for.   *)
Stop(l) ==
  /\ loop[l].pc = "stop"
  /\ entry' = NoEntry
  /\ loop' = [loop EXCEPT ![l] = Idle]
  /\ LoopUnchanged /\ UNCHANGED <<parsed, wm, panics, unread, resolved>>

(* The downstream work is over: finish.                                    *)
Finish(l) ==
  /\ loop[l].pc = "downstream"
  /\ entry' = Finished
  /\ loop' = [loop EXCEPT ![l] = IF LoopsAgain THEN At(Idle, "top") ELSE Idle]
  /\ LoopUnchanged /\ UNCHANGED <<parsed, wm, panics, unread, resolved>>

(* The loop's own code panics: ParseLoopGuard clears the entry.            *)
Panic(l) ==
  /\ loop[l].pc \in {"read", "parse", "advance", "downstream"}
  /\ panics < MaxPanics
  /\ panics' = panics + 1
  /\ entry' = NoEntry
  /\ loop' = [loop EXCEPT ![l] = Idle]
  /\ unread' = FALSE
  /\ LoopUnchanged /\ UNCHANGED <<parsed, wm, resolved>>

LoopStep(l) ==
  \/ StartPass(l) \/ ReadInputs(l) \/ ParseAndInstall(l) \/ AdvanceWatermark(l)
  \/ CheckOpen(l) \/ Stop(l) \/ Finish(l)

OpenerStep(i) == OpenerReads(i) \/ OpenerInstalls(i) \/ OpenerAdvances(i)

Next ==
  \/ \E skip_parse \in BOOLEAN : DidOpen(skip_parse)
  \/ EditText \/ ScheduleEdit \/ DidClose
  \/ Reload \/ ScheduleReload \/ Shutdown
  \/ \E i \in 1..MaxOpens : OpenerStep(i)
  \/ \E l \in Loop : LoopStep(l) \/ Panic(l)

(* Handlers and spawned tasks are run to their end by the runtime; nothing *)
(* obliges the client to send anything.                                    *)
Fairness ==
  /\ WF_vars(ScheduleEdit) /\ WF_vars(ScheduleReload)
  /\ \A i \in 1..MaxOpens : WF_vars(OpenerStep(i))
  /\ \A l \in Loop : WF_vars(LoopStep(l))

Safety == Init /\ [][Next]_vars
Spec == Safety /\ Fairness

-----------------------------------------------------------------------------
Live(l) == loop[l].pc # "idle"

Text == [inc : 0..MaxOpens, ver : 0..MaxVersion, ticket : Nat]

TypeOK ==
  /\ doc \in Text /\ opens \in 0..MaxOpens /\ tail \in Nat
  /\ editing \in BOOLEAN /\ parsed \in 0..MaxVersion
  /\ wm \in [inc : 0..MaxOpens, ticket : Nat]
  /\ entry \in [on : BOOLEAN, dirty : BOOLEAN, ticket : Nat]
  /\ loop \in [Loop -> [pc : {"idle", "top", "read", "parse", "advance", "check",
                              "downstream", "stop"},
                        ticket : Nat, read : Text]]
  /\ opener \in [1..MaxOpens -> [pc : {"idle", "open", "installing", "parse",
                                       "reparse", "advance"},
                                 ticket : Nat, read : Text]]
  /\ reload \in {"none", "invalidated"} /\ reloads \in 0..MaxReloads
  /\ panics \in 0..MaxPanics /\ shutdown \in BOOLEAN
  /\ unread \in BOOLEAN /\ resolved \in Nat

(* At most one loop parses the document: an edit while one runs marks it   *)
(* dirty, and no loop's exit takes away the entry of another.              *)
SingleLoop == \A k, l \in Loop : Live(k) /\ Live(l) => k = l

(* An entry belongs to a running loop.  One that outlived its loop would   *)
(* wedge the document: every later edit would only mark it dirty.          *)
EntryHasLoop == entry.on => \E l \in Loop : Live(l)

(* The document's loop and its entry come and go together.                 *)
LoopAndEntryAgree == SingleLoop /\ EntryHasLoop

(* An edit that was scheduled is read by some pass: a running loop has     *)
(* still to read the text, in this pass or, being dirty, in the next.      *)
NoLostWakeup ==
  unread /\ ~shutdown => \E l \in Loop :
              \/ loop[l].pc \in {"top", "read"}
              \/ Live(l) /\ entry.on /\ entry.dirty

(* The watermark is the open lifetime's own, and never ahead of a writer   *)
(* whose text no finished pass has read.                                   *)
WatermarkHonest == IsOpen => wm.inc = doc.inc /\ wm.ticket <= resolved

(* Once the client stops editing, the document's current version has a     *)
(* published tree, however edits, reloads and passes were interleaved,     *)
(* unless a pass panicked.                                                 *)
EveryVersionIsParsed ==
  \A i \in 1..MaxOpens, v \in 1..MaxVersion :
    (doc.inc = i /\ doc.ver = v)
      ~> (~(doc.inc = i /\ doc.ver = v) \/ parsed = v \/ shutdown \/ panics > 0)
=============================================================================
