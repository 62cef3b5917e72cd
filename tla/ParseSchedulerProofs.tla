------------------------ MODULE ParseSchedulerProofs ------------------------
(***************************************************************************)
(* Proofs about ParseScheduler, for any number of loop slots, lifetimes,   *)
(* versions, reloads and panics: at most one parse loop runs, and a        *)
(* scheduler entry never outlives its loop; and, as long as no document is *)
(* reopened over a running loop, no edit is lost and the watermark is      *)
(* honest.                                                                 *)
(*                                                                         *)
(* The argument: an entry exists exactly while a loop runs (EntryIffLoop), *)
(* so schedule spawns only when none does.  What makes it inductive is     *)
(* that each of the three ways out of the loop (finish, clear, the panic   *)
(* guard) removes the entry and the loop together.                         *)
(***************************************************************************)
EXTENDS ParseScheduler, TLAPS

SomeLive == \E l \in Loop : Live(l)

(* The inductive invariant. *)
EntryIffLoop == entry.on <=> SomeLive
IInv == TypeOK /\ EntryIffLoop /\ SingleLoop

-----------------------------------------------------------------------------
(* The fields of a value of type Text.                                     *)
LEMMA TextFields ==
  ASSUME NEW t \in Text
  PROVE  t.inc \in 0..MaxOpens /\ t.ver \in 0..MaxVersion /\ t.ticket \in Nat
  BY DEF Text

(* An idle task, and the document's inputs, are well typed.                *)
LEMMA ClosedIsText == Closed \in Text
  BY SchedulerAssumption DEF Closed, Text, NoTicket

(* The state of a closed document is well typed.                           *)
LEMMA ClosedTypes ==
  /\ NoWatermark \in [inc : 0..MaxOpens, ticket : Nat]
  /\ 0 \in 0..MaxOpens /\ 0 \in 0..MaxVersion /\ 0 \in 0..MaxReloads /\ 0 \in 0..MaxPanics
  BY SchedulerAssumption DEF NoWatermark

(* The larger of two naturals is one.                                      *)
LEMMA LaterType == \A a, b \in Nat : Later(a, b) \in Nat
  BY DEF Later

LoopState ==
  [pc : {"idle", "top", "read", "parse", "advance", "check", "downstream", "stop"},
   ticket : Nat, read : Text]
OpenerState ==
  [pc : {"idle", "open", "installing", "parse", "reparse", "advance"},
   ticket : Nat, read : Text]

(* Moving a loop to another place keeps its other fields.                  *)
LEMMA AtType ==
  ASSUME NEW s \in LoopState,
         NEW pc \in {"idle", "top", "read", "parse", "advance", "check", "downstream", "stop"}
  PROVE  At(s, pc) \in LoopState /\ At(s, pc).pc = pc
  BY DEF At, LoopState

(* An idle loop is one, and may be sent to the top.                        *)
LEMMA IdleType ==
  /\ Idle \in LoopState /\ Idle.pc = "idle" /\ At(Idle, "top") \in LoopState
  /\ At(Idle, "top").pc = "top"
  /\ Idle \in OpenerState /\ At(Idle, "installing") \in OpenerState
  BY ClosedIsText DEF Idle, At, LoopState, OpenerState, NoTicket

(* What a step has to show of the scheduler's entry and its loops. *)
EntryAndLoops ==
  /\ entry \in [on : BOOLEAN, dirty : BOOLEAN, ticket : Nat]
  /\ loop \in [Loop -> LoopState]
  /\ EntryIffLoop /\ SingleLoop

(* The invariant says that of the state. *)
LEMMA IInvEntryAndLoops == IInv => EntryAndLoops
  BY DEF IInv, TypeOK, EntryAndLoops, LoopState

(* A loop that moves on, with the entry neither created nor removed.       *)
LEMMA LoopMoves ==
  ASSUME EntryAndLoops, NEW l \in Loop, Live(l),
         NEW s \in LoopState, s.pc # "idle", loop' = [loop EXCEPT ![l] = s],
         entry' \in [on : BOOLEAN, dirty : BOOLEAN, ticket : Nat], entry'.on = entry.on
  PROVE  EntryAndLoops'
  <1>1. /\ loop' \in [Loop -> LoopState]
        /\ \A k \in Loop : loop'[k] = IF k = l THEN s ELSE loop[k]
    BY DEF EntryAndLoops
  <1>2. \A k \in Loop : Live(k)' <=> Live(k)
    BY <1>1 DEF Live
  <1>3. SingleLoop' /\ (SomeLive' <=> SomeLive)
    BY <1>2 DEF EntryAndLoops, SingleLoop, SomeLive
  <1> QED
    BY <1>1, <1>3 DEF EntryAndLoops, EntryIffLoop

(* A loop that ends takes its entry with it. *)
LEMMA LoopEnds ==
  ASSUME EntryAndLoops, NEW l \in Loop, Live(l),
         loop' = [loop EXCEPT ![l] = Idle], entry' = NoEntry
  PROVE  EntryAndLoops'
  <1>1. /\ loop' \in [Loop -> LoopState]
        /\ \A k \in Loop : loop'[k] = IF k = l THEN Idle ELSE loop[k]
    BY IdleType DEF EntryAndLoops
  <1>2. \A k \in Loop : ~Live(k)'
    BY <1>1, IdleType DEF EntryAndLoops, SingleLoop, Live
  <1>3. NoEntry \in [on : BOOLEAN, dirty : BOOLEAN, ticket : Nat] /\ NoEntry.on = FALSE
    BY DEF NoEntry, NoTicket
  <1> QED
    BY <1>1, <1>2, <1>3 DEF EntryAndLoops, EntryIffLoop, SingleLoop, SomeLive

(* schedule spawns a loop only when none runs. *)
LEMMA Schedules ==
  ASSUME EntryAndLoops, NEW t \in Nat, Schedule(t)
  PROVE  EntryAndLoops'
  <1>1. CASE entry.on
    <2>1. /\ loop' = loop
          /\ entry' = [on |-> TRUE, dirty |-> TRUE, ticket |-> Later(entry.ticket, t)]
      BY <1>1 DEF Schedule
    <2>2. entry.ticket \in Nat /\ Later(entry.ticket, t) \in Nat
      BY LaterType DEF EntryAndLoops
    <2> QED
      BY <1>1, <2>1, <2>2 DEF EntryAndLoops, EntryIffLoop, SomeLive, SingleLoop, Live
  <1>2. CASE ~entry.on
    <2>1. entry' = [on |-> TRUE, dirty |-> FALSE, ticket |-> t]
      BY <1>2 DEF Schedule
    <2>2. PICK l \in Loop : loop' = [loop EXCEPT ![l] = At(Idle, "top")]
      BY <1>2 DEF Schedule
    <2>3. /\ loop' \in [Loop -> LoopState]
          /\ \A k \in Loop : loop'[k] = IF k = l THEN At(Idle, "top") ELSE loop[k]
      BY <2>2, IdleType DEF EntryAndLoops
    <2>4. \A k \in Loop : ~Live(k)
      BY <1>2 DEF EntryAndLoops, EntryIffLoop, SomeLive
    <2>5. \A k \in Loop : Live(k)' <=> k = l
      BY <2>3, <2>4, IdleType DEF Live
    <2> QED
      BY <2>1, <2>3, <2>5 DEF EntryAndLoops, EntryIffLoop, SomeLive, SingleLoop
  <1> QED
    BY <1>1, <1>2

(* A step that touches neither keeps both as they are. *)
LEMMA NeitherTouched ==
  ASSUME EntryAndLoops, entry' = entry, loop' = loop
  PROVE  EntryAndLoops'
  BY DEF EntryAndLoops, EntryIffLoop, SomeLive, SingleLoop, Live

(* Every step keeps an entry to each running loop, and no second loop. *)
LEMMA NextEntryAndLoops == IInv /\ [Next]_vars => EntryAndLoops'
  <1> SUFFICES ASSUME IInv, [Next]_vars
               PROVE  EntryAndLoops'
    OBVIOUS
  <1> USE IInvEntryAndLoops
  <1> doc.ticket \in Nat /\ NoTicket \in Nat /\ entry.ticket \in Nat
    BY TextFields DEF IInv, TypeOK, NoTicket
  <1>1. ASSUME ScheduleEdit \/ ScheduleReload
        PROVE  EntryAndLoops'
    BY <1>1, Schedules DEF ScheduleEdit, ScheduleReload
  <1>2. ASSUME entry' = entry, loop' = loop
        PROVE  EntryAndLoops'
    BY <1>2, NeitherTouched
  <1>3. ASSUME NEW l \in Loop, LoopStep(l) \/ Panic(l)
        PROVE  EntryAndLoops'
    <2> USE <1>3
    <2>1. loop[l] \in LoopState /\ TypeOK
      BY DEF EntryAndLoops, IInv
    <2>2. \A pc \in {"read", "parse", "check", "advance", "downstream", "stop", "top"} :
            /\ At(loop[l], pc) \in LoopState /\ At(loop[l], pc).pc = pc
      BY <2>1, AtType
    <2>3. CASE StartPass(l)
      <3>1. Live(l)
        BY <2>3 DEF StartPass, Live
      <3>2. CASE shutdown
        BY <2>2, <2>3, <3>1, <3>2, LoopMoves
           DEF StartPass, Goto, EntryAndLoops
      <3>3. CASE ~shutdown
        <4>1. /\ Started \in [on : BOOLEAN, dirty : BOOLEAN, ticket : Nat]
              /\ Started.on = entry.on
          BY DEF Started, EntryAndLoops
        <4> DEFINE s == [pc |-> "read", ticket |-> PassTicket, read |-> Closed]
        <4>2. s \in LoopState /\ s.pc = "read"
          BY ClosedIsText DEF LoopState, PassTicket
        <4> QED
          BY <2>3, <3>1, <3>3, <4>1, <4>2, LoopMoves DEF StartPass
      <3> QED
        BY <3>2, <3>3
    <2>4. CASE ReadInputs(l)
      <3>1. Live(l) /\ entry' = entry
        BY <2>4 DEF ReadInputs, Live
      <3>2. CASE IsOpen
        <4> DEFINE s == [pc |-> "parse", ticket |-> loop[l].ticket, read |-> doc]
        <4>1. s \in LoopState /\ s.pc = "parse"
          BY <2>1 DEF LoopState, TypeOK
        <4> QED
          BY <2>4, <3>1, <3>2, <4>1, LoopMoves DEF ReadInputs, EntryAndLoops
      <3>3. CASE ~IsOpen
        BY <2>2, <2>4, <3>1, <3>3, LoopMoves DEF ReadInputs, Goto, EntryAndLoops
      <3> QED
        BY <3>2, <3>3
    <2>5. CASE ParseAndInstall(l) \/ AdvanceWatermark(l) \/ CheckOpen(l)
      <3>1. Live(l) /\ entry' = entry
        BY <2>5 DEF ParseAndInstall, AdvanceWatermark, CheckOpen, Live
      <3>2. PICK pc \in {"advance", "check", "downstream", "stop"} : Goto(l, pc)
        BY <2>5 DEF ParseAndInstall, AdvanceWatermark, CheckOpen
      <3> QED
        BY <2>2, <3>1, <3>2, LoopMoves DEF Goto, EntryAndLoops
    <2>6. CASE Stop(l) \/ Panic(l)
      <3>1. Live(l) /\ entry' = NoEntry /\ loop' = [loop EXCEPT ![l] = Idle]
        BY <2>6 DEF Stop, Panic, Live
      <3> QED
        BY <3>1, LoopEnds
    <2>7. CASE Finish(l)
      <3>1. Live(l)
        BY <2>7 DEF Finish, Live
      <3>2. CASE LoopsAgain
        BY <2>7, <3>1, <3>2, LoopMoves, IdleType DEF Finish, Finished, EntryAndLoops
      <3>3. CASE ~LoopsAgain
        BY <2>7, <3>1, <3>3, LoopEnds DEF Finish, Finished
      <3> QED
        BY <3>2, <3>3
    <2> QED
      BY <1>3, <2>3, <2>4, <2>5, <2>6, <2>7 DEF LoopStep
  <1>4. CASE UNCHANGED vars
    BY <1>2, <1>4 DEF vars
  <1> QED
    BY <1>1, <1>2, <1>3, <1>4
       DEF Next, DidOpen, EditText, DidClose, Reload, Shutdown,
           OpenerStep, OpenerReads, OpenerInstalls, OpenerAdvances, OpenerUnchanged

-----------------------------------------------------------------------------
(* The types of everything but the entry and the loops. *)
OtherTypes ==
  /\ doc \in Text /\ opens \in 0..MaxOpens /\ tail \in Nat
  /\ editing \in BOOLEAN /\ parsed \in 0..MaxVersion
  /\ wm \in [inc : 0..MaxOpens, ticket : Nat]
  /\ opener \in [1..MaxOpens -> OpenerState]
  /\ reload \in {"none", "invalidated"} /\ reloads \in 0..MaxReloads
  /\ panics \in 0..MaxPanics /\ shutdown \in BOOLEAN
  /\ unread \in BOOLEAN /\ resolved \in Nat

(* TypeOK is the two parts. *)
LEMMA TypeOKParts ==
  TypeOK <=> /\ OtherTypes
             /\ entry \in [on : BOOLEAN, dirty : BOOLEAN, ticket : Nat]
             /\ loop \in [Loop -> LoopState]
  BY DEF TypeOK, OtherTypes, LoopState, OpenerState

(* What a pass does to the published version, the history and the          *)
(* watermark keeps their types.                                            *)
LEMMA PassTypes ==
  ASSUME TypeOK, NEW r \in Text, NEW t \in Nat, NEW i
  PROVE  /\ Parsed(r) \subseteq 0..MaxVersion
         /\ Resolved(r) \in Nat
         /\ AdvanceFor(i, t) \in [inc : 0..MaxOpens, ticket : Nat]
  <1>1. r.ver \in 0..MaxVersion /\ r.ticket \in Nat
    BY TextFields
  <1>2. /\ parsed \in 0..MaxVersion /\ resolved \in Nat
        /\ wm \in [inc : 0..MaxOpens, ticket : Nat] /\ wm.ticket \in Nat
    BY DEF TypeOK
  <1>3. Later(resolved, r.ticket) \in Nat /\ Later(wm.ticket, t) \in Nat
    BY <1>1, <1>2, LaterType
  <1>4. Parsed(r) \subseteq 0..MaxVersion
    BY <1>1, <1>2 DEF Parsed, Installed
  <1>5. Resolved(r) \in Nat
    BY <1>2, <1>3 DEF Resolved
  <1>6. AdvanceFor(i, t) \in [inc : 0..MaxOpens, ticket : Nat]
    BY <1>2, <1>3 DEF AdvanceFor, Advance
  <1> QED
    BY <1>4, <1>5, <1>6

(* Every step of a task the didOpen spawned keeps the types. *)
LEMMA OpenerTypes ==
  ASSUME TypeOK, NEW i \in 1..MaxOpens, OpenerStep(i)
  PROVE  OtherTypes'
  <1>1. OtherTypes /\ opener[i] \in OpenerState
    BY TypeOKParts DEF OtherTypes
  <1>2. /\ opener[i].ticket \in Nat /\ opener[i].read \in Text /\ doc \in Text
    BY <1>1 DEF OpenerState, OtherTypes
  <1>3. /\ UNCHANGED <<doc, opens, tail, editing, reload, reloads, panics, shutdown, unread>>
    BY DEF OpenerStep, OpenerReads, OpenerInstalls, OpenerAdvances, OpenerUnchanged
  <1>4. ASSUME NEW s \in OpenerState
        PROVE  [opener EXCEPT ![i] = s] \in [1..MaxOpens -> OpenerState]
    BY <1>1 DEF OtherTypes
  <1>5. CASE OpenerReads(i)
    <2> DEFINE s == [pc |-> IF opener[i].pc = "open" THEN "parse" ELSE "reparse",
                     ticket |-> opener[i].ticket, read |-> doc]
    <2>1. s \in OpenerState
      BY <1>2 DEF OpenerState
    <2>2. opener' = [opener EXCEPT ![i] = s] \/ opener' = [opener EXCEPT ![i] = Idle]
      BY <1>5, <1>1 DEF OpenerReads, OtherTypes
    <2>3. opener' \in [1..MaxOpens -> OpenerState]
      BY <1>4, <2>1, <2>2, IdleType
    <2>4. UNCHANGED <<parsed, wm, resolved>>
      BY <1>5 DEF OpenerReads
    <2> QED
      BY <1>1, <1>3, <2>3, <2>4 DEF OtherTypes
  <1>6. CASE OpenerInstalls(i)
    <2>1. parsed' \in 0..MaxVersion /\ resolved' \in Nat /\ wm' = wm
      BY <1>2, <1>6, PassTypes DEF OpenerInstalls
    <2>2. At(opener[i], "advance") \in OpenerState
      BY <1>1 DEF At, OpenerState
    <2>3. opener' \in { [opener EXCEPT ![i] = At(opener[i], "advance")],
                        [opener EXCEPT ![i] = Idle],
                        [opener EXCEPT ![i] = At(Idle, "installing")] }
      BY <1>6 DEF OpenerInstalls
    <2>4. opener' \in [1..MaxOpens -> OpenerState]
      BY <1>4, <2>2, <2>3, IdleType
    <2> QED
      BY <1>1, <1>3, <2>1, <2>4 DEF OtherTypes
  <1>7. CASE OpenerAdvances(i)
    <2>1. wm' \in [inc : 0..MaxOpens, ticket : Nat]
      BY <1>2, <1>7, PassTypes DEF OpenerAdvances
    <2>2. opener' \in [1..MaxOpens -> OpenerState]
      BY <1>4, <1>7, IdleType DEF OpenerAdvances
    <2>3. UNCHANGED <<parsed, resolved>>
      BY <1>7 DEF OpenerAdvances
    <2> QED
      BY <1>1, <1>3, <2>1, <2>2, <2>3 DEF OtherTypes
  <1> QED
    BY <1>5, <1>6, <1>7 DEF OpenerStep

(* Every step of a loop keeps the types. *)
LEMMA LoopTypes ==
  ASSUME TypeOK, NEW l \in Loop, LoopStep(l) \/ Panic(l)
  PROVE  OtherTypes'
  <1>1. OtherTypes /\ loop[l].ticket \in Nat /\ loop[l].read \in Text
    BY TypeOKParts DEF LoopState
  <1>2. UNCHANGED <<doc, opens, tail, editing, opener, reload, reloads, shutdown>>
    BY DEF LoopStep, StartPass, ReadInputs, ParseAndInstall, AdvanceWatermark, CheckOpen,
           Stop, Finish, Panic, LoopUnchanged
  <1>3. unread' \in BOOLEAN
    BY <1>1 DEF LoopStep, StartPass, ReadInputs, ParseAndInstall, AdvanceWatermark, CheckOpen,
           Stop, Finish, Panic, OtherTypes
  <1>4. panics' \in 0..MaxPanics
    BY <1>1, SchedulerAssumption
       DEF LoopStep, StartPass, ReadInputs, ParseAndInstall, AdvanceWatermark, CheckOpen,
           Stop, Finish, Panic, OtherTypes
  <1>5. parsed' \in 0..MaxVersion /\ resolved' \in Nat
    BY <1>1, PassTypes DEF LoopStep, StartPass, ReadInputs, ParseAndInstall,
       AdvanceWatermark, CheckOpen, Stop, Finish, Panic, OtherTypes
  <1>6. wm' \in [inc : 0..MaxOpens, ticket : Nat]
    BY <1>1, PassTypes DEF LoopStep, StartPass, ReadInputs, ParseAndInstall,
       AdvanceWatermark, CheckOpen, Stop, Finish, Panic, OtherTypes
  <1> QED
    BY <1>1, <1>2, <1>3, <1>4, <1>5, <1>6 DEF OtherTypes

(* Every handler keeps the types. *)
LEMMA HandlerTypes ==
  ASSUME TypeOK,
         \/ \E skip_parse \in BOOLEAN : DidOpen(skip_parse)
         \/ EditText \/ ScheduleEdit \/ DidClose \/ Reload \/ ScheduleReload \/ Shutdown
  PROVE  OtherTypes'
  <1>1. OtherTypes /\ doc.inc \in 0..MaxOpens /\ doc.ver \in 0..MaxVersion /\ doc.ticket \in Nat
    BY TypeOKParts, TextFields DEF OtherTypes
  <1>2. ASSUME NEW skip_parse \in BOOLEAN, DidOpen(skip_parse)
        PROVE  OtherTypes'
    <2> DEFINE s == [pc |-> IF skip_parse THEN "installing" ELSE "open",
                     ticket |-> IF skip_parse THEN NoTicket ELSE tail + 1, read |-> Closed]
    <2>1. opens + 1 \in 1..MaxOpens /\ tail + 1 \in Nat
      BY <1>1, <1>2, SchedulerAssumption DEF DidOpen, OtherTypes
    <2>2. s \in OpenerState
      BY <2>1, ClosedIsText DEF OpenerState, NoTicket
    <2>3. opener' = [opener EXCEPT ![opens + 1] = s]
      BY <1>2 DEF DidOpen
    <2>4. opener' \in [1..MaxOpens -> OpenerState]
      BY <1>1, <2>1, <2>2, <2>3 DEF OtherTypes
    <2>5. doc' = [inc |-> opens + 1, ver |-> 1, ticket |-> tail + 1]
      BY <1>2 DEF DidOpen
    <2>6. doc' \in Text
      BY <2>1, <2>5, SchedulerAssumption DEF Text
    <2>7. /\ wm' \in [inc : 0..MaxOpens, ticket : Nat] /\ resolved' \in Nat
          /\ parsed' \in 0..MaxVersion /\ opens' \in 0..MaxOpens /\ tail' \in Nat
      BY <1>2, <2>1, SchedulerAssumption DEF DidOpen
    <2>8. UNCHANGED <<editing, reload, reloads, panics, shutdown, unread>>
      BY <1>2 DEF DidOpen
    <2> QED
      BY <1>1, <2>4, <2>6, <2>7, <2>8 DEF OtherTypes
  <1>3. ASSUME EditText \/ Reload
        PROVE  OtherTypes'
    <2>1. doc.ver + 1 \in 0..MaxVersion
      BY <1>1, <1>3, SchedulerAssumption DEF EditText, Reload
    <2>2. CASE EditText
      <3>1. doc' = [inc |-> doc.inc, ver |-> doc.ver + 1, ticket |-> tail + 1] /\ tail + 1 \in Nat
        BY <1>1, <2>2 DEF EditText, OtherTypes, Text
      <3>2. doc' \in Text
        BY <1>1, <2>1, <3>1 DEF Text
      <3> QED
        BY <1>1, <2>2, <3>1, <3>2 DEF EditText, OtherTypes
    <2>3. CASE Reload
      <3>1. doc' = [inc |-> doc.inc, ver |-> doc.ver + 1, ticket |-> doc.ticket]
        BY <1>1, <2>3 DEF Reload, OtherTypes, Text
      <3>2. doc' \in Text
        BY <1>1, <2>1, <3>1 DEF Text
      <3>3. parsed' \in 0..MaxVersion /\ reloads' \in 0..MaxReloads
        BY <1>1, <2>3, SchedulerAssumption DEF Reload, OtherTypes
      <3> QED
        BY <1>1, <2>3, <3>2, <3>3 DEF Reload, OtherTypes
    <2> QED
      BY <1>3, <2>2, <2>3
  <1>4. ASSUME ScheduleEdit \/ ScheduleReload \/ Shutdown
        PROVE  OtherTypes'
    <2>1. unread' \in BOOLEAN
      BY <1>1, <1>4 DEF ScheduleEdit, ScheduleReload, Shutdown, Schedule, IsOpen, OtherTypes
    <2> QED
      BY <1>1, <1>4, <2>1 DEF ScheduleEdit, ScheduleReload, Shutdown, OtherTypes
  <1>5. ASSUME DidClose
        PROVE  OtherTypes'
    <2>1. /\ doc' = Closed /\ wm' = NoWatermark /\ parsed' = 0 /\ resolved' = 0
          /\ tail' \in {0, tail + 1} /\ unread' = FALSE
          /\ UNCHANGED <<opens, editing, opener, reload, reloads, panics, shutdown>>
      BY <1>5 DEF DidClose
    <2>2. tail' \in Nat
      BY <1>1, <2>1 DEF OtherTypes
    <2> QED
      BY <1>1, <2>1, <2>2, ClosedIsText, ClosedTypes DEF OtherTypes
  <1> QED
    BY <1>2, <1>3, <1>4, <1>5

(* The initial state satisfies the invariant. *)
LEMMA InitIInv == Init => IInv
  <1> SUFFICES ASSUME Init
               PROVE  IInv
    OBVIOUS
  <1>1. OtherTypes
    <2>1. opener \in [1..MaxOpens -> OpenerState]
      BY IdleType DEF Init
    <2> QED
      BY <2>1, ClosedIsText, ClosedTypes DEF Init, OtherTypes
  <1>2. /\ entry \in [on : BOOLEAN, dirty : BOOLEAN, ticket : Nat] /\ ~entry.on
        /\ loop \in [Loop -> LoopState] /\ \A l \in Loop : ~Live(l)
    BY IdleType DEF Init, NoEntry, NoTicket, Live
  <1> QED
    BY <1>1, <1>2, TypeOKParts DEF IInv, EntryIffLoop, SomeLive, SingleLoop

(* Every step keeps the invariant. *)
LEMMA NextIInv == IInv /\ [Next]_vars => IInv'
  <1> SUFFICES ASSUME IInv, [Next]_vars
               PROVE  IInv'
    OBVIOUS
  <1>1. TypeOK
    BY DEF IInv
  <1>2. OtherTypes'
    <2>1. CASE UNCHANGED vars
      BY <1>1, <2>1, TypeOKParts DEF vars, OtherTypes
    <2>2. CASE Next
      BY <1>1, <2>2, OpenerTypes, LoopTypes, HandlerTypes DEF Next
    <2> QED
      BY <2>1, <2>2
  <1>3. EntryAndLoops'
    BY NextEntryAndLoops
  <1>4. TypeOK'
    BY <1>2, <1>3 DEF TypeOK, OtherTypes, EntryAndLoops, LoopState, OpenerState
  <1> QED
    BY <1>3, <1>4 DEF IInv, EntryAndLoops

(* The invariant holds of every behaviour. *)
THEOREM InvariantHolds == Safety => []IInv
  BY InitIInv, NextIInv, PTL DEF Safety

(* Every state of the scheduler is well typed. *)
THEOREM TypeCorrect == Safety => []TypeOK
  <1>1. IInv => TypeOK
    BY DEF IInv
  <1> QED
    BY <1>1, InvariantHolds, PTL

(* At most one parse loop runs for the document, whatever edits, closes,   *)
(* reopens, reloads and panics happen around it (ParseScheduler's          *)
(* SingleLoop).                                                            *)
THEOREM SingleLoopHolds == Safety => []SingleLoop
  <1>1. IInv => SingleLoop
    BY DEF IInv
  <1> QED
    BY <1>1, InvariantHolds, PTL

(* A scheduler entry never outlives its loop, so no document is wedged     *)
(* with edits that only mark it dirty (ParseScheduler's EntryHasLoop).     *)
THEOREM EntryHasLoopHolds == Safety => []EntryHasLoop
  <1>1. IInv => EntryHasLoop
    BY DEF IInv, EntryIffLoop, SomeLive, EntryHasLoop
  <1> QED
    BY <1>1, InvariantHolds, PTL

(* The loop of a document and its entry come and go together               *)
(* (ParseScheduler's LoopAndEntryAgree).                                    *)
THEOREM LoopAndEntryAgreeHolds == Safety => []LoopAndEntryAgree
  <1>1. SingleLoop /\ EntryHasLoop => LoopAndEntryAgree
    BY DEF LoopAndEntryAgree
  <1> QED
    BY <1>1, SingleLoopHolds, EntryHasLoopHolds, PTL

-----------------------------------------------------------------------------
(* What a reopen breaks.  NoLostWakeup and WatermarkHonest fail when a     *)
(* document is reopened while the loop of its former lifetime still runs:  *)
(* the loop may already have decided to stop, or hold a ticket of that     *)
(* lifetime.  They hold in every behaviour without such a reopen.          *)

QuietReopen == opens > 0 /\ opens' # opens => \A l \in Loop : ~Live(l)

(* A loop stops of a document that is gone, and an edit that no pass has   *)
(* read is of one that is open.                                            *)
WakeInv ==
  /\ doc.inc <= opens
  /\ editing => IsOpen
  /\ opens = 0 => reload = "none" /\ \A l \in Loop : ~Live(l)
  /\ unread => IsOpen
  /\ \A l \in Loop : loop[l].pc = "stop" /\ ~shutdown => ~IsOpen
  /\ NoLostWakeup

LEMMA InitWake == Init => WakeInv
  <1> SUFFICES ASSUME Init PROVE WakeInv
    OBVIOUS
  <1>1. doc.inc = 0 /\ ~IsOpen /\ opens = 0
    BY DEF Init, Closed, IsOpen
  <1>2. \A l \in Loop : loop[l].pc = "idle"
    BY IdleType DEF Init
  <1> QED
    BY <1>1, <1>2 DEF Init, WakeInv, NoLostWakeup, Live

LEMMA WakeSchedule ==
  ASSUME IInv, WakeInv, NEW t \in Nat, Schedule(t), opens # 0, editing' => editing,
         UNCHANGED <<doc, opens, shutdown>>
  PROVE  WakeInv'
  <1>1. IsOpen' = IsOpen /\ unread' = IsOpen /\ doc' = doc /\ opens' = opens /\ shutdown' = shutdown
    BY DEF Schedule, IsOpen
  <1>2. CASE entry.on
    <2>1. loop' = loop /\ entry'.on /\ entry'.dirty
      BY <1>2 DEF Schedule
    <2>2. PICK l \in Loop : Live(l)
      BY <1>2 DEF IInv, EntryIffLoop, SomeLive
    <2>3. Live(l)'
      BY <2>1, <2>2 DEF Live
    <2> QED
      BY <1>1, <2>1, <2>3 DEF WakeInv, NoLostWakeup
  <1>3. CASE ~entry.on
    <2>1. PICK l \in Loop : loop' = [loop EXCEPT ![l] = At(Idle, "top")]
      BY <1>3 DEF Schedule
    <2>2. /\ loop'[l].pc = "top"
          /\ \A k \in Loop : k # l => loop'[k] = loop[k]
      BY <2>1, IdleType DEF IInv, TypeOK
    <2>3. \A k \in Loop : loop'[k].pc = "stop" => loop[k].pc = "stop"
      BY <2>2
    <2> QED
      BY <1>1, <2>2, <2>3 DEF WakeInv, NoLostWakeup
  <1> QED
    BY <1>2, <1>3

LEMMA WakeHandlers ==
  ASSUME IInv, WakeInv, QuietReopen,
         \/ \E skip_parse \in BOOLEAN : DidOpen(skip_parse)
         \/ EditText \/ ScheduleEdit \/ DidClose \/ Reload \/ ScheduleReload \/ Shutdown
  PROVE  WakeInv'
  <1>1. opens \in Nat /\ doc.inc \in Nat /\ doc.ticket \in Nat /\ NoTicket \in Nat /\ doc \in Text
    BY TextFields, SchedulerAssumption DEF IInv, TypeOK, NoTicket
  <1>2. ASSUME NEW skip_parse \in BOOLEAN, DidOpen(skip_parse)
        PROVE  WakeInv'
    <2>1. /\ ~IsOpen /\ opens' = opens + 1 /\ doc'.inc = opens + 1
          /\ editing' = editing /\ unread' = unread /\ loop' = loop
      BY <1>2 DEF DidOpen
    <2>2. ~editing /\ ~unread
      BY <2>1 DEF WakeInv
    <2>3. \A l \in Loop : ~Live(l)
      BY <1>1, <2>1 DEF WakeInv, QuietReopen
    <2> QED
      BY <1>1, <2>1, <2>2, <2>3 DEF WakeInv, NoLostWakeup, Live
  <1>3. ASSUME EditText \/ Reload
        PROVE  WakeInv'
    <2>1. /\ IsOpen /\ doc'.inc = doc.inc /\ opens' = opens
          /\ unread' = unread /\ loop' = loop /\ entry' = entry /\ shutdown' = shutdown
      BY <1>1, <1>3 DEF EditText, Reload, Text
    <2>2. IsOpen' /\ opens # 0
      BY <1>1, <2>1 DEF IsOpen, WakeInv
    <2> QED
      BY <2>1, <2>2 DEF WakeInv, NoLostWakeup, Live
  <1>4. ASSUME DidClose
        PROVE  WakeInv'
    <2>1. /\ doc'.inc = 0 /\ ~unread' /\ ~editing' /\ opens' = opens /\ loop' = loop /\ reload' = reload
      BY <1>4 DEF DidClose, Closed
    <2> QED
      BY <1>1, <2>1 DEF WakeInv, NoLostWakeup, Live, IsOpen
  <1>5. ASSUME Shutdown
        PROVE  WakeInv'
    BY <1>5 DEF Shutdown, WakeInv, NoLostWakeup, Live, IsOpen
  <1>6. ASSUME ScheduleEdit
        PROVE  WakeInv'
    <2>1. opens # 0
      BY <1>1, <1>6 DEF ScheduleEdit, WakeInv, IsOpen
    <2> QED
      BY <1>1, <1>6, <2>1, WakeSchedule DEF ScheduleEdit
  <1>7. ASSUME ScheduleReload
        PROVE  WakeInv'
    <2>1. opens # 0 /\ Schedule(NoTicket) /\ UNCHANGED <<doc, opens, shutdown, editing>>
      BY <1>7 DEF ScheduleReload, WakeInv
    <2> QED
      BY <1>1, <2>1, WakeSchedule
  <1> QED
    BY <1>2, <1>3, <1>4, <1>5, <1>6, <1>7
(* A loop that runs is the only one, so it is the one that has to read.    *)
LEMMA WakeLoops ==
  ASSUME IInv, WakeInv, NEW l \in Loop, LoopStep(l) \/ Panic(l)
  PROVE  WakeInv'
  <1>1. /\ doc' = doc /\ opens' = opens /\ editing' = editing /\ reload' = reload /\ shutdown' = shutdown
        /\ (IsOpen' <=> IsOpen)
    BY DEF LoopStep, StartPass, ReadInputs, ParseAndInstall, AdvanceWatermark, CheckOpen,
           Stop, Finish, Panic, LoopUnchanged, IsOpen
  <1>2. Live(l) /\ loop \in [Loop -> LoopState] /\ loop[l] \in LoopState
    BY DEF LoopStep, StartPass, ReadInputs, ParseAndInstall, AdvanceWatermark, CheckOpen,
           Stop, Finish, Panic, Live, IInv, TypeOK, LoopState
  <1>3. opens # 0
    BY <1>2 DEF WakeInv
  <1>4. \A k \in Loop : Live(k) => k = l
    BY <1>2 DEF IInv, SingleLoop
  <1>5. \A pc \in {"read", "parse", "check", "advance", "downstream", "stop", "top"} :
          At(loop[l], pc) \in LoopState /\ At(loop[l], pc).pc = pc
    BY <1>2, AtType
  <1>6. ASSUME NEW s, loop' = [loop EXCEPT ![l] = s], s.pc = "stop" => ~IsOpen \/ shutdown,
               unread' => unread,
               unread' /\ ~shutdown => \/ s.pc \in {"top", "read"}
                                       \/ s.pc # "idle" /\ entry'.on /\ entry'.dirty
        PROVE  WakeInv'
    <2>1. loop'[l] = s /\ \A k \in Loop : k # l => loop'[k] = loop[k]
      BY <1>2, <1>6
    <2>2. \A k \in Loop : loop'[k].pc = "stop" /\ ~shutdown => ~IsOpen
      BY <1>6, <2>1 DEF WakeInv
    <2>3. NoLostWakeup'
      BY <1>1, <1>6, <2>1 DEF NoLostWakeup, Live
    <2> QED
      BY <1>1, <1>3, <1>6, <2>2, <2>3 DEF WakeInv
  <1>7. unread /\ ~shutdown => loop[l].pc \in {"top", "read"} \/ (entry.on /\ entry.dirty)
    BY <1>4 DEF WakeInv, NoLostWakeup, Live
  <1>8. unread => IsOpen
    BY DEF WakeInv
  <1>9. CASE StartPass(l)
    <2>1. CASE shutdown
      BY <1>5, <1>6, <1>9, <2>1 DEF StartPass, Goto
    <2>2. CASE ~shutdown
      <3> DEFINE s == [pc |-> "read", ticket |-> PassTicket, read |-> Closed]
      <3>1. loop' = [loop EXCEPT ![l] = s] /\ unread' = unread
        BY <1>9, <2>2 DEF StartPass
      <3>2. s.pc = "read"
        OBVIOUS
      <3> HIDE DEF s
      <3> QED
        BY <1>6, <3>1, <3>2
    <2> QED
      BY <2>1, <2>2
  <1>10. CASE ReadInputs(l)
    <2>1. CASE IsOpen
      <3> DEFINE s == [pc |-> "parse", ticket |-> loop[l].ticket, read |-> doc]
      <3>1. loop' = [loop EXCEPT ![l] = s] /\ ~unread' /\ s.pc = "parse"
        BY <1>10, <2>1 DEF ReadInputs
      <3> HIDE DEF s
      <3> QED
        BY <1>6, <3>1
    <2>2. CASE ~IsOpen
      BY <1>5, <1>6, <1>8, <1>10, <2>2 DEF ReadInputs, Goto
    <2> QED
      BY <2>1, <2>2
  <1>11. CASE ParseAndInstall(l) \/ AdvanceWatermark(l) \/ CheckOpen(l)
    <2>1. PICK pc \in {"advance", "check", "downstream", "stop"} :
            Goto(l, pc) /\ (pc = "stop" => ~IsOpen \/ shutdown)
      BY <1>11 DEF ParseAndInstall, AdvanceWatermark, CheckOpen
    <2>2. unread' = unread /\ entry' = entry /\ loop[l].pc \notin {"top", "read"}
      BY <1>11 DEF ParseAndInstall, AdvanceWatermark, CheckOpen
    <2> QED
      BY <1>5, <1>6, <1>7, <1>8, <2>1, <2>2 DEF Goto
  <1>12. CASE Stop(l)
    <2>1. unread' = unread /\ (unread => shutdown) /\ loop' = [loop EXCEPT ![l] = Idle]
      BY <1>12 DEF Stop, WakeInv
    <2> QED
      BY <1>6, <2>1, IdleType
  <1>13. CASE Finish(l)
    <2>1. loop' = [loop EXCEPT ![l] = IF LoopsAgain THEN At(Idle, "top") ELSE Idle]
          /\ unread' = unread /\ loop[l].pc = "downstream"
      BY <1>13 DEF Finish
    <2> QED
      BY <1>6, <1>7, <2>1, IdleType DEF LoopsAgain
  <1>14. CASE Panic(l)
    BY <1>6, <1>14, IdleType DEF Panic
  <1> QED
    BY <1>9, <1>10, <1>11, <1>12, <1>13, <1>14 DEF LoopStep

LEMMA NextWake == IInv /\ WakeInv /\ [Next]_vars /\ QuietReopen => WakeInv'
  <1> SUFFICES ASSUME IInv, WakeInv, [Next]_vars, QuietReopen PROVE WakeInv'
    OBVIOUS
  <1>1. CASE \E i \in 1..MaxOpens : OpenerStep(i)
    <2>1. UNCHANGED <<doc, opens, editing, entry, loop, reload, shutdown, unread>>
      BY <1>1 DEF OpenerStep, OpenerReads, OpenerInstalls, OpenerAdvances, OpenerUnchanged
    <2> QED
      BY <2>1 DEF WakeInv, NoLostWakeup, Live, IsOpen
  <1>2. CASE UNCHANGED vars
    BY <1>2 DEF vars, WakeInv, NoLostWakeup, Live, IsOpen
  <1> QED
    BY <1>1, <1>2, WakeHandlers, WakeLoops DEF Next

(* No edit is lost (ParseScheduler's NoLostWakeup), unless a document is   *)
(* reopened while the loop of its former lifetime still runs.              *)
THEOREM QuietReopensWake == Safety /\ [][QuietReopen]_vars => []NoLostWakeup
  <1>1. IInv /\ WakeInv /\ [Next]_vars /\ [QuietReopen]_vars => WakeInv'
    <2>1. UNCHANGED vars => QuietReopen
      BY DEF vars, QuietReopen
    <2> QED
      BY <2>1, NextWake
  <1>2. WakeInv => NoLostWakeup
    BY DEF WakeInv
  <1> QED
    BY <1>1, <1>2, InitWake, InvariantHolds, PTL DEF Safety
-----------------------------------------------------------------------------
(* The ticket of a parse is not ahead of the text it read, nor of what has *)
(* been read once it is over, as long as its lifetime is the open one.     *)
OpenerHonest(i) ==
  /\ opener[i].pc = "open" /\ doc.inc = i => opener[i].ticket <= doc.ticket
  /\ opener[i].pc = "parse" => opener[i].ticket <= opener[i].read.ticket
  /\ opener[i].pc \in {"parse", "advance"} => opener[i].read.inc = i
  /\ opener[i].pc = "advance" /\ doc.inc = i => opener[i].ticket <= resolved

LoopHonest(l) ==
  /\ loop[l].pc = "read" /\ IsOpen => loop[l].ticket <= doc.ticket
  /\ loop[l].pc = "parse" => loop[l].ticket <= loop[l].read.ticket
  /\ loop[l].pc \in {"parse", "advance"} => loop[l].read.inc # 0
  /\ loop[l].pc = "advance" /\ loop[l].read.inc = doc.inc => loop[l].ticket <= resolved

HonestInv ==
  /\ doc.ticket <= tail
  /\ wm.inc = doc.inc /\ wm.ticket <= resolved
  /\ entry.on /\ IsOpen => entry.ticket <= doc.ticket
  /\ \A i \in 1..MaxOpens : OpenerHonest(i)
  /\ \A l \in Loop : LoopHonest(l)

LEMMA InitHonest == Init => HonestInv
  <1> SUFFICES ASSUME Init PROVE HonestInv
    OBVIOUS
  <1>1. doc.ticket = 0 /\ doc.inc = 0 /\ wm.ticket = 0 /\ wm.inc = 0 /\ ~entry.on
    BY DEF Init, Closed, NoWatermark, NoEntry, NoTicket
  <1>2. /\ \A l \in Loop : loop[l].pc = "idle"
        /\ \A i \in 1..MaxOpens : opener[i].pc = "idle"
    BY IdleType DEF Init
  <1> QED
    BY <1>1, <1>2 DEF Init, HonestInv, OpenerHonest, LoopHonest

(* The numbers the invariant compares.                                     *)
LEMMA Numbers ==
  ASSUME IInv
  PROVE  /\ doc \in Text /\ doc.inc \in Nat /\ doc.ticket \in Nat /\ tail \in Nat /\ resolved \in Nat
         /\ wm \in [inc : 0..MaxOpens, ticket : Nat] /\ wm.inc \in Nat /\ wm.ticket \in Nat
         /\ entry.ticket \in Nat /\ opens \in Nat
         /\ loop \in [Loop -> LoopState]
         /\ \A l \in Loop : loop[l].ticket \in Nat /\ loop[l].read \in Text /\ loop[l].read.ticket \in Nat
         /\ opener \in [1..MaxOpens -> OpenerState]
         /\ \A i \in 1..MaxOpens : opener[i].ticket \in Nat /\ opener[i].read \in Text /\ opener[i].read.ticket \in Nat
  <1>1. /\ doc \in Text /\ tail \in Nat /\ resolved \in Nat /\ opens \in Nat /\ entry.ticket \in Nat
        /\ wm \in [inc : 0..MaxOpens, ticket : Nat]
        /\ loop \in [Loop -> LoopState] /\ opener \in [1..MaxOpens -> OpenerState]
    BY SchedulerAssumption DEF IInv, TypeOK, LoopState, OpenerState
  <1>2. \A t \in Text : t.inc \in Nat /\ t.ticket \in Nat
    BY SchedulerAssumption DEF Text
  <1>3. \A l \in Loop : loop[l].ticket \in Nat /\ loop[l].read \in Text
    BY <1>1 DEF LoopState
  <1>4. \A i \in 1..MaxOpens : opener[i].ticket \in Nat /\ opener[i].read \in Text
    BY <1>1 DEF OpenerState
  <1>5. wm.inc \in Nat /\ wm.ticket \in Nat
    BY <1>1, SchedulerAssumption
  <1> QED
    BY <1>1, <1>2, <1>3, <1>4, <1>5

(* What a finished pass adds to the history and to the watermark.          *)
LEMMA PassHonest ==
  ASSUME IInv, HonestInv, NEW r \in Text
  PROVE  /\ Resolved(r) \in Nat /\ resolved <= Resolved(r)
         /\ r.inc = doc.inc /\ r.inc # 0 => r.ticket <= Resolved(r)
         /\ \A t \in Nat : \A i : (i = doc.inc => t <= resolved) =>
              AdvanceFor(i, t).inc = doc.inc /\ AdvanceFor(i, t).ticket <= resolved
  <1>1. r.ticket \in Nat
    BY TextFields
  <1>2. Resolved(r) \in Nat /\ resolved <= Resolved(r) /\ (r.inc = doc.inc /\ r.inc # 0 => r.ticket <= Resolved(r))
    BY <1>1, Numbers DEF Resolved, Later, IsOpen
  <1>3. ASSUME NEW t \in Nat, NEW i, i = doc.inc => t <= resolved
        PROVE  AdvanceFor(i, t).inc = doc.inc /\ AdvanceFor(i, t).ticket <= resolved
    <2>1. wm.inc = doc.inc /\ wm.ticket <= resolved
      BY DEF HonestInv
    <2>2. Advance(t).inc = wm.inc /\ Advance(t).ticket = Later(wm.ticket, t)
      BY Numbers DEF Advance
    <2> QED
      BY <1>3, <2>1, <2>2, Numbers DEF AdvanceFor, Later
  <1> QED
    BY <1>2, <1>3

(* Later resolutions leave the others honest.                              *)
LEMMA ResolvedLater ==
  ASSUME IInv, HonestInv, doc' = doc, resolved' \in Nat, resolved <= resolved'
  PROVE  /\ \A i \in 1..MaxOpens : opener'[i] = opener[i] => OpenerHonest(i)'
         /\ \A l \in Loop : loop'[l] = loop[l] => LoopHonest(l)'
  <1>1. ASSUME NEW i \in 1..MaxOpens, opener'[i] = opener[i] PROVE OpenerHonest(i)'
    BY <1>1, Numbers DEF HonestInv, OpenerHonest
  <1>2. ASSUME NEW l \in Loop, loop'[l] = loop[l] PROVE LoopHonest(l)'
    BY <1>2, Numbers DEF HonestInv, LoopHonest, IsOpen
  <1> QED
    BY <1>1, <1>2

LEMMA HonestOpeners ==
  ASSUME IInv, IInv', HonestInv, NEW i \in 1..MaxOpens, OpenerStep(i)
  PROVE  HonestInv'
  <1>1. doc' = doc /\ tail' = tail /\ entry' = entry /\ loop' = loop /\ IsOpen' = IsOpen
    BY DEF OpenerStep, OpenerReads, OpenerInstalls, OpenerAdvances, OpenerUnchanged, IsOpen
  <1>2. ASSUME NEW s, opener' = [opener EXCEPT ![i] = s], OpenerHonest(i)',
               resolved' \in Nat, resolved <= resolved', wm'.inc = doc.inc, wm'.ticket <= resolved'
        PROVE  HonestInv'
    <2>1. \A k \in 1..MaxOpens : k # i => opener'[k] = opener[k]
      BY <1>2, Numbers
    <2> QED
      BY <1>1, <1>2, <2>1, ResolvedLater DEF HonestInv
  <1>3. OpenerHonest(i) /\ wm.inc = doc.inc /\ wm.ticket <= resolved /\ resolved <= resolved
    BY Numbers DEF HonestInv
  <1>4. ASSUME NEW s, opener' = [opener EXCEPT ![i] = s] PROVE opener'[i] = s
    BY <1>4, Numbers
  <1>5. CASE OpenerReads(i)
    <2>1. resolved' = resolved /\ wm' = wm
      BY <1>5 DEF OpenerReads
    <2>2. CASE opener' = [opener EXCEPT ![i] = Idle]
      <3>1. OpenerHonest(i)'
        BY <1>4, <2>2, IdleType DEF OpenerHonest
      <3> QED
        BY <1>2, <1>3, <2>1, <2>2, <3>1, Numbers
    <2>3. CASE ~(opener' = [opener EXCEPT ![i] = Idle])
      <3>1. PICK s : /\ s = [pc |-> IF opener[i].pc = "open" THEN "parse" ELSE "reparse",
                             ticket |-> opener[i].ticket, read |-> doc]
                     /\ opener' = [opener EXCEPT ![i] = s] /\ doc.inc = i
        BY <1>5, <2>3, Numbers DEF OpenerReads
      <3>2. s.ticket = opener[i].ticket /\ s.read = doc /\ s.pc # "advance" /\ s.pc # "open"
            /\ (s.pc = "parse" => opener[i].pc = "open")
        BY <3>1
      <3>3. OpenerHonest(i)'
        BY <1>3, <1>4, <3>1, <3>2 DEF OpenerHonest
      <3> QED
        BY <1>2, <1>3, <2>1, <3>1, <3>3, Numbers
    <2> QED
      BY <2>2, <2>3
  <1>6. CASE OpenerInstalls(i)
    <2>1. resolved' = Resolved(opener[i].read) /\ wm' = wm
      BY <1>6 DEF OpenerInstalls
    <2>2. /\ resolved' \in Nat /\ resolved <= resolved'
          /\ opener[i].read.inc = doc.inc /\ opener[i].read.inc # 0 => opener[i].read.ticket <= resolved'
      BY <2>1, PassHonest, Numbers
    <2>3. wm'.inc = doc.inc /\ wm'.ticket <= resolved'
      BY <1>3, <2>1, <2>2, Numbers
    <2>4. CASE opener[i].pc = "parse" /\ opener' = [opener EXCEPT ![i] = At(opener[i], "advance")]
      <3>1. At(opener[i], "advance") = [pc |-> "advance", ticket |-> opener[i].ticket, read |-> opener[i].read]
        BY Numbers DEF At, OpenerState
      <3>2. OpenerHonest(i)'
        BY <1>1, <1>3, <1>4, <2>2, <2>4, <3>1, Numbers DEF OpenerHonest
      <3> QED
        BY <1>2, <2>2, <2>3, <2>4, <3>2
    <2>5. CASE \E s \in {Idle, At(Idle, "installing")} : opener' = [opener EXCEPT ![i] = s]
      <3>1. PICK s \in {Idle, At(Idle, "installing")} : opener' = [opener EXCEPT ![i] = s]
        BY <2>5
      <3>2. s.pc \in {"idle", "installing"}
        BY DEF At, Idle
      <3>3. OpenerHonest(i)'
        BY <1>4, <3>1, <3>2 DEF OpenerHonest
      <3> QED
        BY <1>2, <2>2, <2>3, <3>1, <3>3
    <2> QED
      BY <1>6, <2>4, <2>5 DEF OpenerInstalls
  <1>7. CASE OpenerAdvances(i)
    <2>1. /\ resolved' = resolved /\ opener' = [opener EXCEPT ![i] = Idle]
          /\ wm' = AdvanceFor(opener[i].read.inc, opener[i].ticket) /\ opener[i].pc = "advance"
      BY <1>7 DEF OpenerAdvances
    <2>2. wm'.inc = doc.inc /\ wm'.ticket <= resolved'
      BY <1>3, <2>1, PassHonest, Numbers DEF OpenerHonest
    <2>3. OpenerHonest(i)'
      BY <1>4, <2>1, IdleType DEF OpenerHonest
    <2> QED
      BY <1>2, <1>3, <2>1, <2>2, <2>3, Numbers
  <1> QED
    BY <1>5, <1>6, <1>7 DEF OpenerStep
LEMMA HonestSchedule ==
  ASSUME IInv, HonestInv, NEW t \in Nat, t <= doc.ticket, Schedule(t),
         UNCHANGED <<doc, tail, wm, opener, resolved>>
  PROVE  HonestInv'
  <1>1. doc' = doc /\ tail' = tail /\ wm' = wm /\ opener' = opener /\ resolved' = resolved /\ IsOpen' = IsOpen
    BY DEF IsOpen
  <1>2. \A i \in 1..MaxOpens : OpenerHonest(i)'
    BY <1>1 DEF HonestInv, OpenerHonest
  <1>3. entry'.ticket \in {t, Later(entry.ticket, t)} /\ (entry'.ticket # t => entry.on)
    BY DEF Schedule
  <1>4. entry'.on /\ IsOpen => entry'.ticket <= doc.ticket
    BY <1>3, Numbers DEF Later, HonestInv
  <1>5. ASSUME NEW k \in Loop PROVE LoopHonest(k)'
    <2>1. loop'[k] = loop[k] \/ loop'[k].pc = "top"
      BY IdleType, Numbers DEF Schedule
    <2> QED
      BY <1>1, <2>1 DEF HonestInv, LoopHonest
  <1> QED
    BY <1>1, <1>2, <1>4, <1>5 DEF HonestInv

LEMMA HonestHandlers ==
  ASSUME IInv, WakeInv, HonestInv, QuietReopen,
         \/ \E skip_parse \in BOOLEAN : DidOpen(skip_parse)
         \/ EditText \/ ScheduleEdit \/ DidClose \/ Reload \/ ScheduleReload \/ Shutdown
  PROVE  HonestInv'
  <1>1. ASSUME NEW skip_parse \in BOOLEAN, DidOpen(skip_parse)
        PROVE  HonestInv'
    <2>1. /\ opens' = opens + 1 /\ loop' = loop /\ entry' = entry /\ tail' = tail + 1
          /\ doc'.inc = opens + 1 /\ doc'.ticket = tail + 1
          /\ opens < MaxOpens
      BY <1>1 DEF DidOpen
    <2>2. wm'.inc = opens + 1 /\ wm'.ticket <= resolved'
      BY <1>1, Numbers DEF DidOpen
    <2>3. \A l \in Loop : ~Live(l)
      BY <2>1, Numbers DEF WakeInv, QuietReopen
    <2>4. ~entry'.on /\ \A l \in Loop : LoopHonest(l)'
      BY <2>1, <2>3 DEF IInv, EntryIffLoop, SomeLive, Live, LoopHonest
    <2>5. ASSUME NEW i \in 1..MaxOpens PROVE OpenerHonest(i)'
      <3>1. CASE i = opens + 1
        <4>1. opener'[i] = [pc |-> IF skip_parse THEN "installing" ELSE "open",
                            ticket |-> IF skip_parse THEN NoTicket ELSE tail + 1, read |-> Closed]
          BY <1>1, <3>1, Numbers DEF DidOpen
        <4>2. opener'[i].pc \in {"installing", "open"} /\ (opener'[i].pc = "open" => opener'[i].ticket = tail + 1)
          BY <4>1
        <4> QED
          BY <2>1, <4>2, Numbers DEF OpenerHonest
      <3>2. CASE i # opens + 1
        <4>1. opener'[i] = opener[i]
          BY <1>1, <3>2, Numbers DEF DidOpen
        <4> QED
          BY <2>1, <3>2, <4>1 DEF HonestInv, OpenerHonest
      <3> QED
        BY <3>1, <3>2
    <2> QED
      BY <2>1, <2>2, <2>4, <2>5, Numbers DEF HonestInv
  <1>2. ASSUME EditText \/ Reload
        PROVE  HonestInv'
    <2>1. /\ IsOpen /\ doc'.inc = doc.inc /\ doc'.ticket \in {doc.ticket, tail + 1}
          /\ tail' \in {tail, tail + 1} /\ (doc'.ticket = tail + 1 => tail' = tail + 1 \/ doc.ticket = tail + 1)
          /\ wm' = wm /\ resolved' = resolved /\ loop' = loop /\ entry' = entry /\ opener' = opener
      BY <1>2, Numbers DEF EditText, Reload, Text
    <2>2. doc.ticket <= tail
      BY DEF HonestInv
    <2>3. doc.ticket <= doc'.ticket /\ doc'.ticket <= tail' /\ doc'.ticket \in Nat
      BY <2>1, <2>2, Numbers
    <2>4. \A i \in 1..MaxOpens : OpenerHonest(i)'
      BY <2>1, <2>3, Numbers DEF HonestInv, OpenerHonest
    <2>5. \A l \in Loop : LoopHonest(l)'
      BY <2>1, <2>3, Numbers DEF HonestInv, LoopHonest, IsOpen
    <2> QED
      BY <2>1, <2>3, <2>4, <2>5, Numbers DEF HonestInv, IsOpen
  <1>3. ASSUME DidClose
        PROVE  HonestInv'
    <2>1. /\ doc'.inc = 0 /\ doc'.ticket = 0 /\ tail' \in Nat /\ wm'.inc = 0 /\ wm'.ticket = 0 /\ resolved' = 0
          /\ loop' = loop /\ entry' = entry /\ opener' = opener
      BY <1>3, Numbers DEF DidClose, Closed, NoWatermark, NoTicket
    <2>2. \A i \in 1..MaxOpens : OpenerHonest(i)'
      BY <2>1 DEF HonestInv, OpenerHonest
    <2>3. \A l \in Loop : LoopHonest(l)'
      BY <2>1 DEF HonestInv, LoopHonest, IsOpen
    <2> QED
      BY <2>1, <2>2, <2>3 DEF HonestInv, IsOpen
  <1>4. ASSUME Shutdown
        PROVE  HonestInv'
    BY <1>4 DEF Shutdown, HonestInv, OpenerHonest, LoopHonest, IsOpen
  <1>5. ASSUME ScheduleEdit
        PROVE  HonestInv'
    BY <1>5, Numbers, HonestSchedule DEF ScheduleEdit
  <1>6. ASSUME ScheduleReload
        PROVE  HonestInv'
    <2>1. NoTicket \in Nat /\ NoTicket <= doc.ticket
      BY Numbers DEF NoTicket
    <2> QED
      BY <1>6, <2>1, HonestSchedule DEF ScheduleReload
  <1> QED
    BY <1>1, <1>2, <1>3, <1>4, <1>5, <1>6

LEMMA HonestLoops ==
  ASSUME IInv, HonestInv, NEW l \in Loop, LoopStep(l) \/ Panic(l)
  PROVE  HonestInv'
  <1>1. doc' = doc /\ tail' = tail /\ opener' = opener /\ IsOpen' = IsOpen
    BY DEF LoopStep, StartPass, ReadInputs, ParseAndInstall, AdvanceWatermark, CheckOpen,
           Stop, Finish, Panic, LoopUnchanged, IsOpen
  <1>2. ASSUME NEW s, loop' = [loop EXCEPT ![l] = s], loop'[l] = s => LoopHonest(l)',
               resolved' \in Nat, resolved <= resolved', wm'.inc = doc.inc, wm'.ticket <= resolved',
               entry'.on => entry.on, entry'.on => entry'.ticket = entry.ticket
        PROVE  HonestInv'
    <2>1. loop'[l] = s /\ \A k \in Loop : k # l => loop'[k] = loop[k]
      BY <1>2, Numbers
    <2> QED
      BY <1>1, <1>2, <2>1, ResolvedLater DEF HonestInv
  <1>3. /\ LoopHonest(l) /\ wm.inc = doc.inc /\ wm.ticket <= resolved /\ resolved <= resolved /\ resolved \in Nat
        /\ entry.on /\ IsOpen => entry.ticket <= doc.ticket
    BY Numbers DEF HonestInv
  <1>4. /\ At(loop[l], "stop").pc = "stop" /\ At(loop[l], "check").pc = "check"
        /\ At(loop[l], "downstream").pc = "downstream" /\ At(loop[l], "advance").pc = "advance"
        /\ At(loop[l], "advance").ticket = loop[l].ticket /\ At(loop[l], "advance").read = loop[l].read
    BY Numbers DEF At, LoopState
  <1>5. CASE StartPass(l)
    <2>1. resolved' = resolved /\ wm' = wm
      BY <1>5 DEF StartPass
    <2>2. CASE shutdown
      <3>1. loop' = [loop EXCEPT ![l] = At(loop[l], "stop")] /\ entry' = entry
        BY <1>5, <2>2 DEF StartPass, Goto
      <3> QED
        BY <1>2, <1>3, <1>4, <2>1, <3>1 DEF LoopHonest
    <2>3. CASE ~shutdown
      <3>1. PICK s : s = [pc |-> "read", ticket |-> PassTicket, read |-> Closed] /\ loop' = [loop EXCEPT ![l] = s]
        BY <1>5, <2>3 DEF StartPass
      <3>2. entry'.on = entry.on /\ entry'.ticket = entry.ticket
        BY <1>5, <2>3 DEF StartPass, Started, IInv, TypeOK
      <3>3. s.pc = "read" /\ (IsOpen => s.ticket <= doc.ticket)
        BY <1>3, <3>1, Numbers DEF PassTicket, NoTicket
      <3> QED
        BY <1>1, <1>2, <1>3, <2>1, <3>1, <3>2, <3>3 DEF LoopHonest
    <2> QED
      BY <2>2, <2>3
  <1>6. CASE ReadInputs(l)
    <2>1. resolved' = resolved /\ wm' = wm /\ entry' = entry /\ loop[l].pc = "read"
      BY <1>6 DEF ReadInputs
    <2>2. CASE IsOpen
      <3>1. PICK s : s = [pc |-> "parse", ticket |-> loop[l].ticket, read |-> doc] /\ loop' = [loop EXCEPT ![l] = s]
        BY <1>6, <2>2 DEF ReadInputs
      <3>2. s.pc = "parse" /\ s.ticket = loop[l].ticket /\ s.read = doc
        BY <3>1
      <3> QED
        BY <1>2, <1>3, <2>1, <2>2, <3>1, <3>2 DEF LoopHonest, IsOpen
    <2>3. CASE ~IsOpen
      <3>1. loop' = [loop EXCEPT ![l] = At(loop[l], "check")] /\ At(loop[l], "check").pc = "check"
        BY <1>4, <1>6, <2>3 DEF ReadInputs, Goto
      <3> QED
        BY <1>2, <1>3, <1>4, <2>1, <3>1 DEF LoopHonest
    <2> QED
      BY <2>2, <2>3
  <1>7. CASE ParseAndInstall(l)
    <2>1. /\ resolved' = Resolved(loop[l].read) /\ wm' = wm /\ entry' = entry /\ loop[l].pc = "parse"
          /\ loop' = [loop EXCEPT ![l] = At(loop[l], "advance")]
      BY <1>7 DEF ParseAndInstall, Goto
    <2>2. /\ resolved' \in Nat /\ resolved <= resolved'
          /\ loop[l].read.inc = doc.inc /\ loop[l].read.inc # 0 => loop[l].read.ticket <= resolved'
      BY <2>1, PassHonest, Numbers
    <2>3. wm.ticket <= resolved'
      BY <1>3, <2>2, Numbers
    <2>4. PICK s : s = At(loop[l], "advance") /\ s.pc = "advance" /\ s.ticket = loop[l].ticket /\ s.read = loop[l].read
      BY <1>4
    <2>5. loop'[l] = s => LoopHonest(l)'
      BY <1>1, <1>3, <2>1, <2>2, <2>4, Numbers DEF LoopHonest
    <2> QED
      BY <1>2, <1>3, <2>1, <2>2, <2>3, <2>4, <2>5
  <1>8. CASE AdvanceWatermark(l)
    <2>1. /\ resolved' = resolved /\ wm' = AdvanceFor(loop[l].read.inc, loop[l].ticket) /\ entry' = entry
          /\ loop[l].pc = "advance"
          /\ loop' = [loop EXCEPT ![l] = At(loop[l], "check")] /\ At(loop[l], "check").pc = "check"
      BY <1>4, <1>8 DEF AdvanceWatermark, Goto
    <2>2. wm'.inc = doc.inc /\ wm'.ticket <= resolved
      BY <1>3, <2>1, PassHonest, Numbers DEF LoopHonest
    <2> QED
      BY <1>2, <1>3, <2>1, <2>2 DEF LoopHonest
  <1>9. CASE CheckOpen(l)
    <2>1. PICK pc \in {"downstream", "stop"} : loop' = [loop EXCEPT ![l] = At(loop[l], pc)]
      BY <1>9 DEF CheckOpen, Goto
    <2>2. resolved' = resolved /\ wm' = wm /\ entry' = entry /\ At(loop[l], pc).pc = pc
      BY <1>4, <1>9 DEF CheckOpen
    <2> QED
      BY <1>2, <1>3, <2>1, <2>2 DEF LoopHonest
  <1>10. CASE Stop(l) \/ Finish(l) \/ Panic(l)
    <2>1. PICK s \in {Idle, At(Idle, "top")} : loop' = [loop EXCEPT ![l] = s]
      BY <1>10 DEF Stop, Finish, Panic
    <2>2. resolved' = resolved /\ wm' = wm /\ (entry' = entry \/ ~entry'.on) /\ s.pc \in {"idle", "top"}
      BY <1>10, IdleType DEF Stop, Finish, Panic, Finished, NoEntry
    <2> QED
      BY <1>2, <1>3, <2>1, <2>2 DEF LoopHonest
  <1> QED
    BY <1>5, <1>6, <1>7, <1>8, <1>9, <1>10 DEF LoopStep

LEMMA NextHonest == IInv /\ IInv' /\ WakeInv /\ HonestInv /\ [Next]_vars /\ QuietReopen => HonestInv'
  <1> SUFFICES ASSUME IInv, IInv', WakeInv, HonestInv, [Next]_vars, QuietReopen PROVE HonestInv'
    OBVIOUS
  <1>1. CASE UNCHANGED vars
    BY <1>1 DEF vars, HonestInv, OpenerHonest, LoopHonest, IsOpen
  <1> QED
    BY <1>1, HonestHandlers, HonestOpeners, HonestLoops DEF Next

(* The watermark is never ahead of a writer whose text no pass has read    *)
(* (ParseScheduler's WatermarkHonest), unless a document is reopened while *)
(* the loop of its former lifetime still runs.                             *)
THEOREM QuietReopensHonest == Safety /\ [][QuietReopen]_vars => []WatermarkHonest
  <1>1. IInv /\ IInv' /\ WakeInv /\ HonestInv /\ [Next]_vars /\ [QuietReopen]_vars => WakeInv' /\ HonestInv'
    <2>1. UNCHANGED vars => QuietReopen
      BY DEF vars, QuietReopen
    <2> QED
      BY <2>1, NextWake, NextHonest
  <1>2. HonestInv => WatermarkHonest
    BY DEF HonestInv, WatermarkHonest
  <1> QED
    BY <1>1, <1>2, InitWake, InitHonest, InvariantHolds, PTL DEF Safety
=============================================================================
