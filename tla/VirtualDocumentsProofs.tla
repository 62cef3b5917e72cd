----------------------- MODULE VirtualDocumentsProofs -----------------------
(***************************************************************************)
(* The safety properties of VirtualDocuments, for any documents, tasks and *)
(* bounds: the tracker agrees with the server, the frames sent are a       *)
(* TextSync, and the texts agree unless an abort leaves a fingerprint.     *)
(*                                                                         *)
(* The argument: whoever works on a document holds the lock of the map or  *)
(* the document's own, or a registration it took in a generation of the    *)
(* map.  A purge moves the generation before it clears anything, waits for *)
(* the documents' locks, and only then lets a new process begin: what was  *)
(* begun for the old process is told from what belongs to the new one by   *)
(* its generation alone.                                                   *)
(***************************************************************************)
EXTENDS VirtualDocuments, TLAPS

(* Tasks in these places hold `connections`.                               *)
Pins == {"locking", "claimed", "sent", "pinned", "purging"}

(* Closers that have taken documents and not closed them.                  *)
Owing == {"closing", "close", "invalidate", "purging"}

(* Tasks that carry the text of every region.                              *)
Texts == {"spawned", "asked", "entered", "locking", "claimed", "sent", "forward", "list",
          "acquire", "pinned", "send", "record", "spawning"}

(* The tracker speaks of the process that is mapped.                       *)
Intact == purge.step = "none" /\ (handle.state \in {"ready", "initializing"} \/ connections # NoTask)

(* The generation has moved, and nothing has been begun in the new one.    *)
Fence == purge.step # "none" \/ handle.state \in {"none", "initializing"}

Owes(c, d) == at[c].pc \in Owing /\ d \in at[c].left /\ at[c].gens[d] = generation

OwedNow(d) == \E c \in Closer : Owes(c, d)

Global ==
  /\ purge.step = "none" <=> purge = NoPurge
  /\ purge.step # "none" => /\ handle.state = "failed"
                            /\ connections = Acquirer \/ (connections \in Closer /\ at[connections].pc = "purging")
  /\ connections = Acquirer \/ (connections \in Task /\ at[connections].pc = "purging") => purge.step # "none"
  /\ handle.state \in {"failed", "none"} => handle.proc < MaxProcesses
  /\ connections # NoTask => handle.state \in {"ready", "failed"}

(* What the task carries is what it stands for.                            *)
Claiming(t) ==
  /\ at[t].pc \in {"locking", "claimed", "pinned"} => at[t].proc = handle.proc
  /\ at[t].pc = "locking" => at[t].gen = generation
  /\ at[t].pc = "claimed" =>
       /\ transition[at[t].doc] = t /\ claims[at[t].doc] = t
       /\ at[t].gen = generation /\ versions[at[t].doc] # 0

(* A promotion of the current generation finds its claim.                  *)
Promoting(t) ==
  t \in promoting =>
    /\ transition[at[t].doc] = t /\ at[t].pc \in {"sent", "done"}
    /\ at[t].gen <= generation
    /\ at[t].gen = generation => claims[at[t].doc] = t /\ versions[at[t].doc] # 0
    /\ Fence => at[t].gen # generation
    /\ Intact => at[t].gen = generation

(* A pass that sends a change has drawn its version and keeps the lock.    *)
Sending(t) ==
  /\ at[t].pc \in {"send", "record"} => transition[at[t].doc] = t
  /\ at[t].pc = "send" =>
       /\ at[t].ver \in 1..MaxVersion
       /\ at[t].proc = handle.proc => wire[at[t].doc] # Closed /\ wire[at[t].doc].version < at[t].ver
       /\ Intact => at[t].ver <= versions[at[t].doc]

(* A close of the current generation is of the current process.            *)
Closes(t) ==
  /\ at[t].pc \in Owing => \A d \in at[t].left : /\ at[t].gens[d] \in 0..generation
                                                 /\ Fence => at[t].gens[d] # generation
  /\ at[t].pc \in {"close", "invalidate", "purging"} => at[t].doc \in at[t].left
  /\ at[t].pc = "invalidate" => at[t].proc \in 1..(MaxProcesses - 1)
  /\ at[t].pc \in {"close", "invalidate"} /\ at[t].gens[at[t].doc] = generation =>
       /\ at[t].proc \in {0, handle.proc}
       /\ at[t].pc = "invalidate" \/ Intact => at[t].proc = handle.proc

TaskOK(t) ==
  /\ connections = t <=> at[t].pc \in Pins
  /\ at[t].pc \in Texts \/ (t \in Pass /\ at[t].pc \in Owing) => at[t].text \in [Doc -> Text]
  /\ at[t].pc \in {"ending", "ended"} => t \notin Pass
  /\ t \in cleanups => at[t].pc = "done" /\ t \notin promoting
  /\ Claiming(t) /\ Promoting(t) /\ Sending(t) /\ Closes(t)

(* The locks and claims name tasks that know of them.                      *)
Holders(d) ==
  /\ transition[d] # NoTask =>
       /\ at[transition[d]].doc = d
       /\ at[transition[d]].pc \in {"claimed", "send", "record"} \/ transition[d] \in promoting
  /\ claims[d] # NoTask =>
       /\ at[claims[d]].doc = d
       /\ at[claims[d]].pc = "claimed" \/ claims[d] \in promoting \cup cleanups

(* How far a purge has come.                                               *)
Purged(d) ==
  /\ purge.step \in {"versions", "index", "rest"} => d \in purge.left
  /\ purge.step \in {"index", "rest", "wait"} => versions[d] = 0
  /\ purge.step \in {"rest", "wait"} => d \notin openedOn
  /\ purge.step = "wait" => /\ registered[d] = NoEntry /\ claims[d] = NoTask
                            /\ d \notin purge.left => transition[d] = NoTask
  /\ handle.state \in {"none", "initializing"} =>
       /\ versions[d] = 0 /\ d \notin openedOn /\ registered[d] = NoEntry
       /\ claims[d] = NoTask /\ transition[d] = NoTask
  /\ handle.state = "initializing" => wire[d] = Closed

DocOK(d) ==
  /\ Holders(d) /\ Purged(d)
  /\ d \in openedOn => /\ versions[d] # 0 \/ (purge.step = "index" /\ d \in purge.uris)
                       /\ claims[d] = NoTask
  /\ registered[d] # NoEntry => registered[d] \in 0..generation /\ (Fence => registered[d] # generation)
  /\ wire[d] # Misordered

(* While the tracker speaks of the mapped process: what it says of d.      *)
Ledger(d) ==
  /\ registered[d] \in {generation, NoEntry}
  /\ wire[d] # Closed =>
       /\ versions[d] # 0 /\ wire[d].version <= versions[d]
       /\ OwedNow(d) \/ (registered[d] = generation /\ (d \in openedOn \/ claims[d] \in promoting))
  /\ d \in openedOn => wire[d] # Closed
  /\ claims[d] # NoTask =>
       /\ wire[d] # Closed <=> claims[d] \in promoting
       /\ claims[d] \notin cleanups => registered[d] = generation \/ OwedNow(d)
  /\ versions[d] # 0 => d \in openedOn \/ claims[d] # NoTask \/ OwedNow(d)

Tasks == \A t \in Task : TaskOK(t)
Docs == \A d \in Doc : DocOK(d)
Ledgers == Intact => \A d \in Doc : Ledger(d)

IInv == TypeOK /\ Global /\ Tasks /\ Docs /\ Ledgers
-----------------------------------------------------------------------------
(* Steps of tasks that leave the tracker and the process alone             *)

LEMMA Kinds ==
  /\ Opener \cap Closer = {} /\ Acquirer \notin Task /\ NoTask \notin Task /\ Acquirer # NoTask
  BY TasksAssumption DEF Opener, Closer, Task

core == <<handle, generation, versions, claims, openedOn, registered, transition, promoting,
          cleanups, purge, wire>>

(* The tasks in M move.                                                    *)
Quiet(M) ==
  /\ UNCHANGED core
  /\ \A u \in Task \ M : at'[u] = at[u]
  /\ \A u \in M :
       /\ at[u].pc \notin {"claimed", "send", "record", "purging"} /\ at'[u].pc # "purging"
       /\ u \in promoting \cup cleanups => at'[u].doc = at[u].doc
       /\ u \in Closer => \A d \in Doc : Owes(u, d) => at'[u].pc \in Owing /\ d \in at'[u].left /\ at'[u].gens[d] = at[u].gens[d]
  /\ \/ connections' = connections
     \/ connections \in M /\ connections' = NoTask
     \/ connections = NoTask /\ connections' \in M /\ handle.state = "ready"

LEMMA QuietStep ==
  ASSUME TypeOK, TypeOK', Global, Tasks, Docs, Ledgers,
         NEW M \in SUBSET Task, Quiet(M), \A u \in M : TaskOK(u)'
  PROVE  Global' /\ Tasks' /\ Docs' /\ Ledgers'
  <1>0. (Fence' <=> Fence) /\ (Intact' => Intact)
    BY Kinds DEF Quiet, core, Fence, Intact, Global
  <1>1. Global'
    BY Kinds DEF Quiet, core, Global, TypeOK, LocksOK, Task
  <1>2. ASSUME NEW u \in Task PROVE TaskOK(u)'
    <2>1. CASE u \in M
      BY <2>1
    <2>2. CASE u \notin M
      <3>1. TaskOK(u) /\ at'[u] = at[u] /\ UNCHANGED core /\ (connections' = u <=> connections = u)
        BY <2>2, Kinds DEF Quiet, Tasks
      <3>. QED  BY <1>0, <3>1 DEF TaskOK, core, Claiming, Promoting, Sending, Closes
    <2>. QED  BY <2>1, <2>2
  <1>3. \A d \in Doc : OwedNow(d) => OwedNow(d)'
    <2>1. \A c \in Closer, d \in Doc : Owes(c, d) => Owes(c, d)'
      BY DEF Quiet, core, Owes, Task
    <2>. QED  BY <2>1, Zenon DEF OwedNow
  <1>4. ASSUME NEW d \in Doc PROVE DocOK(d)'
    <2>1. DocOK(d) /\ UNCHANGED core
      BY DEF Quiet, Docs
    <2>2. Holders(d)'
      <3>1. transition[d] \in Task \cup {NoTask} /\ claims[d] \in Task \cup {NoTask}
        BY DEF TypeOK, LocksOK, TrackerOK, Task
      <3>2. transition'[d] = transition[d] /\ claims'[d] = claims[d] /\ promoting' = promoting /\ cleanups' = cleanups
            /\ Holders(d)
        BY <2>1 DEF core, DocOK
      <3>3. ASSUME NEW u \in Task, transition[d] = u \/ claims[d] = u
            PROVE  /\ at'[u].doc = d
                   /\ transition[d] = u => at'[u].pc \in {"claimed", "send", "record"} \/ u \in promoting
                   /\ claims[d] = u => at'[u].pc = "claimed" \/ u \in promoting \cup cleanups
        <4>1. /\ at[u].doc = d
              /\ transition[d] = u => at[u].pc \in {"claimed", "send", "record"} \/ u \in promoting
              /\ claims[d] = u => at[u].pc = "claimed" \/ u \in promoting \cup cleanups
          BY <3>2, <3>3, Kinds DEF Holders
        <4>2. CASE u \in M
          BY <4>1, <4>2, <3>3 DEF Quiet
        <4>3. CASE u \notin M
          BY <4>1, <4>3 DEF Quiet
        <4>. QED  BY <4>2, <4>3
      <3>4. ASSUME transition[d] # NoTask
            PROVE  at'[transition[d]].doc = d /\ (at'[transition[d]].pc \in {"claimed", "send", "record"} \/ transition[d] \in promoting)
        BY <3>1, <3>3, <3>4
      <3>5. ASSUME claims[d] # NoTask
            PROVE  at'[claims[d]].doc = d /\ (at'[claims[d]].pc = "claimed" \/ claims[d] \in promoting \cup cleanups)
        BY <3>1, <3>3, <3>5
      <3>. QED  BY <3>2, <3>4, <3>5 DEF Holders
    <2>3. Purged(d)'
      BY <2>1 DEF DocOK, Purged, core
    <2>. QED  BY <1>0, <2>1, <2>2, <2>3 DEF DocOK, core
  <1>5. ASSUME Intact', NEW d \in Doc PROVE Ledger(d)'
    <2>1. Ledger(d) /\ UNCHANGED core
      BY <1>0, <1>5 DEF Quiet, Ledgers
    <2>. QED  BY <1>3, <2>1 DEF Ledger, core
  <1>. QED  BY <1>1, <1>2, <1>4, <1>5 DEF Tasks, Docs, Ledgers

-----------------------------------------------------------------------------
(* What a step makes of the task that moves                                *)

PcOf(t) == IF t \in Opener THEN OpenerPc ELSE CloserPc

Rests(t) == \A u \in Task \ {t} : at'[u] = at[u]

(* Everything the task carries but its place.                              *)
Carries(t) ==
  /\ at'[t].doc = at[t].doc /\ at'[t].left = at[t].left /\ at'[t].text = at[t].text
  /\ at'[t].gens = at[t].gens /\ at'[t].live = at[t].live /\ at'[t].proc = at[t].proc
  /\ at'[t].gen = at[t].gen /\ at'[t].ver = at[t].ver /\ at'[t].inc = at[t].inc

LEMMA Becomes ==
  ASSUME TasksOK, NEW t \in Task, NEW r \in TaskState, r.pc \in PcOf(t), at' = [at EXCEPT ![t] = r]
  PROVE  TasksOK' /\ Rests(t) /\ at'[t] = r
  <1>1. at' \in [Task -> TaskState] /\ Rests(t) /\ at'[t] = r
    BY DEF TasksOK, Rests
  <1>2. \A u \in Task : at'[u].pc \in PcOf(u)
    BY <1>1 DEF TasksOK, Rests, PcOf
  <1>. QED  BY <1>1, <1>2, Zenon DEF TasksOK, PcOf

LEMMA Goes ==
  ASSUME TasksOK, NEW t \in Task, NEW pc \in PcOf(t), Goto(t, pc)
  PROVE  TasksOK' /\ Rests(t) /\ at'[t].pc = pc /\ Carries(t)
  <1>. DEFINE r == [at[t] EXCEPT !.pc = pc]
  <1>1. r \in TaskState /\ r.pc = pc /\ r.doc = at[t].doc /\ r.left = at[t].left /\ r.text = at[t].text
        /\ r.gens = at[t].gens /\ r.live = at[t].live /\ r.proc = at[t].proc
        /\ r.gen = at[t].gen /\ r.ver = at[t].ver /\ r.inc = at[t].inc
    BY DEF TasksOK, TaskState, PcOf
  <1>2. at' = [at EXCEPT ![t] = r]
    BY Zenon DEF Goto
  <1>. HIDE DEF r
  <1>3. TasksOK' /\ Rests(t) /\ at'[t] = r
    BY <1>1, <1>2, Becomes
  <1>. QED  BY <1>1, <1>3 DEF Carries

LEMMA GoneType == Gone \in TaskState /\ Gone.pc = "done" /\ Idle \in TaskState /\ Idle.pc = "idle"
  <1>1. PICK x \in Doc : x = CHOOSE d \in Doc : TRUE
    BY DocumentsAssumption
  <1>2. [d \in Doc |-> NoText] \in [Doc -> Text \cup {NoText}] /\ [d \in Doc |-> NoEntry] \in [Doc -> Nat \cup {NoEntry}]
    OBVIOUS
  <1>3. Idle \in TaskState /\ Idle.pc = "idle"
    BY <1>1, <1>2, DocumentsAssumption DEF Idle, TaskState, OpenerPc, CloserPc
  <1>4. Gone \in TaskState /\ Gone.pc = "done"
    BY <1>3 DEF Gone, TaskState, OpenerPc, CloserPc
  <1>. QED  BY <1>3, <1>4

LEMMA Leaves ==
  ASSUME TasksOK, NEW t \in Task, at' = [at EXCEPT ![t] = Gone]
  PROVE  TasksOK' /\ Rests(t) /\ at'[t].pc = "done"
  BY GoneType, Becomes DEF PcOf, OpenerPc, CloserPc

(* Places that ask nothing of the tracker.                                 *)
Light == {"idle", "spawned", "asked", "entered", "done", "ending", "ended", "forward", "list",
          "acquire", "spawning"}

LEMMA LightTask ==
  ASSUME NEW t \in Task, at'[t].pc \in Light, at'[t].pc \in Texts => at'[t].text \in [Doc -> Text],
         at'[t].pc \notin {"ending", "ended"} \/ t \notin Pass,
         connections' # t, t \notin promoting', t \notin cleanups'
  PROVE  TaskOK(t)'
  BY DEF TaskOK, Light, Texts, Pins, Owing, Claiming, Promoting, Sending, Closes

(* A task that holds nothing yet.                                          *)
LEMMA Free ==
  ASSUME TypeOK, Tasks, NEW t \in Task, at[t].pc \in Light \ {"done"}
  PROVE  connections # t /\ t \notin promoting /\ t \notin cleanups
  BY DEF Tasks, TaskOK, Promoting, Light, Pins

LEMMA NextDocumentEffect ==
  ASSUME TypeOK, NEW o \in Opener, NEW go \in BOOLEAN, NextDocument(o, go)
  PROVE  /\ TasksOK' /\ Rests(o) /\ at'[o].pc \in {"spawned", "done"}
         /\ at'[o].pc = "spawned" => at'[o].text = at[o].text
         /\ connections' = IF connections = o THEN NoTask ELSE connections
         /\ editLock' \in {editLock, NoTask}
         /\ lifecycle' \in [readers : SUBSET Request, writer : Eager \cup Repair \cup {NoTask}]
  <1>0. TasksOK /\ o \in Task /\ at[o] \in TaskState
    BY DEF TypeOK, TasksOK, Task
  <1>1. Released(o)
    BY DEF NextDocument
  <1>2. connections' = (IF connections = o THEN NoTask ELSE connections) /\ editLock' \in {editLock, NoTask}
    BY <1>1 DEF Released
  <1>3. lifecycle' \in [readers : SUBSET Request, writer : Eager \cup Repair \cup {NoTask}]
    BY <1>1 DEF Released, TypeOK, LocksOK
  <1>4. CASE go /\ at[o].left \ {at[o].doc} # {}
    <2>. DEFINE r == [at[o] EXCEPT !.left = at[o].left \ {at[o].doc}, !.pc = "spawned"]
    <2>1. at' = [at EXCEPT ![o] = r]
      BY <1>4, Zenon DEF NextDocument
    <2>2. r \in TaskState /\ r.pc = "spawned" /\ r.text = at[o].text
      BY <1>0 DEF TaskState, OpenerPc, CloserPc
    <2>. HIDE DEF r
    <2>3. TasksOK' /\ Rests(o) /\ at'[o] = r
      BY <1>0, <2>1, <2>2, Becomes DEF PcOf, OpenerPc
    <2>. QED  BY <1>2, <1>3, <2>2, <2>3
  <1>5. CASE ~(go /\ at[o].left \ {at[o].doc} # {})
    <2>1. at' = [at EXCEPT ![o] = Gone]
      BY <1>5, Zenon DEF NextDocument
    <2>. QED  BY <1>0, <1>2, <1>3, <2>1, Leaves
  <1>. QED  BY <1>4, <1>5

-----------------------------------------------------------------------------
(* Openers that wait, look and leave                                       *)

Kept == IInv'

LEMMA Moves ==
  ASSUME IInv, TypeOK', NEW M \in SUBSET Task, Quiet(M), \A u \in M : TaskOK(u)'
  PROVE  Kept
  BY QuietStep DEF IInv, Kept

(* An opener that is not promoting is at rest or on its way again.         *)
LEMMA LeavesDocument ==
  ASSUME IInv, NEW o \in Opener, NEW go \in BOOLEAN, NextDocument(o, go), UNCHANGED core,
         UNCHANGED <<latest, host, cancelled>>, TrackerOK', PoolOK', HostOK',
         at[o].pc \in {"entered", "locking", "sent"}, o \notin promoting
  PROVE  Kept
  <1>0. TypeOK /\ o \in Task /\ o \notin Closer /\ TaskOK(o) /\ Acquirer # o /\ NoTask # o
    BY Kinds DEF IInv, Task, Tasks
  <1>1. /\ TasksOK' /\ Rests(o) /\ at'[o].pc \in {"spawned", "done"}
        /\ at'[o].pc = "spawned" => at'[o].text = at[o].text
        /\ connections' = IF connections = o THEN NoTask ELSE connections
        /\ editLock' \in {editLock, NoTask}
        /\ lifecycle' \in [readers : SUBSET Request, writer : Eager \cup Repair \cup {NoTask}]
    BY <1>0, NextDocumentEffect
  <1>2. LocksOK'
    BY <1>0, <1>1 DEF TypeOK, LocksOK, core
  <1>3. TypeOK'
    BY <1>1, <1>2 DEF TypeOK
  <1>4. o \notin cleanups /\ at[o].text \in [Doc -> Text]
    BY <1>0 DEF TaskOK, Texts
  <1>5. Quiet({o})
    BY <1>0, <1>1, <1>4 DEF Quiet, Rests
  <1>6. TaskOK(o)'
    <2>1. connections' # o /\ o \notin promoting' /\ o \notin cleanups'
      BY <1>0, <1>1, <1>4 DEF core
    <2>2. at'[o].pc \in Light \ {"ending", "ended"} /\ (at'[o].pc \in Texts => at'[o].text \in [Doc -> Text])
      BY <1>1, <1>4 DEF Light, Texts
    <2>. QED  BY <1>0, <2>1, <2>2, LightTask
  <1>. QED  BY <1>0, <1>3, <1>5, <1>6, Moves

(* A task that held nothing goes to a place where it holds nothing.        *)
LEMMA Strolls ==
  ASSUME IInv, NEW t \in Opener, at[t].pc \in Light \ {"done"}, at'[t].pc \in Light, TasksOK', Rests(t),
         at'[t].pc \in Texts => at'[t].text \in [Doc -> Text],
         UNCHANGED core, UNCHANGED connections, TrackerOK', LocksOK', HostOK', PoolOK'
  PROVE  Kept
  <1>1. TypeOK'
    BY DEF TypeOK
  <1>2. connections # t /\ t \notin promoting /\ t \notin cleanups
    BY Free DEF IInv, Task
  <1>3. Quiet({t})
    BY <1>2, Kinds DEF Quiet, Rests, Light, Owes, Owing, Task
  <1>4. TaskOK(t)'
    <2>1. t \in Task /\ t \notin Pass
      BY Kinds DEF Task, Closer
    <2>. QED  BY <1>2, <2>1, LightTask DEF core
  <1>. QED  BY <1>1, <1>3, <1>4, Moves DEF Task

LEMMA AskKeeps ==
  ASSUME IInv, NEW q \in Opener, NEW d \in Doc, Ask(q, d)
  PROVE  Kept
  <1>. DEFINE r == [at[q] EXCEPT !.pc = "asked", !.doc = d, !.left = {d}, !.text = host.text, !.proc = handle.proc]
  <1>0. TypeOK /\ q \in Task /\ at[q] \in TaskState /\ at[q].pc = "idle"
        /\ host.text \in [Doc -> Text] /\ handle.proc \in 0..MaxProcesses
    BY DEF IInv, TypeOK, TasksOK, Task, HostOK, HostState, PoolOK, HandleState, Ask
  <1>1. r \in TaskState /\ r.pc = "asked" /\ r.text = host.text
    <2>1. PICK x \in [Doc -> Text], p \in 0..MaxProcesses : x = host.text /\ p = handle.proc
      BY <1>0
    <2>2. r = [at[q] EXCEPT !.pc = "asked", !.doc = d, !.left = {d}, !.text = x, !.proc = p]
      BY <2>1
    <2>. HIDE DEF r
    <2>. QED  BY <1>0, <2>1, <2>2 DEF TaskState, OpenerPc, CloserPc
  <1>2. at' = [at EXCEPT ![q] = r]
    BY Zenon DEF Ask
  <1>. HIDE DEF r
  <1>3. TasksOK' /\ Rests(q) /\ at'[q] = r
    BY <1>0, <1>1, <1>2, Becomes DEF PcOf, OpenerPc, TypeOK
  <1>4. UNCHANGED <<handle, tracker, locks, latest, host, side, purge, wire, delivered, faults>>
    BY DEF Ask
  <1>5. TrackerOK' /\ LocksOK' /\ HostOK' /\ PoolOK' /\ UNCHANGED core /\ UNCHANGED connections
    BY <1>0, <1>4 DEF TypeOK, TrackerOK, LocksOK, HostOK, PoolOK, tracker, locks, side, core
  <1>. QED  BY <1>0, <1>1, <1>3, <1>5, Strolls DEF Light

LEMMA FetchKeeps ==
  ASSUME IInv, NEW o \in Opener, Fetch(o)
  PROVE  Kept
  <1>0. TypeOK /\ o \in Task /\ at[o] \in TaskState /\ at[o].pc = "spawned" /\ handle.proc \in 0..MaxProcesses
        /\ at[o].text \in [Doc -> Text]
    BY DEF IInv, TypeOK, TasksOK, Task, PoolOK, HandleState, Fetch, Tasks, TaskOK, Texts
  <1>1. PICK d \in at[o].left : at' = [at EXCEPT ![o] = [at[o] EXCEPT !.pc = "asked", !.doc = d, !.proc = handle.proc]]
    BY Zenon DEF Fetch
  <1>. DEFINE r == [at[o] EXCEPT !.pc = "asked", !.doc = d, !.proc = handle.proc]
  <1>2. r \in TaskState /\ r.pc = "asked" /\ r.text = at[o].text
    <2>1. PICK p \in 0..MaxProcesses : p = handle.proc
      BY <1>0
    <2>2. r = [at[o] EXCEPT !.pc = "asked", !.doc = d, !.proc = p] /\ d \in Doc
      BY <1>0, <1>1, <2>1 DEF TaskState
    <2>. HIDE DEF r
    <2>. QED  BY <1>0, <2>2 DEF TaskState, OpenerPc, CloserPc
  <1>a. at' = [at EXCEPT ![o] = r]
    BY <1>1
  <1>. HIDE DEF r
  <1>3. TasksOK' /\ Rests(o) /\ at'[o] = r
    BY <1>0, <1>2, <1>a, Becomes DEF PcOf, OpenerPc, TypeOK
  <1>4. UNCHANGED <<handle, tracker, locks, latest, host, side, purge, wire, delivered, faults>>
    BY DEF Fetch
  <1>5. TrackerOK' /\ LocksOK' /\ HostOK' /\ PoolOK' /\ UNCHANGED core /\ UNCHANGED connections
    BY <1>0, <1>4 DEF TypeOK, TrackerOK, LocksOK, HostOK, PoolOK, tracker, locks, side, core
  <1>. QED  BY <1>0, <1>2, <1>3, <1>5, Strolls DEF Light

LEMMA BeginRepairKeeps ==
  ASSUME IInv, NEW r \in Opener, BeginRepair(r)
  PROVE  Kept
  <1>. DEFINE to == [at[r] EXCEPT !.pc = "spawned", !.left = Doc, !.text = host.text, !.proc = handle.proc,
                                  !.inc = host.incarnation, !.ver = host.edits]
  <1>0. TypeOK /\ r \in Task /\ at[r] \in TaskState /\ at[r].pc = "idle" /\ handle.proc \in 0..MaxProcesses
        /\ host.text \in [Doc -> Text] /\ host.incarnation \in 0..MaxLifetimes /\ host.edits \in Nat
    BY DocumentsAssumption DEF IInv, TypeOK, TasksOK, Task, HostOK, HostState, PoolOK, HandleState, BeginRepair
  <1>1. to \in TaskState /\ to.pc = "spawned" /\ to.text = host.text
    <2>1. ASSUME NEW x \in [Doc -> Text], NEW p \in 0..MaxProcesses, NEW i \in 0..MaxLifetimes, NEW v \in Nat,
                 x = host.text, p = handle.proc, i = host.incarnation, v = host.edits
          PROVE  to \in TaskState /\ to.pc = "spawned" /\ to.text = host.text
      <3>1. to = [at[r] EXCEPT !.pc = "spawned", !.left = Doc, !.text = x, !.proc = p, !.inc = i, !.ver = v]
        BY <2>1
      <3>. HIDE DEF to
      <3>. QED  BY <1>0, <2>1, <3>1 DEF TaskState, OpenerPc, CloserPc
    <2>. HIDE DEF to
    <2>. QED  BY <1>0, <2>1
  <1>2. at' = [at EXCEPT ![r] = to]
    BY Zenon DEF BeginRepair
  <1>. HIDE DEF to
  <1>3. TasksOK' /\ Rests(r) /\ at'[r] = to
    BY <1>0, <1>1, <1>2, Becomes DEF PcOf, OpenerPc, TypeOK
  <1>4. UNCHANGED <<handle, tracker, locks, latest, host, side, purge, wire, delivered, faults>>
    BY DEF BeginRepair
  <1>5. TrackerOK' /\ LocksOK' /\ HostOK' /\ PoolOK' /\ UNCHANGED core /\ UNCHANGED connections
    BY <1>0, <1>4 DEF TypeOK, TrackerOK, LocksOK, HostOK, PoolOK, tracker, locks, side, core
  <1>. QED  BY <1>0, <1>1, <1>3, <1>5, Strolls DEF Light

LEMMA RepairNextKeeps ==
  ASSUME IInv, NEW r \in Opener, RepairNext(r)
  PROVE  Kept
  <1>0. TypeOK /\ TasksOK /\ r \in Task /\ r \in Repair /\ at[r] \in TaskState /\ at[r].pc = "spawned"
        /\ at[r].text \in [Doc -> Text]
    BY DEF IInv, TypeOK, TasksOK, Task, RepairNext, Tasks, TaskOK, Texts
  <1>1. TasksOK' /\ Rests(r) /\ at'[r].pc \in {"asked", "done"} /\ (at'[r].pc = "asked" => at'[r].text = at[r].text)
    <2>1. CASE at' = [at EXCEPT ![r] = Gone]
      BY <1>0, <2>1, Leaves
    <2>2. ASSUME NEW d \in at[r].left, at' = [at EXCEPT ![r] = [at[r] EXCEPT !.pc = "asked", !.doc = d]]
          PROVE  TasksOK' /\ Rests(r) /\ at'[r].pc = "asked" /\ at'[r].text = at[r].text
      <3>. DEFINE to == [at[r] EXCEPT !.pc = "asked", !.doc = d]
      <3>1. d \in Doc
        BY <1>0 DEF TaskState
      <3>2. to \in TaskState /\ to.pc = "asked" /\ to.text = at[r].text
        BY <1>0, <3>1 DEF TaskState, OpenerPc, CloserPc
      <3>3. at' = [at EXCEPT ![r] = to]
        BY <2>2
      <3>. HIDE DEF to
      <3>. QED  BY <1>0, <3>2, <3>3, Becomes DEF PcOf, OpenerPc
    <2>3. \/ at' = [at EXCEPT ![r] = Gone]
          \/ \E d \in at[r].left : at' = [at EXCEPT ![r] = [at[r] EXCEPT !.pc = "asked", !.doc = d]]
      BY Zenon DEF RepairNext
    <2>. QED  BY <2>1, <2>2, <2>3
  <1>2. UNCHANGED <<handle, tracker, connections, transition, lifecycle, latest, host, side, purge, wire, delivered, faults>>
        /\ editLock' \in {editLock, r}
    BY DEF RepairNext
  <1>3. TrackerOK' /\ LocksOK' /\ HostOK' /\ PoolOK' /\ UNCHANGED core /\ UNCHANGED connections
    BY <1>0, <1>2 DEF TypeOK, TrackerOK, LocksOK, HostOK, PoolOK, tracker, side, core
  <1>. QED  BY <1>0, <1>1, <1>3, Strolls DEF Light, Texts

LEMMA EnterKeeps ==
  ASSUME IInv, NEW o \in Opener, Enter(o)
  PROVE  Kept
  <1>0. TypeOK /\ TasksOK /\ o \in Task /\ at[o] \in TaskState /\ at[o].pc = "asked"
        /\ at[o].text \in [Doc -> Text]
    BY DEF IInv, TypeOK, TasksOK, Task, Enter, Tasks, TaskOK, Texts
  <1>1. TasksOK' /\ Rests(o) /\ at'[o].pc \in {"entered", "done"} /\ (at'[o].pc = "entered" => at'[o].text = at[o].text)
    <2>1. CASE at' = [at EXCEPT ![o] = Gone]
      BY <1>0, <2>1, Leaves
    <2>2. CASE Goto(o, "entered")
      BY <1>0, <2>2, Goes DEF PcOf, OpenerPc, Carries
    <2>. QED  BY <2>1, <2>2, Zenon DEF Enter
  <1>2. UNCHANGED <<handle, tracker, connections, transition, latest, host, side, purge, wire, delivered, faults>>
        /\ editLock' \in {editLock, NoTask}
    BY DEF Enter
  <1>3. lifecycle' \in [readers : SUBSET Request, writer : Eager \cup Repair \cup {NoTask}]
    <2>1. \/ lifecycle' = lifecycle
          \/ o \in Request /\ lifecycle' = [lifecycle EXCEPT !.readers = lifecycle.readers \cup {o}]
          \/ o \notin Request /\ lifecycle' = [lifecycle EXCEPT !.writer = o]
      BY Zenon DEF Enter
    <2>. QED  BY <1>0, <2>1 DEF TypeOK, LocksOK, Opener
  <1>4. TrackerOK' /\ LocksOK' /\ HostOK' /\ PoolOK' /\ UNCHANGED core /\ UNCHANGED connections
    BY <1>0, <1>2, <1>3 DEF TypeOK, TrackerOK, LocksOK, HostOK, PoolOK, tracker, side, core
  <1>. QED  BY <1>0, <1>1, <1>4, Strolls DEF Light, Texts

LEMMA CheckLiveKeeps ==
  ASSUME IInv, NEW o \in Opener, CheckLive(o)
  PROVE  Kept
  <1>0. TypeOK /\ TasksOK /\ o \in Task /\ o \notin Closer /\ at[o] \in TaskState /\ at[o].pc = "entered"
        /\ at[o].text \in [Doc -> Text] /\ generation \in Nat /\ connections = NoTask
        /\ o \notin promoting /\ o \notin cleanups
    BY Kinds, Free DEF IInv, TypeOK, TasksOK, Task, CheckLive, Tasks, TaskOK, Texts, TrackerOK, Light
  <1>1. UNCHANGED <<handle, tracker, transition, latest, host, side, purge, wire, delivered, faults>>
    BY DEF CheckLive
  <1>2. TrackerOK' /\ HostOK' /\ PoolOK' /\ UNCHANGED core
    BY <1>0, <1>1 DEF TypeOK, TrackerOK, HostOK, PoolOK, tracker, side, core
  <1>3. CASE handle.proc = at[o].proc /\ handle.state = "ready"
    <2>1. connections' = o /\ UNCHANGED <<lifecycle, editLock>>
          /\ at' = [at EXCEPT ![o] = [at[o] EXCEPT !.pc = "locking", !.gen = generation]]
      BY <1>3, Zenon DEF CheckLive
    <2>. DEFINE to == [at[o] EXCEPT !.pc = "locking", !.gen = generation]
    <2>2. to \in TaskState /\ to.pc = "locking" /\ to.text = at[o].text /\ to.gen = generation /\ to.proc = at[o].proc
      BY <1>0 DEF TaskState, OpenerPc, CloserPc
    <2>3. at' = [at EXCEPT ![o] = to]
      BY <2>1
    <2>. HIDE DEF to
    <2>4. TasksOK' /\ Rests(o) /\ at'[o] = to
      BY <1>0, <2>2, <2>3, Becomes DEF PcOf, OpenerPc
    <2>5. TypeOK'
      BY <1>0, <1>1, <1>2, <2>1, <2>4 DEF TypeOK, LocksOK
    <2>6. Quiet({o})
      BY <1>0, <1>2, <1>3, <2>1, <2>2, <2>4 DEF Quiet, Rests
    <2>7. TaskOK(o)'
      <3>1. at'[o].pc = "locking" /\ at'[o].text \in [Doc -> Text] /\ at'[o].gen = generation' /\ at'[o].proc = handle'.proc
            /\ o \notin promoting' /\ o \notin cleanups' /\ connections' = o
        BY <1>0, <1>2, <1>3, <2>1, <2>2, <2>4 DEF core
      <3>. QED  BY <3>1 DEF TaskOK, Pins, Owing, Claiming, Promoting, Sending, Closes
    <2>. QED  BY <1>0, <2>5, <2>6, <2>7, Moves
  <1>4. CASE ~(handle.proc = at[o].proc /\ handle.state = "ready")
    BY <1>0, <1>1, <1>2, <1>4, LeavesDocument DEF CheckLive, side
  <1>. QED  BY <1>3, <1>4

LEMMA UnsettledKeeps ==
  ASSUME IInv, NEW o \in Opener, Unsettled(o)
  PROVE  Kept
  <1>0. TypeOK /\ o \in Task /\ at[o].pc = "locking" /\ o \notin promoting
    BY DEF IInv, Task, Unsettled, Tasks, TaskOK, Promoting
  <1>1. UNCHANGED <<handle, tracker, transition, latest, host, side, purge, wire, delivered, faults>> /\ NextDocument(o, TRUE)
    BY DEF Unsettled
  <1>2. TrackerOK' /\ HostOK' /\ PoolOK' /\ UNCHANGED core
    BY <1>0, <1>1 DEF TypeOK, TrackerOK, HostOK, PoolOK, tracker, side, core
  <1>. QED  BY <1>0, <1>1, <1>2, LeavesDocument DEF side

LEMMA RecordOpenKeeps ==
  ASSUME IInv, NEW o \in Opener, RecordOpen(o)
  PROVE  Kept
  <1>0. TypeOK /\ TrackerOK /\ o \in Task /\ at[o].pc = "sent" /\ o \notin promoting
        /\ at[o].text \in [Doc -> Text] /\ at[o].doc \in Doc
    BY DEF IInv, Task, RecordOpen, Tasks, TaskOK, Texts, TypeOK, TasksOK, TaskState
  <1>1. UNCHANGED <<handle, generation, versions, claims, openedOn, registered, transition, latest, host, side,
                    purge, wire, delivered, faults>> /\ NextDocument(o, TRUE)
    BY DEF RecordOpen
  <1>2. fingerprints' = fingerprints \/ fingerprints' = [fingerprints EXCEPT ![at[o].doc] = at[o].text[at[o].doc]]
    <2>1. CASE at[o].ok
      BY <2>1, Zenon DEF RecordOpen
    <2>2. CASE ~at[o].ok
      BY <2>2, <1>0 DEF RecordOpen, TrackerOK
    <2>. QED  BY <2>1, <2>2
  <1>3. fingerprints' \in [Doc -> Text \cup {NoText}]
    BY <1>0, <1>2 DEF TrackerOK
  <1>4. TrackerOK' /\ HostOK' /\ PoolOK' /\ UNCHANGED core
    BY <1>0, <1>1, <1>3 DEF TypeOK, TrackerOK, HostOK, PoolOK, side, core
  <1>. QED  BY <1>0, <1>1, <1>4, LeavesDocument DEF side

-----------------------------------------------------------------------------
(* Steps of a task that change its document's entries                      *)

SameEntries(e) ==
  /\ versions'[e] = versions[e] /\ claims'[e] = claims[e] /\ registered'[e] = registered[e]
  /\ transition'[e] = transition[e] /\ wire'[e] = wire[e]
  /\ e \in openedOn' <=> e \in openedOn

(* t moves and changes the entries of d, whose lock nobody else has.       *)
Works(t, d) ==
  /\ at[t].doc = d /\ Rests(t)
  /\ UNCHANGED <<handle, generation, purge>>
  /\ transition[d] \in {t, NoTask}
  /\ \A e \in Doc \ {d} : SameEntries(e)
  /\ \A u \in Task \ {t} : (u \in promoting' <=> u \in promoting) /\ (u \in cleanups' <=> u \in cleanups)
  /\ connections' = connections \/ (connections = t /\ connections' = NoTask)
  /\ at[t].pc # "purging" /\ at'[t].pc # "purging"
  /\ t \in Closer => \A e \in Doc \ {d} : Owes(t, e) => Owes(t, e)'

LEMMA WorksSame ==
  ASSUME TypeOK, Global, NEW t \in Task, NEW d \in Doc, Works(t, d)
  PROVE  (Fence' <=> Fence) /\ (Intact' => Intact) /\ Global'
  <1>1. (Fence' <=> Fence) /\ (Intact' => Intact)
    BY Kinds DEF Works, Fence, Intact
  <1>2. Global'
    BY Kinds DEF Works, Rests, Global, TypeOK, LocksOK, Task
  <1>. QED  BY <1>1, <1>2

LEMMA WorksBesideTasks ==
  ASSUME TypeOK, Global, Tasks, NEW t \in Task, NEW d \in Doc, Works(t, d), NEW u \in Task \ {t}
  PROVE  TaskOK(u)'
  <1>1. TaskOK(u) /\ at'[u] = at[u] /\ (u \in promoting' <=> u \in promoting) /\ (u \in cleanups' <=> u \in cleanups)
        /\ (connections' = u <=> connections = u) /\ UNCHANGED <<handle, generation>>
        /\ (Fence' <=> Fence) /\ (Intact' => Intact) /\ transition[d] # u /\ at[u].doc \in Doc
    BY Kinds, WorksSame DEF Works, Tasks, Rests, TypeOK, TasksOK, TaskState
  <1>2. CASE at[u].doc = d
    BY <1>1, <1>2 DEF TaskOK, Claiming, Promoting, Sending, Closes
  <1>3. CASE at[u].doc # d
    <2>1. SameEntries(at[u].doc)
      BY <1>1, <1>3 DEF Works
    <2>. QED  BY <1>1, <2>1 DEF TaskOK, Claiming, Promoting, Sending, Closes, SameEntries
  <1>. QED  BY <1>2, <1>3

LEMMA WorksBesideDocs ==
  ASSUME TypeOK, Global, Docs, NEW t \in Task, NEW d \in Doc, Works(t, d), NEW e \in Doc \ {d}
  PROVE  DocOK(e)'
  <1>1. DocOK(e) /\ SameEntries(e) /\ UNCHANGED <<handle, generation, purge>> /\ (Fence' <=> Fence)
        /\ transition[e] \in Task \cup {NoTask} /\ claims[e] \in Task \cup {NoTask}
    BY WorksSame DEF Works, Docs, TypeOK, LocksOK, TrackerOK, Task
  <1>2. Holders(e)'
    <2>1. ASSUME NEW u \in Task, transition[e] = u
          PROVE  at'[u].doc = e /\ (at'[u].pc \in {"claimed", "send", "record"} \/ u \in promoting')
      BY <1>1, <2>1, Kinds DEF DocOK, Holders, Works, Rests
    <2>2. ASSUME NEW u \in Task, claims[e] = u
          PROVE  at'[u].doc = e /\ (at'[u].pc = "claimed" \/ u \in promoting' \cup cleanups')
      BY <1>1, <2>2, Kinds DEF DocOK, Holders, Works, Rests
    <2>. QED  BY <1>1, <2>1, <2>2 DEF Holders, SameEntries
  <1>3. Purged(e)'
    BY <1>1 DEF DocOK, Purged, SameEntries
  <1>. QED  BY <1>1, <1>2, <1>3 DEF DocOK, SameEntries

LEMMA WorksBesideLedgers ==
  ASSUME TypeOK, Global, Docs, Ledgers, NEW t \in Task, NEW d \in Doc, Works(t, d), NEW e \in Doc \ {d}, Intact'
  PROVE  Ledger(e)'
  <1>1. Ledger(e) /\ Holders(e) /\ SameEntries(e) /\ UNCHANGED generation /\ claims[e] \in Task \cup {NoTask}
    BY WorksSame DEF Works, Docs, DocOK, Ledgers, TypeOK, TrackerOK, Task
  <1>2. OwedNow(e) => OwedNow(e)'
    <2>1. \A c \in Closer : Owes(c, e) => Owes(c, e)'
      BY DEF Works, Rests, Owes, Task
    <2>. QED  BY <2>1, Zenon DEF OwedNow
  <1>3. claims[e] # t
    BY <1>1, Kinds DEF Holders, Works
  <1>4. \/ /\ claims'[e] \in promoting' <=> claims[e] \in promoting
           /\ claims'[e] \in cleanups' <=> claims[e] \in cleanups
        \/ claims[e] = NoTask
    BY <1>1, <1>3 DEF Works, SameEntries
  <1>. QED  BY <1>1, <1>2, <1>3, <1>4 DEF Ledger, SameEntries

LEMMA WorksKeeps ==
  ASSUME IInv, TypeOK', NEW t \in Task, NEW d \in Doc, Works(t, d),
         TaskOK(t)', DocOK(d)', Intact' => Ledger(d)'
  PROVE  Kept
  <1>1. Global'
    BY WorksSame DEF IInv
  <1>2. Tasks'
    BY WorksBesideTasks, Zenon DEF IInv, Tasks
  <1>3. Docs'
    BY WorksBesideDocs, Zenon DEF IInv, Docs
  <1>4. Ledgers'
    BY WorksBesideLedgers, Zenon DEF IInv, Ledgers
  <1>. QED  BY <1>1, <1>2, <1>3, <1>4 DEF Kept, IInv

(* A task that holds the map: no purge is under way.                       *)
LEMMA Pinned ==
  ASSUME IInv, NEW t \in Task, connections = t, at[t].pc # "purging"
  PROVE  Intact /\ ~Fence /\ purge.step = "none" /\ handle.state \in {"ready", "failed"}
  BY Kinds DEF IInv, Global, Intact, Fence

(* A promotion holds its document's lock.                                  *)
LEMMA NotPromoting ==
  ASSUME IInv, NEW d \in Doc, NEW u \in promoting, at[u].doc = d
  PROVE  transition[d] = u /\ u # NoTask
  BY Kinds DEF IInv, TypeOK, PoolOK, Tasks, TaskOK, Promoting, Task

LEMMA ClaimAtRest ==
  ASSUME IInv, NEW d \in Doc, transition[d] = NoTask
  PROVE  claims[d] \notin promoting
  <1>1. CASE claims[d] = NoTask
    BY <1>1, Kinds DEF IInv, TypeOK, PoolOK, Task
  <1>2. CASE claims[d] # NoTask
    <2>1. at[claims[d]].doc = d
      BY <1>2 DEF IInv, Docs, DocOK, Holders
    <2>. QED  BY <2>1, NotPromoting
  <1>. QED  BY <1>1, <1>2

LEMMA TakeClaimKeeps ==
  ASSUME IInv, NEW o \in Opener, TakeClaim(o)
  PROVE  Kept
  <1>d. PICK d \in Doc : d = at[o].doc
    BY DEF IInv, TypeOK, TasksOK, TaskState, Task
  <1>0. TypeOK /\ TasksOK /\ TrackerOK /\ LocksOK /\ PoolOK /\ o \in Task /\ o \notin Closer /\ o # NoTask /\ at[o].pc = "locking"
        /\ TaskOK(o) /\ DocOK(d) /\ transition[d] = NoTask /\ connections = o /\ o \notin promoting /\ o \notin cleanups
        /\ (Claimable(d) \/ (d \notin openedOn /\ claims[d] # NoTask))
    BY <1>d, Kinds DEF IInv, Task, Tasks, TaskOK, Promoting, Pins, TakeClaim, TypeOK, TasksOK, TaskState, Docs
  <1>1. Intact /\ ~Fence /\ purge.step = "none" /\ handle.state \in {"ready", "failed"}
    BY <1>0, Pinned
  <1>2. Ledger(d)
    BY <1>0, <1>1 DEF IInv, Ledgers
  <1>3. /\ transition' = [transition EXCEPT ![d] = o]
        /\ versions' = [versions EXCEPT ![d] = 1]
        /\ claims' = [claims EXCEPT ![d] = o]
        /\ registered' = [registered EXCEPT ![d] = IF registered[d] = NoEntry \/ claims[d] # NoTask THEN generation ELSE registered[d]]
        /\ fingerprints' = [fingerprints EXCEPT ![d] = IF claims[d] # NoTask THEN NoText ELSE fingerprints[d]]
        /\ Goto(o, "claimed")
        /\ UNCHANGED <<handle, generation, openedOn, connections, editLock, lifecycle, latest, host, side, purge,
                       wire, delivered, faults>>
    BY <1>d, Zenon DEF TakeClaim
  <1>4. TasksOK' /\ Rests(o) /\ at'[o].pc = "claimed" /\ Carries(o)
    BY <1>0, <1>3, Goes DEF PcOf, OpenerPc
  <1>5. transition'[d] = o /\ versions'[d] = 1 /\ claims'[d] = o /\ registered'[d] \in {generation, registered[d]}
        /\ (registered[d] = NoEntry \/ claims[d] # NoTask => registered'[d] = generation)
        /\ \A e \in Doc \ {d} : SameEntries(e)
    BY <1>0, <1>3 DEF TypeOK, TrackerOK, LocksOK, SameEntries
  <1>6. TypeOK'
    <2>1. TrackerOK'
      BY <1>0, <1>3, DocumentsAssumption DEF TrackerOK
    <2>2. LocksOK'
      BY <1>0, <1>3 DEF LocksOK
    <2>3. HostOK' /\ PoolOK'
      BY <1>0, <1>3 DEF TypeOK, HostOK, PoolOK, side
    <2>. QED  BY <1>4, <2>1, <2>2, <2>3 DEF TypeOK
  <1>7. d \notin openedOn /\ wire[d] = Closed /\ registered[d] \in {generation, NoEntry}
    BY <1>0, <1>1, <1>2, ClaimAtRest DEF Ledger, DocOK, Claimable
  <1>8. Works(o, d)
    BY <1>d, <1>0, <1>3, <1>4, <1>5 DEF Works, side
  <1>9. TaskOK(o)'
    <2>1. at'[o].doc = d /\ at'[o].pc = "claimed" /\ at'[o].text \in [Doc -> Text] /\ at'[o].proc = handle'.proc /\ at'[o].gen = generation'
          /\ connections' = o /\ o \notin promoting' /\ o \notin cleanups'
      BY <1>d, <1>0, <1>3, <1>4 DEF TaskOK, Claiming, Carries, Texts, side
    <2>. QED  BY <1>5, <2>1 DEF TaskOK, Pins, Owing, Claiming, Promoting, Sending, Closes
  <1>10. DocOK(d)'
    <2>1. Holders(d)'
      BY <1>d, <1>4, <1>5 DEF Holders, Carries
    <2>2. Purged(d)'
      BY <1>1, <1>3 DEF Purged
    <2>3. ~Fence' /\ d \notin openedOn' /\ wire'[d] # Misordered
      BY <1>0, <1>1, <1>3, <1>7 DEF Fence, DocOK
    <2>4. registered'[d] # NoEntry => registered'[d] \in 0..generation'
      BY <1>0, <1>3, <1>5, <1>7 DEF TrackerOK
    <2>. QED  BY <2>1, <2>2, <2>3, <2>4 DEF DocOK
  <1>11. Ledger(d)'
    <2>1. registered'[d] = generation'
      BY <1>3, <1>5, <1>7
    <2>2. wire'[d] = Closed /\ d \notin openedOn' /\ o \notin promoting'
      BY <1>0, <1>3, <1>7 DEF side
    <2>. QED  BY <1>0, <1>5, <2>1, <2>2 DEF Ledger
  <1>. QED  BY <1>0, <1>6, <1>8, <1>9, <1>10, <1>11, WorksKeeps

-----------------------------------------------------------------------------
(* What the server makes of a frame                                        *)

LEMMA Copies ==
  /\ Closed \in Frames /\ Misordered # Closed /\ Misordered.version = MaxVersion + 1
  /\ \A v \in 1..MaxVersion, t \in Text : /\ [version |-> v, text |-> t] \in Frames
                                          /\ [version |-> v, text |-> t] \notin {Closed, Misordered}
                                          /\ [version |-> v, text |-> t].version = v
  BY DocumentsAssumption DEF Closed, Misordered, Frames

LEMMA ReceiveChange ==
  ASSUME NEW c, c \notin {Closed, Misordered}, NEW v \in 1..MaxVersion, v > c.version, NEW t \in Text
  PROVE  Receive(c, Change(v, t)) = [version |-> v, text |-> t]
  BY DEF Receive, Change

LEMMA ReceiveOpen ==
  ASSUME NEW t \in Text
  PROVE  Receive(Closed, Open(t)) = [version |-> 1, text |-> t]
  BY Copies DEF Receive, Open

LEMMA ReceiveClose ==
  ASSUME NEW c, c # Misordered
  PROVE  Receive(c, Close) = Closed
  BY DEF Receive, Close

LEMMA FaultsType ==
  ASSUME PoolOK, Dropped
  PROVE  faults' \in [drops : 0..MaxDrops, aborts : 0..MaxAborts] /\ wire' = wire
  BY DocumentsAssumption DEF PoolOK, Dropped
-----------------------------------------------------------------------------
(* Openers at work                                                         *)

LEMMA AlreadyOpenKeeps ==
  ASSUME IInv, NEW o \in Opener, AlreadyOpen(o)
  PROVE  Kept
  <1>d. PICK d \in Doc : d = at[o].doc
    BY DEF IInv, TypeOK, TasksOK, TaskState, Task
  <1>0. TypeOK /\ TasksOK /\ TrackerOK /\ LocksOK /\ PoolOK /\ HostOK /\ o \in Task /\ o \notin Closer /\ o # NoTask /\ at[o].pc = "locking"
        /\ TaskOK(o) /\ DocOK(d) /\ transition[d] = NoTask /\ connections = o /\ o \notin promoting /\ o \notin cleanups
        /\ d \in openedOn /\ at[o].proc = handle.proc /\ at[o].text \in [Doc -> Text]
    BY <1>d, Kinds DEF IInv, Task, Tasks, TaskOK, Promoting, Pins, AlreadyOpen, TypeOK, TasksOK, TaskState, Docs, Claiming, Texts
  <1>p. PICK v \in Nat, t \in Text : v = NextVersion(d, at[o].text[d]) /\ t = at[o].text[d] /\ (v = 0 \/ v = versions[d] + 1)
    BY <1>0 DEF NextVersion, TrackerOK
  <1>1. Intact /\ ~Fence /\ purge.step = "none" /\ handle.state \in {"ready", "failed"}
    BY <1>0, Pinned
  <1>2. Ledger(d) /\ wire[d] \notin {Closed, Misordered}
    BY <1>0, <1>1 DEF IInv, Ledgers, Ledger, DocOK
  <1>3. UNCHANGED <<handle, transition, latest, host, side, purge>> /\ NextDocument(o, TRUE) /\ v <= MaxVersion
    BY <1>d, <1>p DEF AlreadyOpen
  <1>4. CASE o \notin Repair \/ v = 0
    <2>1. UNCHANGED <<tracker, wire, delivered, faults>>
      BY <1>d, <1>p, <1>4 DEF AlreadyOpen
    <2>2. TrackerOK' /\ HostOK' /\ PoolOK' /\ UNCHANGED core
      BY <1>0, <1>3, <2>1 DEF TypeOK, TrackerOK, HostOK, PoolOK, tracker, side, core
    <2>. QED  BY <1>0, <1>3, <2>2, LeavesDocument DEF side
  <1>5. CASE o \in Repair /\ v # 0
    <2>1. /\ versions' = [versions EXCEPT ![d] = v]
          /\ \/ Queued(at[o].proc, d, Change(v, t)) /\ fingerprints' = [fingerprints EXCEPT ![d] = t]
             \/ Dropped /\ UNCHANGED fingerprints
          /\ delivered' = [delivered EXCEPT ![d] = NoText]
          /\ UNCHANGED <<generation, claims, openedOn, registered>>
      <3>1. ~(o \notin Repair \/ NextVersion(d, t) = 0)
        BY <1>p, <1>5
      <3>. QED  BY <1>d, <1>p, <3>1, Zenon DEF AlreadyOpen
    <2>2. v = versions[d] + 1 /\ v \in 1..MaxVersion
      BY <1>0, <1>3, <1>5, <1>p DEF TrackerOK
    <2>3. /\ TasksOK' /\ Rests(o) /\ at'[o].pc \in {"spawned", "done"}
          /\ at'[o].pc = "spawned" => at'[o].text = at[o].text
          /\ connections' = NoTask
          /\ editLock' \in {editLock, NoTask}
          /\ lifecycle' \in [readers : SUBSET Request, writer : Eager \cup Repair \cup {NoTask}]
      BY <1>0, <1>3, NextDocumentEffect
    <2>4. /\ wire' = wire \/ wire' = [wire EXCEPT ![d] = [version |-> v, text |-> t]]
          /\ faults' \in [drops : 0..MaxDrops, aborts : 0..MaxAborts]
      <3>1. wire[d].version < v
        BY <1>0, <1>2, <2>2 DEF Ledger, PoolOK, Frames, TrackerOK, Closed, Misordered
      <3>2. CASE Queued(at[o].proc, d, Change(v, t))
        <4>1. wire' = [wire EXCEPT ![d] = Receive(wire[d], Change(v, t))] /\ UNCHANGED faults
          BY <1>0, <3>2, Zenon DEF Queued
        <4>2. Receive(wire[d], Change(v, t)) = [version |-> v, text |-> t]
          BY <1>2, <2>2, <3>1, ReceiveChange DEF TrackerOK
        <4>. QED  BY <1>0, <4>1, <4>2 DEF PoolOK
      <3>. QED  BY <1>0, <2>1, <3>2, FaultsType
    <2>5. TypeOK'
      <3>1. TrackerOK'
        BY <1>0, <2>1, <2>2 DEF TrackerOK
      <3>2. LocksOK'
        BY <1>0, <1>3, <2>3 DEF LocksOK
      <3>3. HostOK'
        BY <1>0, <1>3, <2>1 DEF HostOK
      <3>4. wire' \in [Doc -> Frames]
        BY <1>0, <2>2, <2>4, Copies DEF PoolOK
      <3>5. PoolOK'
        BY <1>0, <1>3, <2>4, <3>4 DEF PoolOK, side
      <3>. QED  BY <2>3, <3>1, <3>2, <3>3, <3>5 DEF TypeOK
    <2>6. versions'[d] = v /\ \A e \in Doc \ {d} : SameEntries(e)
      BY <1>0, <1>3, <2>1, <2>4 DEF TrackerOK, PoolOK, SameEntries
    <2>7. wire'[d] \notin {Closed, Misordered} /\ wire'[d].version <= v
      BY <1>0, <1>2, <2>2, <2>4, Copies DEF PoolOK, Ledger, Frames, TrackerOK
    <2>8. Works(o, d)
      BY <1>d, <1>0, <1>3, <2>1, <2>3, <2>6 DEF Works, side
    <2>9. TaskOK(o)'
      <3>1. connections' # o /\ o \notin promoting' /\ o \notin cleanups'
        BY <1>0, <1>3, <2>3 DEF side
      <3>2. at'[o].pc \in Light \ {"ending", "ended"} /\ (at'[o].pc \in Texts => at'[o].text \in [Doc -> Text])
        BY <1>0, <2>3 DEF Light, Texts
      <3>. QED  BY <1>0, <3>1, <3>2, LightTask
    <2>10. DocOK(d)'
      <3>1. claims[d] = NoTask
        BY <1>0 DEF DocOK
      <3>2. Holders(d)'
        BY <1>0, <1>3, <2>1, <3>1 DEF Holders
      <3>3. Purged(d)'
        BY <1>1, <1>3 DEF Purged
      <3>4. ~Fence'
        BY <1>1, <1>3 DEF Fence
      <3>. QED  BY <1>0, <1>5, <2>1, <2>6, <2>7, <3>1, <3>2, <3>3, <3>4 DEF DocOK
    <2>11. Ledger(d)'
      <3>1. OwedNow(d) => OwedNow(d)'
        <4>1. \A c \in Closer : Owes(c, d) => Owes(c, d)'
          BY <1>0, <2>1, <2>3 DEF Rests, Owes, Task
        <4>. QED  BY <4>1, Zenon DEF OwedNow
      <3>2. claims[d] = NoTask
        BY <1>0 DEF DocOK
      <3>. QED  BY <1>0, <1>2, <1>3, <1>5, <2>1, <2>6, <2>7, <3>1, <3>2 DEF Ledger, side
    <2>. QED  BY <1>0, <2>5, <2>8, <2>9, <2>10, <2>11, WorksKeeps
  <1>. QED  BY <1>4, <1>5

LEMMA RollbackEffect ==
  ASSUME TrackerOK, NEW o \in Opener, NEW d \in Doc, Rollback(o, d)
  PROVE  /\ TrackerOK' /\ UNCHANGED <<generation, openedOn>>
         /\ claims[d] = o => claims'[d] = NoTask /\ versions'[d] = 0 /\ registered'[d] = NoEntry
         /\ claims[d] # o => UNCHANGED tracker
         /\ \A e \in Doc \ {d} : versions'[e] = versions[e] /\ claims'[e] = claims[e] /\ registered'[e] = registered[e]
  <1>1. CASE claims[d] = o
    BY <1>1, DocumentsAssumption DEF Rollback, TrackerOK
  <1>2. CASE claims[d] # o
    BY <1>2 DEF Rollback, TrackerOK, tracker
  <1>. QED  BY <1>1, <1>2

(* The claim of o is taken back, or was not there any more.                *)
LEMMA RolledBack ==
  ASSUME IInv, TypeOK', NEW o \in Opener, NEW d \in Doc, Works(o, d), Rollback(o, d), UNCHANGED wire,
         transition'[d] = NoTask, TaskOK(o)', o \notin promoting',
         o \notin cleanups' \/ claims[d] = o,
         Intact /\ claims[d] = o => wire[d] = Closed,
         Intact => claims[d] = o \/ transition[d] = NoTask
  PROVE  Kept
  <1>0. TypeOK /\ TrackerOK /\ DocOK(d) /\ o \in Task /\ o \notin Closer /\ o # NoTask /\ Global
    BY Kinds DEF IInv, TypeOK, Docs, Task
  <1>1. /\ UNCHANGED <<generation, openedOn>>
        /\ claims[d] = o => claims'[d] = NoTask /\ versions'[d] = 0 /\ registered'[d] = NoEntry
        /\ claims[d] # o => UNCHANGED tracker
    BY <1>0, RollbackEffect
  <1>2. UNCHANGED <<handle, purge>> /\ (Fence' <=> Fence) /\ (Intact' => Intact)
    BY <1>0, WorksSame DEF Works
  <1>3. CASE claims[d] = o
    <2>1. d \notin openedOn
      BY <1>0, <1>3 DEF DocOK
    <2>2. DocOK(d)'
      <3>1. Holders(d)'
        BY <1>1, <1>3 DEF Holders
      <3>2. Purged(d)'
        BY <1>0, <1>1, <1>2, <1>3 DEF DocOK, Purged
      <3>. QED  BY <1>0, <1>1, <1>3, <2>1, <3>1, <3>2 DEF DocOK
    <2>3. ASSUME Intact' PROVE Ledger(d)'
      <3>1. wire'[d] = Closed
        BY <1>2, <1>3, <2>3
      <3>. QED  BY <1>1, <1>3, <2>1, <3>1 DEF Ledger
    <2>. QED  BY <1>0, <2>2, <2>3, WorksKeeps
  <1>4. CASE claims[d] # o
    <2>1. UNCHANGED tracker
      BY <1>1, <1>4
    <2>2. claims[d] # NoTask => claims[d] \in Task \ {o} /\ at[claims[d]].doc = d
            /\ (at[claims[d]].pc = "claimed" \/ claims[d] \in promoting \cup cleanups)
      BY <1>0, <1>4 DEF DocOK, Holders, TrackerOK, Task
    <2>3. claims[d] # NoTask => /\ at'[claims[d]] = at[claims[d]]
                                /\ (claims[d] \in promoting' <=> claims[d] \in promoting)
                                /\ (claims[d] \in cleanups' <=> claims[d] \in cleanups)
      BY <2>2 DEF Works, Rests
    <2>4. DocOK(d)'
      <3>1. Holders(d)'
        BY <2>1, <2>2, <2>3 DEF Holders, tracker
      <3>2. Purged(d)'
        BY <1>0, <1>2, <2>1 DEF DocOK, Purged, tracker
      <3>. QED  BY <1>0, <1>2, <2>1, <3>1, <3>2 DEF DocOK, tracker
    <2>5. ASSUME Intact' PROVE Ledger(d)'
      <3>1. Ledger(d) /\ transition[d] = NoTask
        BY <1>2, <1>4, <2>5 DEF IInv, Ledgers
      <3>2. OwedNow(d) => OwedNow(d)'
        <4>1. \A c \in Closer : Owes(c, d) => Owes(c, d)'
          BY <1>0, <1>1 DEF Works, Rests, Owes, Task
        <4>. QED  BY <4>1, Zenon DEF OwedNow
      <3>3. NoTask \notin promoting
        BY <1>0, Kinds DEF TypeOK, PoolOK, Task
      <3>. QED  BY <2>1, <2>3, <3>1, <3>2, <3>3 DEF Ledger, tracker
    <2>. QED  BY <1>0, <2>4, <2>5, WorksKeeps
  <1>. QED  BY <1>3, <1>4

LEMMA SendOpenFacts ==
  ASSUME IInv, NEW o \in Opener, SendOpen(o), NEW d \in Doc, d = at[o].doc
  PROVE  /\ TypeOK /\ o \in Task /\ o \notin Closer /\ o # NoTask /\ at[o].pc = "claimed"
         /\ connections = o /\ o \notin promoting /\ o \notin cleanups
         /\ at[o].proc = handle.proc /\ at[o].gen = generation /\ at[o].text \in [Doc -> Text]
         /\ transition[d] = o /\ claims[d] = o /\ versions[d] # 0
         /\ Intact /\ ~Fence /\ purge.step = "none" /\ handle.state \in {"ready", "failed"}
         /\ DocOK(d) /\ Ledger(d) /\ wire[d] = Closed /\ OpenText(o, d) \in Text
  <1>0. TypeOK /\ o \in Task /\ o \notin Closer /\ o # NoTask /\ at[o].pc = "claimed" /\ TaskOK(o) /\ DocOK(d)
    BY Kinds DEF IInv, Task, Tasks, SendOpen, Docs
  <1>1. connections = o /\ o \notin promoting /\ o \notin cleanups
         /\ at[o].proc = handle.proc /\ at[o].gen = generation /\ at[o].text \in [Doc -> Text]
         /\ transition[d] = o /\ claims[d] = o /\ versions[d] # 0
    BY <1>0 DEF TaskOK, Pins, Promoting, Claiming, Texts
  <1>2. Intact /\ ~Fence /\ purge.step = "none" /\ handle.state \in {"ready", "failed"}
    BY <1>0, <1>1, Pinned
  <1>3. Ledger(d) /\ wire[d] = Closed
    BY <1>0, <1>1, <1>2 DEF IInv, Ledgers, Ledger
  <1>4. OpenText(o, d) \in Text
    BY <1>0, <1>1 DEF OpenText, TypeOK, HostOK
  <1>. QED  BY <1>0, <1>1, <1>2, <1>3, <1>4

LEMMA SendOpenKeeps ==
  ASSUME IInv, NEW o \in Opener, SendOpen(o)
  PROVE  Kept
  <1>d. PICK d \in Doc : d = at[o].doc
    BY DEF IInv, TypeOK, TasksOK, TaskState, Task
  <1>0. /\ TypeOK /\ o \in Task /\ o \notin Closer /\ o # NoTask /\ at[o].pc = "claimed"
        /\ connections = o /\ o \notin promoting /\ o \notin cleanups
        /\ at[o].proc = handle.proc /\ at[o].gen = generation /\ at[o].text \in [Doc -> Text]
        /\ transition[d] = o /\ claims[d] = o /\ versions[d] # 0
        /\ Intact /\ ~Fence /\ purge.step = "none" /\ handle.state \in {"ready", "failed"}
        /\ DocOK(d) /\ Ledger(d) /\ wire[d] = Closed /\ OpenText(o, d) \in Text
    BY <1>d, SendOpenFacts
  <1>t. PICK t \in Text : t = OpenText(o, d)
    BY <1>0
  <1>1. UNCHANGED <<handle, latest, host, cancelled, cleanups, purge>>
    BY DEF SendOpen
  <1>2. ASSUME /\ Queued(at[o].proc, d, Open(t))
               /\ at' = [at EXCEPT ![o].pc = "sent", ![o].text[d] = t]
               /\ promoting' = promoting \cup {o}
               /\ delivered' = IF o \in Repair THEN [delivered EXCEPT ![d] = NoText] ELSE delivered
               /\ UNCHANGED <<tracker, locks>>
        PROVE  Kept
    <2>. DEFINE r == [at[o] EXCEPT !.pc = "sent", !.text = [at[o].text EXCEPT ![d] = t]]
    <2>1. at[o] \in TaskState /\ TasksOK
      BY <1>0 DEF TypeOK, TasksOK
    <2>2. r \in TaskState /\ r.pc = "sent" /\ r.doc = d /\ r.gen = at[o].gen /\ r.text \in [Doc -> Text]
      <3>1. PICK x \in [Doc -> Text] : x = [at[o].text EXCEPT ![d] = t]
        BY <1>0
      <3>2. r = [at[o] EXCEPT !.pc = "sent", !.text = x]
        BY <3>1
      <3>. HIDE DEF r
      <3>. QED  BY <1>d, <2>1, <3>1, <3>2 DEF TaskState, OpenerPc, CloserPc
    <2>3. at' = [at EXCEPT ![o] = r]
      BY <1>2, <2>1, Zenon
    <2>. HIDE DEF r
    <2>4. TasksOK' /\ Rests(o) /\ at'[o] = r
      BY <1>0, <2>1, <2>2, <2>3, Becomes DEF PcOf, OpenerPc
    <2>5. wire' = [wire EXCEPT ![d] = [version |-> 1, text |-> t]] /\ UNCHANGED faults
      <3>1. wire' = [wire EXCEPT ![d] = Receive(wire[d], Open(t))] /\ UNCHANGED faults
        BY <1>0, <1>2, Zenon DEF Queued
      <3>. QED  BY <1>0, <3>1, ReceiveOpen
    <2>6. wire'[d] = [version |-> 1, text |-> t] /\ wire' \in [Doc -> Frames] /\ \A e \in Doc \ {d} : wire'[e] = wire[e]
      BY <1>0, <2>5, Copies, DocumentsAssumption DEF TypeOK, PoolOK
    <2>7. wire'[d] \notin {Closed, Misordered} /\ wire'[d].version = 1
      BY <2>6, Copies, DocumentsAssumption
    <2>8. TypeOK'
      <3>1. delivered' \in [Doc -> Text \cup {NoText}]
        BY <1>0, <1>2 DEF TypeOK, HostOK
      <3>2. TrackerOK' /\ LocksOK' /\ HostOK'
        BY <1>0, <1>1, <1>2, <3>1 DEF TypeOK, TrackerOK, LocksOK, HostOK, tracker, locks
      <3>3. PoolOK'
        BY <1>0, <1>1, <1>2, <2>5, <2>6 DEF TypeOK, PoolOK
      <3>. QED  BY <2>4, <3>2, <3>3 DEF TypeOK
    <2>9. Works(o, d)
      BY <1>d, <1>0, <1>1, <1>2, <2>2, <2>4, <2>6 DEF Works, tracker, locks, SameEntries
    <2>10. TaskOK(o)'
      <3>1. at'[o].doc = d /\ at'[o].pc = "sent" /\ at'[o].text \in [Doc -> Text] /\ at'[o].gen = generation' /\ generation' \in Nat
            /\ connections' = o /\ o \notin cleanups' /\ transition'[d] = o /\ claims'[d] = o /\ versions'[d] # 0 /\ ~Fence'
        BY <1>0, <1>1, <1>2, <2>2, <2>4 DEF tracker, locks, TypeOK, TrackerOK, Fence
      <3>. QED  BY <3>1 DEF TaskOK, Pins, Owing, Claiming, Promoting, Sending, Closes
    <2>11. DocOK(d)'
      <3>1. Holders(d)'
        BY <1>0, <1>2, <2>2, <2>4 DEF Holders, tracker, locks
      <3>2. Purged(d)'
        BY <1>0, <1>1 DEF Purged
      <3>3. ~Fence'
        BY <1>0, <1>1 DEF Fence
      <3>. QED  BY <1>0, <1>1, <1>2, <2>7, <3>1, <3>2, <3>3 DEF DocOK, tracker
    <2>12. Ledger(d)'
      <3>1. OwedNow(d) => OwedNow(d)'
        <4>1. \A c \in Closer : Owes(c, d) => Owes(c, d)'
          BY <1>0, <1>2, <2>4 DEF Rests, Owes, Task, tracker
        <4>. QED  BY <4>1, Zenon DEF OwedNow
      <3>2. d \notin openedOn /\ versions[d] \in Nat /\ (registered[d] = generation \/ OwedNow(d)) /\ registered[d] \in {generation, NoEntry}
        BY <1>0 DEF DocOK, TypeOK, TrackerOK, Ledger
      <3>. QED  BY <1>0, <1>2, <2>7, <3>1, <3>2 DEF Ledger, tracker
    <2>. QED  BY <1>0, <2>8, <2>9, <2>10, <2>11, <2>12, WorksKeeps
  <1>3. ASSUME Dropped, Rollback(o, d), transition' = [transition EXCEPT ![d] = NoTask], NextDocument(o, TRUE),
               UNCHANGED <<promoting, delivered>>
        PROVE  Kept
    <2>1. /\ TasksOK' /\ Rests(o) /\ at'[o].pc \in {"spawned", "done"}
          /\ at'[o].pc = "spawned" => at'[o].text = at[o].text
          /\ connections' = NoTask
          /\ editLock' \in {editLock, NoTask}
          /\ lifecycle' \in [readers : SUBSET Request, writer : Eager \cup Repair \cup {NoTask}]
      BY <1>0, <1>3, NextDocumentEffect
    <2>2. /\ TrackerOK' /\ UNCHANGED <<generation, openedOn>>
          /\ \A e \in Doc \ {d} : versions'[e] = versions[e] /\ claims'[e] = claims[e] /\ registered'[e] = registered[e]
      BY <1>0, <1>3, RollbackEffect DEF TypeOK
    <2>3. faults' \in [drops : 0..MaxDrops, aborts : 0..MaxAborts] /\ wire' = wire
      BY <1>0, <1>3, FaultsType DEF TypeOK
    <2>4. TypeOK'
      <3>1. LocksOK'
        BY <1>0, <1>3, <2>1 DEF TypeOK, LocksOK
      <3>2. HostOK' /\ PoolOK'
        BY <1>0, <1>1, <1>3, <2>3 DEF TypeOK, HostOK, PoolOK
      <3>. QED  BY <2>1, <2>2, <3>1, <3>2 DEF TypeOK
    <2>5. transition'[d] = NoTask /\ \A e \in Doc \ {d} : transition'[e] = transition[e]
      BY <1>0, <1>3 DEF TypeOK, LocksOK
    <2>6. Works(o, d)
      BY <1>d, <1>0, <1>1, <1>3, <2>1, <2>2, <2>3, <2>5 DEF Works, SameEntries
    <2>7. TaskOK(o)'
      <3>1. connections' # o /\ o \notin promoting' /\ o \notin cleanups'
        BY <1>0, <1>1, <1>3, <2>1
      <3>2. at'[o].pc \in Light \ {"ending", "ended"} /\ (at'[o].pc \in Texts => at'[o].text \in [Doc -> Text])
        BY <1>0, <2>1 DEF Light, Texts
      <3>. QED  BY <1>0, <3>1, <3>2, LightTask
    <2>. QED  BY <1>0, <1>1, <1>3, <2>3, <2>4, <2>5, <2>6, <2>7, RolledBack
  <1>. QED  BY <1>d, <1>t, <1>2, <1>3, Zenon DEF SendOpen

LEMMA PromoteKeeps ==
  ASSUME IInv, NEW o \in Opener, Promote(o)
  PROVE  Kept
  <1>d. PICK d \in Doc : d = at[o].doc
    BY DEF IInv, TypeOK, TasksOK, TaskState, Task
  <1>0. TypeOK /\ TasksOK /\ TrackerOK /\ o \in Task /\ o \notin Closer /\ o # NoTask /\ TaskOK(o) /\ DocOK(d) /\ at[o] \in TaskState
        /\ o \in promoting /\ o \notin cleanups /\ transition[d] = o /\ at[o].pc \in {"sent", "done"}
    BY <1>d, Kinds DEF IInv, Task, Tasks, TaskOK, Promoting, Promote, TypeOK, TasksOK, Docs
  <1>1. /\ MarkOpenSent(o, d)
        /\ promoting' = promoting \ {o}
        /\ transition' = [transition EXCEPT ![d] = NoTask]
        /\ UNCHANGED <<handle, connections, editLock, lifecycle, latest, host, cancelled, cleanups, purge, wire, delivered, faults>>
    BY <1>d DEF Promote
  <1>2. TasksOK' /\ Rests(o) /\ at'[o].pc = at[o].pc /\ (at[o].pc = "sent" => at'[o].text = at[o].text)
    <2>1. CASE at[o].pc = "done"
      <3>1. at' = [at EXCEPT ![o] = Gone]
        BY <1>d, <2>1, Zenon DEF Promote
      <3>. QED  BY <1>0, <2>1, <3>1, Leaves
    <2>2. CASE at[o].pc = "sent"
      <3>. DEFINE b == generation = at[o].gen /\ claims[d] = o
      <3>1. b \in BOOLEAN
        OBVIOUS
      <3>2. at' = [at EXCEPT ![o] = [at[o] EXCEPT !.ok = b]]
        <4>1. at[o].pc # "done"
          BY <2>2
        <4>. QED  BY <1>d, <4>1, Zenon DEF Promote
      <3>. HIDE DEF b
      <3>. DEFINE r == [at[o] EXCEPT !.ok = b]
      <3>3. r \in TaskState /\ r.pc = "sent" /\ r.text = at[o].text
        BY <1>0, <2>2, <3>1 DEF TaskState
      <3>4. at' = [at EXCEPT ![o] = r]
        BY <3>2
      <3>. HIDE DEF r
      <3>. QED  BY <1>0, <2>2, <3>3, <3>4, Becomes DEF PcOf, OpenerPc
    <2>. QED  BY <1>0, <2>1, <2>2
  <1>3. transition'[d] = NoTask /\ \A e \in Doc \ {d} : transition'[e] = transition[e]
    BY <1>0, <1>1 DEF TypeOK, LocksOK
  <1>4. LocksOK' /\ HostOK' /\ PoolOK'
    BY <1>0, <1>1 DEF TypeOK, LocksOK, HostOK, PoolOK
  <1>5. TaskOK(o)'
    <2>1. (connections' = o <=> at'[o].pc \in Pins) /\ (at'[o].pc \in Texts => at'[o].text \in [Doc -> Text])
          /\ at'[o].pc \in {"sent", "done"} /\ o \notin promoting' /\ o \notin cleanups'
      BY <1>0, <1>1, <1>2 DEF TaskOK, Texts
    <2>. QED  BY <1>0, <2>1 DEF TaskOK, Pins, Owing, Texts, Claiming, Promoting, Sending, Closes, Closer
  <1>6. CASE generation = at[o].gen /\ claims[d] = o
    <2>1. /\ claims' = [claims EXCEPT ![d] = NoTask]
          /\ openedOn' = openedOn \cup {d}
          /\ UNCHANGED <<generation, versions, fingerprints, registered>>
      BY <1>1, <1>6, Zenon DEF MarkOpenSent
    <2>2. TrackerOK'
      BY <1>0, <2>1 DEF TrackerOK
    <2>3. TypeOK'
      BY <1>2, <1>4, <2>2 DEF TypeOK
    <2>4. claims'[d] = NoTask /\ \A e \in Doc \ {d} : claims'[e] = claims[e]
      BY <1>0, <2>1 DEF TrackerOK
    <2>5. Works(o, d)
      BY <1>d, <1>0, <1>1, <1>2, <1>3, <2>1, <2>4 DEF Works, SameEntries
    <2>6. versions[d] # 0 /\ ~Fence /\ ~Fence'
      BY <1>d, <1>0, <1>1, <1>6 DEF TaskOK, Promoting, Fence
    <2>7. DocOK(d)'
      <3>1. Holders(d)'
        BY <1>3, <2>4 DEF Holders
      <3>2. Purged(d)'
        BY <2>6 DEF Purged, Fence
      <3>. QED  BY <1>0, <1>1, <2>1, <2>4, <2>6, <3>1, <3>2 DEF DocOK
    <2>8. ASSUME Intact' PROVE Ledger(d)'
      <3>1. Ledger(d)
        BY <2>8, <1>1 DEF IInv, Ledgers, Intact
      <3>2. OwedNow(d) => OwedNow(d)'
        <4>1. \A c \in Closer : Owes(c, d) => Owes(c, d)'
          BY <1>0, <1>2, <2>1 DEF Rests, Owes, Task
        <4>. QED  BY <4>1, Zenon DEF OwedNow
      <3>. QED  BY <1>0, <1>1, <1>6, <2>1, <2>4, <3>1, <3>2 DEF Ledger
    <2>. QED  BY <1>0, <1>5, <2>3, <2>5, <2>7, <2>8, WorksKeeps
  <1>7. CASE ~(generation = at[o].gen /\ claims[d] = o)
    <2>1. Rollback(o, d)
      BY <1>1, <1>7, Zenon DEF MarkOpenSent
    <2>2. /\ TrackerOK' /\ UNCHANGED <<generation, openedOn>>
          /\ \A e \in Doc \ {d} : versions'[e] = versions[e] /\ claims'[e] = claims[e] /\ registered'[e] = registered[e]
      BY <1>0, <2>1, RollbackEffect
    <2>3. TypeOK'
      BY <1>2, <1>4, <2>2 DEF TypeOK
    <2>4. Works(o, d)
      BY <1>d, <1>0, <1>1, <1>2, <1>3, <2>2 DEF Works, SameEntries
    <2>5. ~Intact
      BY <1>d, <1>0, <1>7 DEF TaskOK, Promoting
    <2>. QED  BY <1>0, <1>1, <1>3, <1>5, <2>1, <2>3, <2>4, <2>5, RolledBack
  <1>. QED  BY <1>6, <1>7

LEMMA CleanUpKeeps ==
  ASSUME IInv, NEW o \in Opener, CleanUp(o)
  PROVE  Kept
  <1>d. PICK d \in Doc : d = at[o].doc
    BY DEF IInv, TypeOK, TasksOK, TaskState, Task
  <1>0. TypeOK /\ TasksOK /\ TrackerOK /\ o \in Task /\ o \notin Closer /\ o # NoTask /\ TaskOK(o)
        /\ o \notin promoting /\ o \in cleanups /\ transition[d] = NoTask /\ at[o].pc = "done"
    BY <1>d, Kinds DEF IInv, Task, Tasks, TaskOK, CleanUp, TypeOK
  <1>1. /\ Rollback(o, d)
        /\ cleanups' = cleanups \ {o}
        /\ at' = [at EXCEPT ![o] = Gone]
        /\ UNCHANGED <<handle, locks, latest, host, cancelled, promoting, purge, wire, delivered, faults>>
    BY <1>d DEF CleanUp
  <1>2. TasksOK' /\ Rests(o) /\ at'[o].pc = "done"
    BY <1>0, <1>1, Leaves
  <1>3. /\ TrackerOK' /\ UNCHANGED <<generation, openedOn>>
        /\ \A e \in Doc \ {d} : versions'[e] = versions[e] /\ claims'[e] = claims[e] /\ registered'[e] = registered[e]
    BY <1>0, <1>1, RollbackEffect
  <1>4. TypeOK'
    BY <1>0, <1>1, <1>2, <1>3 DEF TypeOK, LocksOK, HostOK, PoolOK, locks
  <1>5. Works(o, d)
    BY <1>d, <1>0, <1>1, <1>2, <1>3 DEF Works, SameEntries, locks
  <1>6. TaskOK(o)'
    <2>1. connections' # o /\ o \notin promoting' /\ o \notin cleanups'
      BY <1>0, <1>1 DEF locks, TaskOK, Pins
    <2>. QED  BY <1>0, <1>2, <2>1, LightTask DEF Light, Texts
  <1>7. Intact /\ claims[d] = o => wire[d] = Closed
    BY <1>0 DEF IInv, Ledgers, Ledger
  <1>. QED  BY <1>0, <1>1, <1>4, <1>5, <1>6, <1>7, RolledBack DEF locks

LEMMA AbortKeeps ==
  ASSUME IInv, NEW o \in Opener, Abort(o)
  PROVE  Kept
  <1>d. PICK d \in Doc : d = at[o].doc
    BY DEF IInv, TypeOK, TasksOK, TaskState, Task
  <1>0. TypeOK /\ TasksOK /\ TrackerOK /\ LocksOK /\ o \in Task /\ o \notin Closer /\ o # NoTask /\ TaskOK(o) /\ DocOK(d) /\ o \notin cleanups
        /\ (o \in promoting => at[o].pc = "sent") /\ at[o].pc \in {"spawned", "asked", "entered", "locking", "claimed", "sent"}
    BY <1>d, Kinds DEF IInv, Task, Tasks, TaskOK, Promoting, Abort, TypeOK, Docs
  <1>1. /\ cleanups' = IF at[o].pc = "claimed" THEN cleanups \cup {o} ELSE cleanups
        /\ transition' = IF at[o].pc = "claimed" THEN [transition EXCEPT ![d] = NoTask] ELSE transition
        /\ at' = [at EXCEPT ![o] = IF o \in cleanups' \cup promoting THEN [at[o] EXCEPT !.pc = "done"] ELSE Gone]
        /\ UNCHANGED <<handle, tracker, latest, host, cancelled, promoting, purge, wire, delivered>>
    BY <1>d, Zenon DEF Abort
  <1>2. faults' \in [drops : 0..MaxDrops, aborts : 0..MaxAborts]
    BY <1>0, DocumentsAssumption DEF Abort, TypeOK, PoolOK
  <1>3. /\ connections' = IF connections = o THEN NoTask ELSE connections
        /\ editLock' \in {editLock, NoTask}
        /\ lifecycle' \in [readers : SUBSET Request, writer : Eager \cup Repair \cup {NoTask}]
    BY <1>0 DEF Abort, Released, LocksOK
  <1>4. TasksOK' /\ Rests(o) /\ at'[o].pc = "done" /\ (o \in cleanups' \cup promoting => at'[o].doc = d /\ at'[o].gen = at[o].gen)
    <2>1. CASE o \in cleanups' \cup promoting
      <3>. DEFINE r == [at[o] EXCEPT !.pc = "done"]
      <3>1. r \in TaskState /\ r.pc = "done" /\ r.doc = at[o].doc /\ r.gen = at[o].gen
        BY <1>0 DEF TasksOK, TaskState, OpenerPc
      <3>2. at' = [at EXCEPT ![o] = r]
        BY <1>1, <2>1
      <3>. HIDE DEF r
      <3>. QED  BY <1>d, <1>0, <3>1, <3>2, Becomes DEF PcOf, OpenerPc
    <2>2. CASE o \notin cleanups' \cup promoting
      BY <1>0, <1>1, <2>2, Leaves
    <2>. QED  BY <2>1, <2>2
  <1>5. TypeOK'
    <2>1. transition' \in [Doc -> Task \cup {NoTask}]
      BY <1>0, <1>1 DEF LocksOK
    <2>2. TrackerOK' /\ LocksOK' /\ HostOK'
      BY <1>0, <1>1, <1>3, <2>1 DEF TypeOK, TrackerOK, LocksOK, HostOK, tracker
    <2>3. PoolOK'
      BY <1>0, <1>1, <1>2 DEF TypeOK, PoolOK
    <2>. QED  BY <1>4, <2>2, <2>3 DEF TypeOK
  <1>6. CASE at[o].pc # "claimed"
    <2>1. UNCHANGED core
      BY <1>1, <1>6 DEF core, tracker
    <2>2. Quiet({o})
      BY <1>d, <1>0, <1>1, <1>3, <1>4, <1>6, <2>1 DEF Quiet, Rests
    <2>3. TaskOK(o)'
      <3>1. connections' # o /\ o \notin cleanups' /\ UNCHANGED handle /\ UNCHANGED purge
        BY <1>0, <1>3, <2>1 DEF core
      <3>2. Promoting(o)'
        <4>1. CASE o \notin promoting
          BY <4>1, <2>1 DEF Promoting, core
        <4>2. CASE o \in promoting
          <5>1. connections = o
            BY <1>0, <4>2 DEF TaskOK, Pins
          <5>2. Intact
            BY <1>0, <5>1, Pinned
          <5>. QED  BY <1>d, <1>0, <1>4, <2>1, <4>2, <5>2 DEF TaskOK, Promoting, core, Fence
        <4>. QED  BY <4>1, <4>2
      <3>. QED  BY <1>0, <1>4, <3>1, <3>2 DEF TaskOK, Pins, Owing, Texts, Claiming, Sending, Closes
    <2>. QED  BY <1>0, <1>5, <2>2, <2>3, Moves
  <1>7. CASE at[o].pc = "claimed"
    <2>1. transition[d] = o /\ claims[d] = o /\ connections = o /\ o \notin promoting /\ versions[d] # 0
      BY <1>d, <1>0, <1>7 DEF TaskOK, Claiming, Pins, Promoting
    <2>2. transition'[d] = NoTask /\ cleanups' = cleanups \cup {o} /\ \A e \in Doc \ {d} : transition'[e] = transition[e]
      BY <1>0, <1>1, <1>7 DEF LocksOK
    <2>3. Works(o, d)
      BY <1>d, <1>0, <1>1, <1>3, <1>4, <2>1, <2>2 DEF Works, SameEntries, tracker
    <2>4. TaskOK(o)'
      <3>1. connections' # o /\ o \notin promoting'
        BY <1>0, <1>1, <1>3, <2>1
      <3>. QED  BY <1>0, <1>4, <3>1 DEF TaskOK, Pins, Owing, Texts, Claiming, Promoting, Sending, Closes
    <2>5. DocOK(d)'
      <3>1. Holders(d)'
        BY <1>1, <1>4, <2>1, <2>2 DEF Holders, tracker
      <3>2. Purged(d)'
        BY <1>0, <1>1, <2>1, <2>2 DEF DocOK, Purged, tracker
      <3>. QED  BY <1>0, <1>1, <3>1, <3>2 DEF DocOK, tracker, Fence
    <2>6. ASSUME Intact' PROVE Ledger(d)'
      <3>1. Ledger(d) /\ wire[d] = Closed
        BY <1>0, <2>1, Pinned, <1>7 DEF IInv, Ledgers, Ledger
      <3>2. d \notin openedOn
        BY <1>0, <2>1 DEF DocOK
      <3>3. UNCHANGED <<tracker, wire, promoting>>
        BY <1>1
      <3>. QED  BY <1>0, <2>1, <2>2, <3>1, <3>2, <3>3 DEF Ledger, tracker
    <2>. QED  BY <1>0, <1>5, <2>3, <2>4, <2>5, <2>6, WorksKeeps
  <1>. QED  BY <1>6, <1>7

-----------------------------------------------------------------------------
(* Passes and closes that wait, look and go on                             *)

LEMMA CloserFacts ==
  ASSUME IInv, NEW c \in Closer
  PROVE  /\ TypeOK /\ TasksOK /\ c \in Task /\ c \notin Opener /\ c # NoTask /\ c # Acquirer /\ TaskOK(c)
         /\ at[c] \in TaskState /\ at[c].doc \in Doc /\ at[c].pc \in CloserPc
         /\ c \notin promoting /\ c \notin cleanups /\ PcOf(c) = CloserPc
         /\ (at[c].pc \in Pins <=> connections = c)
  <1>1. TypeOK /\ c \in Task /\ c \notin Opener /\ c # NoTask /\ c # Acquirer
    BY Kinds DEF IInv, Task
  <1>2. TasksOK /\ TaskOK(c) /\ at[c] \in TaskState /\ at[c].doc \in Doc /\ at[c].pc \in CloserPc
    BY <1>1 DEF IInv, Tasks, TypeOK, TasksOK, TaskState
  <1>3. c \notin promoting /\ c \notin cleanups
    BY <1>1 DEF TypeOK, PoolOK
  <1>. QED  BY <1>1, <1>2, <1>3 DEF PcOf, TaskOK

(* c moves and what it owes it still owes.                                 *)
LEMMA Wanders ==
  ASSUME IInv, NEW c \in Closer, UNCHANGED core, Rests(c), TasksOK', HostOK', fingerprints' \in [Doc -> Text \cup {NoText}],
         UNCHANGED cancelled, lifecycle' = lifecycle, editLock' \in Closer \cup Repair \cup {NoTask},
         faults' \in [drops : 0..MaxDrops, aborts : 0..MaxAborts],
         at[c].pc \notin {"send", "record", "purging"}, at'[c].pc # "purging",
         \A d \in Doc : Owes(c, d) => at'[c].pc \in Owing /\ d \in at'[c].left /\ at'[c].gens[d] = at[c].gens[d],
         \/ connections' = connections
         \/ connections = c /\ connections' = NoTask
         \/ connections = NoTask /\ connections' = c /\ handle.state = "ready",
         TaskOK(c)'
  PROVE  Kept
  <1>0. TypeOK /\ c \in Task /\ c \notin Opener /\ at[c].pc \in CloserPc /\ c \notin promoting /\ c \notin cleanups
    BY CloserFacts
  <1>1. TrackerOK' /\ LocksOK' /\ PoolOK'
    BY <1>0 DEF TypeOK, TrackerOK, LocksOK, PoolOK, core
  <1>2. TypeOK'
    BY <1>1 DEF TypeOK
  <1>3. Quiet({c})
    BY <1>0 DEF Quiet, Rests, CloserPc
  <1>. QED  BY <1>0, <1>2, <1>3, Moves

(* From a place that holds nothing to another.                             *)
LEMMA Steps ==
  ASSUME IInv, NEW c \in Closer, at[c].pc \in Light, NEW pc \in Light \cap CloserPc, at'[c].pc = pc, TasksOK', Rests(c),
         pc \in Texts => at'[c].text \in [Doc -> Text], pc \in {"ending", "ended"} => c \notin Pass,
         UNCHANGED <<handle, tracker, connections, transition, lifecycle, side, purge, wire, faults>>, HostOK',
         editLock' \in Closer \cup Repair \cup {NoTask}
  PROVE  Kept
  <1>0. TypeOK /\ c \in Task /\ c \notin Opener /\ at[c].pc \in CloserPc /\ c \notin promoting /\ c \notin cleanups /\ connections # c
    BY CloserFacts DEF Light, Pins
  <1>1. UNCHANGED core /\ UNCHANGED fingerprints /\ UNCHANGED cancelled
    BY DEF core, tracker, side
  <1>2. TaskOK(c)'
    BY <1>0, <1>1, LightTask DEF core
  <1>3. at[c].pc \notin {"send", "record", "purging"} /\ at'[c].pc # "purging" /\ \A d \in Doc : ~Owes(c, d)
    BY DEF Light, Owes, Owing
  <1>4. fingerprints' \in [Doc -> Text \cup {NoText}] /\ faults' \in [drops : 0..MaxDrops, aborts : 0..MaxAborts]
    BY <1>0, <1>1 DEF TypeOK, TrackerOK, PoolOK
  <1>. QED  BY <1>1, <1>2, <1>3, <1>4, Wanders

LEMMA BeginCloseKeeps ==
  ASSUME IInv, NEW c \in Closer, BeginClose(c)
  PROVE  Kept
  <1>1. TasksOK' /\ Rests(c) /\ at'[c].pc = "ending" /\ HostOK'
    BY CloserFacts, Goes DEF BeginClose, CloserPc, TypeOK, HostOK
  <1>2. c \notin Pass
    BY TasksAssumption DEF BeginClose
  <1>. QED  BY <1>1, <1>2, Steps DEF BeginClose, Light, CloserPc, Texts

LEMMA EndLifetimeKeeps ==
  ASSUME IInv, NEW c \in Closer, EndLifetime(c)
  PROVE  Kept
  <1>1. TasksOK' /\ Rests(c) /\ at'[c].pc = "ended"
    BY CloserFacts, Goes DEF EndLifetime, CloserPc
  <1>2. HostOK'
    <2>1. host' \in HostState
      BY CloserFacts, DocumentsAssumption DEF EndLifetime, TypeOK, HostOK, HostState
    <2>2. latest' \in [Doc -> Text \cup {NoText}] /\ delivered' \in [Doc -> Text \cup {NoText}]
      BY DEF EndLifetime
    <2>. QED  BY <2>1, <2>2 DEF HostOK
  <1>3. editLock' \in Closer \cup Repair \cup {NoTask} /\ UNCHANGED <<connections, transition, lifecycle>>
    BY CloserFacts DEF EndLifetime, locks, TypeOK, LocksOK
  <1>4. c \notin Pass
    BY CloserFacts DEF EndLifetime, TaskOK
  <1>. QED  BY <1>1, <1>2, <1>3, <1>4, Steps DEF EndLifetime, Light, CloserPc, Texts

LEMMA ForwardedType ==
  ASSUME HostOK, NEW d \in Doc, NEW p \in Task, at[p].doc = d, at[p].text \in [Doc -> Text], Forwarded(p)
  PROVE  delivered' \in [Doc -> Text \cup {NoText}]
  BY DEF HostOK, Forwarded

LEMMA RecordLatestKeeps ==
  ASSUME IInv, NEW p \in Closer, RecordLatest(p)
  PROVE  Kept
  <1>0. TypeOK /\ TasksOK /\ p \in Task /\ at[p] \in TaskState /\ at[p].pc = "forward" /\ at[p].text \in [Doc -> Text] /\ PcOf(p) = CloserPc
    BY CloserFacts DEF RecordLatest, TaskOK, Texts
  <1>1. UNCHANGED <<handle, tracker, locks, host, side, purge, wire, faults>>
    BY DEF RecordLatest
  <1>2. editLock' \in Closer \cup Repair \cup {NoTask} /\ UNCHANGED <<connections, transition, lifecycle>>
    BY <1>0, <1>1 DEF locks, TypeOK, LocksOK
  <1>3. CASE at[p].left = {}
    <2>1. Goto(p, "spawning") /\ UNCHANGED <<latest, delivered>>
      BY <1>3 DEF RecordLatest
    <2>2. TasksOK' /\ Rests(p) /\ at'[p].pc = "spawning" /\ at'[p].text = at[p].text
      BY <1>0, <2>1, Goes DEF CloserPc, Carries
    <2>3. HostOK'
      BY <1>0, <1>1, <2>1 DEF TypeOK, HostOK
    <2>. QED  BY <1>0, <1>1, <1>2, <2>2, <2>3, Steps DEF Light, CloserPc
  <1>4. CASE at[p].left # {}
    <2>1. PICK d \in at[p].left : /\ latest' = [latest EXCEPT ![d] = at[p].text[d]]
                                  /\ delivered' = [delivered EXCEPT ![d] = NoText]
                                  /\ at' = [at EXCEPT ![p].pc = "list", ![p].doc = d, ![p].left = @ \ {d}]
      BY <1>4, Zenon DEF RecordLatest
    <2>2. d \in Doc
      BY <1>0 DEF TaskState
    <2>. DEFINE r == [at[p] EXCEPT !.pc = "list", !.doc = d, !.left = at[p].left \ {d}]
    <2>3. r \in TaskState /\ r.pc = "list" /\ r.text = at[p].text
      BY <1>0, <2>2 DEF TaskState, OpenerPc, CloserPc
    <2>4. at' = [at EXCEPT ![p] = r]
      BY <1>0, <2>1 DEF TasksOK
    <2>. HIDE DEF r
    <2>5. TasksOK' /\ Rests(p) /\ at'[p] = r
      BY <1>0, <2>3, <2>4, Becomes DEF CloserPc
    <2>6. HostOK'
      BY <1>0, <1>1, <2>1, <2>2 DEF TypeOK, HostOK
    <2>. QED  BY <1>0, <1>1, <1>2, <2>3, <2>5, <2>6, Steps DEF Light, CloserPc
  <1>. QED  BY <1>3, <1>4

LEMMA ListConnectionsKeeps ==
  ASSUME IInv, NEW p \in Closer, ListConnections(p)
  PROVE  Kept
  <1>d. PICK d \in Doc : d = at[p].doc
    BY CloserFacts
  <1>0. TypeOK /\ TasksOK /\ p \in Task /\ at[p].pc = "list" /\ at[p].text \in [Doc -> Text] /\ PcOf(p) = CloserPc
    BY CloserFacts DEF ListConnections, TaskOK, Texts
  <1>1. UNCHANGED <<handle, tracker, locks, latest, host, side, purge, wire, faults>>
    BY DEF ListConnections
  <1>2. editLock' \in Closer \cup Repair \cup {NoTask} /\ UNCHANGED <<connections, transition, lifecycle>>
    BY <1>0, <1>1 DEF locks, TypeOK, LocksOK
  <1>3. (Goto(p, "acquire") /\ UNCHANGED delivered) \/ (Goto(p, "forward") /\ Forwarded(p))
    BY Zenon DEF ListConnections
  <1>4. delivered' \in [Doc -> Text \cup {NoText}]
    <2>1. CASE UNCHANGED delivered
      BY <1>0, <2>1 DEF TypeOK, HostOK
    <2>2. CASE Forwarded(p)
      BY <1>d, <1>0, <2>2, ForwardedType DEF TypeOK
    <2>. QED  BY <1>3, <2>1, <2>2
  <1>5. HostOK'
    BY <1>0, <1>1, <1>4 DEF TypeOK, HostOK
  <1>6. TasksOK' /\ Rests(p) /\ at'[p].pc \in {"acquire", "forward"} /\ at'[p].text = at[p].text
    <2>1. ASSUME NEW pc \in {"acquire", "forward"}, Goto(p, pc) PROVE TasksOK' /\ Rests(p) /\ at'[p].pc = pc /\ Carries(p)
      BY <1>0, <2>1, Goes DEF CloserPc
    <2>. QED  BY <1>3, <2>1 DEF Carries
  <1>. QED  BY <1>0, <1>1, <1>2, <1>5, <1>6, Steps DEF Light, CloserPc

LEMMA PinHandleKeeps ==
  ASSUME IInv, NEW p \in Closer, PinHandle(p)
  PROVE  Kept
  <1>d. PICK d \in Doc : d = at[p].doc
    BY CloserFacts
  <1>0. TypeOK /\ TasksOK /\ p \in Task /\ p \notin Opener /\ at[p].pc = "acquire" /\ at[p].text \in [Doc -> Text] /\ PcOf(p) = CloserPc
        /\ at[p] \in TaskState /\ connections = NoTask /\ p # NoTask /\ p \notin promoting /\ p \notin cleanups
    BY CloserFacts DEF PinHandle, TaskOK, Texts
  <1>1. UNCHANGED <<handle, tracker, transition, editLock, lifecycle, latest, host, side, purge, wire, faults>>
    BY DEF PinHandle
  <1>2. editLock' \in Closer \cup Repair \cup {NoTask} /\ UNCHANGED core /\ UNCHANGED cancelled
        /\ fingerprints' \in [Doc -> Text \cup {NoText}] /\ faults' \in [drops : 0..MaxDrops, aborts : 0..MaxAborts]
    BY <1>0, <1>1 DEF TypeOK, LocksOK, PoolOK, TrackerOK, core, tracker, side
  <1>3. CASE handle.state = "ready"
    <2>1. connections' = p /\ UNCHANGED delivered
          /\ at' = [at EXCEPT ![p] = [at[p] EXCEPT !.pc = "pinned", !.proc = handle.proc]]
      BY <1>3, Zenon DEF PinHandle
    <2>. DEFINE r == [at[p] EXCEPT !.pc = "pinned", !.proc = handle.proc]
    <2>2. r \in TaskState /\ r.pc = "pinned" /\ r.text = at[p].text /\ r.proc = handle.proc
      <3>1. PICK x \in 0..MaxProcesses : x = handle.proc
        BY <1>0 DEF TypeOK, PoolOK, HandleState
      <3>2. r = [at[p] EXCEPT !.pc = "pinned", !.proc = x]
        BY <3>1
      <3>. HIDE DEF r
      <3>. QED  BY <1>0, <3>1, <3>2 DEF TaskState, OpenerPc, CloserPc
    <2>3. at' = [at EXCEPT ![p] = r]
      BY <2>1
    <2>. HIDE DEF r
    <2>4. TasksOK' /\ Rests(p) /\ at'[p] = r
      BY <1>0, <2>2, <2>3, Becomes DEF CloserPc
    <2>5. HostOK'
      BY <1>0, <1>1, <2>1 DEF TypeOK, HostOK
    <2>6. TaskOK(p)'
      <3>1. at'[p].pc = "pinned" /\ at'[p].text \in [Doc -> Text] /\ at'[p].proc = handle'.proc
            /\ p \notin promoting' /\ p \notin cleanups' /\ connections' = p
        BY <1>0, <1>1, <2>1, <2>2, <2>4 DEF side
      <3>. QED  BY <3>1 DEF TaskOK, Pins, Owing, Claiming, Promoting, Sending, Closes
    <2>7. at[p].pc \notin {"send", "record", "purging"} /\ at'[p].pc # "purging" /\ \A e \in Doc : ~Owes(p, e)
      BY <1>0, <2>2, <2>4 DEF Owes, Owing
    <2>. QED  BY <1>0, <1>1, <1>2, <1>3, <2>1, <2>4, <2>5, <2>6, <2>7, Wanders
  <1>4. CASE handle.state # "ready"
    <2>1. Goto(p, "forward") /\ Forwarded(p) /\ UNCHANGED connections
      BY <1>4 DEF PinHandle
    <2>2. TasksOK' /\ Rests(p) /\ at'[p].pc = "forward" /\ at'[p].text = at[p].text
      BY <1>0, <2>1, Goes DEF CloserPc, Carries
    <2>3. HostOK'
      BY <1>d, <1>0, <1>1, <2>1, ForwardedType DEF TypeOK, HostOK
    <2>. QED  BY <1>0, <1>1, <1>2, <2>1, <2>2, <2>3, Steps DEF Light, CloserPc
  <1>. QED  BY <1>3, <1>4

LEMMA FetchForCloseKeeps ==
  ASSUME IInv, NEW c \in Closer, FetchForClose(c)
  PROVE  Kept
  <1>0. TypeOK /\ TasksOK /\ c \in Task /\ c \notin Opener /\ at[c].pc = "closing" /\ PcOf(c) = CloserPc /\ TaskOK(c)
        /\ at[c] \in TaskState /\ connections = NoTask /\ c # NoTask /\ c \notin promoting /\ c \notin cleanups
    BY CloserFacts DEF FetchForClose
  <1>1. UNCHANGED <<handle, tracker, locks, latest, host, side, purge, wire, delivered, faults>>
    BY DEF FetchForClose
  <1>2. PICK d \in at[c].left :
          at' = [at EXCEPT ![c] = [at[c] EXCEPT !.pc = "close", !.doc = d, !.proc = IF handle.state = "ready" THEN handle.proc ELSE 0]]
    BY Zenon DEF FetchForClose
  <1>3. PICK x \in 0..MaxProcesses : x = (IF handle.state = "ready" THEN handle.proc ELSE 0)
    BY <1>0, DocumentsAssumption DEF TypeOK, PoolOK, HandleState
  <1>. DEFINE r == [at[c] EXCEPT !.pc = "close", !.doc = d, !.proc = x]
  <1>4. d \in Doc
    BY <1>0 DEF TaskState
  <1>5. r \in TaskState /\ r.pc = "close" /\ r.doc = d /\ r.left = at[c].left /\ r.gens = at[c].gens /\ r.text = at[c].text /\ r.proc = x
    BY <1>0, <1>4 DEF TaskState, OpenerPc, CloserPc
  <1>6. at' = [at EXCEPT ![c] = r]
    BY <1>2, <1>3
  <1>. HIDE DEF r
  <1>7. TasksOK' /\ Rests(c) /\ at'[c] = r
    BY <1>0, <1>5, <1>6, Becomes DEF CloserPc
  <1>8. HostOK' /\ UNCHANGED core /\ UNCHANGED <<connections, lifecycle, cancelled>> /\ editLock' \in Closer \cup Repair \cup {NoTask}
        /\ fingerprints' \in [Doc -> Text \cup {NoText}] /\ faults' \in [drops : 0..MaxDrops, aborts : 0..MaxAborts]
    BY <1>0, <1>1 DEF TypeOK, HostOK, LocksOK, PoolOK, TrackerOK, core, tracker, locks, side
  <1>9. TaskOK(c)'
    <2>1. at'[c].pc = "close" /\ at'[c].doc = d /\ at'[c].left = at[c].left /\ at'[c].gens = at[c].gens /\ at'[c].text = at[c].text
          /\ at'[c].proc = x /\ c \notin promoting' /\ c \notin cleanups' /\ connections' = NoTask
          /\ UNCHANGED <<handle, generation, purge>> /\ (c \in Pass => at[c].text \in [Doc -> Text])
      BY <1>0, <1>1, <1>5, <1>7 DEF side, locks, tracker, TaskOK, Owing
    <2>2. (Fence' <=> Fence) /\ (Intact' <=> Intact)
      BY <1>0, <2>1 DEF Fence, Intact
    <2>3. Closes(c)'
      <3>1. \A e \in at[c].left : at[c].gens[e] \in 0..generation /\ (Fence => at[c].gens[e] # generation)
        BY <1>0 DEF TaskOK, Closes, Owing
      <3>2. Intact /\ ~Fence => x = handle.proc
        BY <1>0, <1>3 DEF Intact, Fence
      <3>3. x \in {0, handle.proc}
        BY <1>3
      <3>. QED  BY <1>2, <2>1, <2>2, <3>1, <3>2, <3>3 DEF Closes
    <2>. QED  BY <1>0, <2>1, <2>3 DEF TaskOK, Pins, Owing, Texts, Claiming, Promoting, Sending
  <1>10. \A e \in Doc : Owes(c, e) => at'[c].pc \in Owing /\ e \in at'[c].left /\ at'[c].gens[e] = at[c].gens[e]
    BY <1>5, <1>7 DEF Owes, Owing
  <1>. QED  BY <1>0, <1>5, <1>7, <1>8, <1>9, <1>10, Wanders

(* The document it was at is no longer one it owes.                        *)
LEMMA ClosingEffect ==
  ASSUME TasksOK, NEW c \in Closer, c \in Task, PcOf(c) = CloserPc, Closing(c, "closing"), NEW d \in Doc, d = at[c].doc
  PROVE  /\ TasksOK' /\ Rests(c) /\ at'[c].pc = "closing" /\ at'[c].left = at[c].left \ {d}
         /\ at'[c].gens = at[c].gens /\ at'[c].text = at[c].text
  <1>. DEFINE r == [at[c] EXCEPT !.pc = "closing", !.left = at[c].left \ {d}]
  <1>0. at[c] \in TaskState
    BY DEF TasksOK
  <1>1. r \in TaskState /\ r.pc = "closing" /\ r.left = at[c].left \ {d} /\ r.gens = at[c].gens /\ r.text = at[c].text
    BY <1>0 DEF TaskState, OpenerPc, CloserPc
  <1>2. at' = [at EXCEPT ![c] = r]
    BY DEF Closing, TasksOK
  <1>. HIDE DEF r
  <1>3. TasksOK' /\ Rests(c) /\ at'[c] = r
    BY <1>1, <1>2, Becomes DEF CloserPc
  <1>. QED  BY <1>1, <1>3

LEMMA StillCloses ==
  ASSUME NEW c \in Closer, TaskOK(c), at[c].pc \in Owing, at'[c].pc = "closing", NEW S, S \subseteq at[c].left, at'[c].left = S,
         at'[c].gens = at[c].gens, at'[c].text = at[c].text, UNCHANGED <<generation, handle, purge>>,
         c \notin promoting', c \notin cleanups', connections' # c
  PROVE  TaskOK(c)'
  <1>1. Closes(c)'
    BY DEF TaskOK, Closes, Owing, Fence
  <1>. QED  BY <1>1 DEF TaskOK, Pins, Owing, Texts, Claiming, Promoting, Sending

(* It turns to the next document without having closed this one.           *)
LEMMA GivesUpDocument ==
  ASSUME IInv, NEW c \in Closer, Closing(c, "closing"), at[c].pc \in {"close", "invalidate"}, at[c].gens[at[c].doc] # generation,
         UNCHANGED <<handle, tracker, locks, latest, host, side, purge, wire, delivered, faults>>
  PROVE  Kept
  <1>d. PICK d \in Doc : d = at[c].doc
    BY CloserFacts
  <1>0. TypeOK /\ TasksOK /\ c \in Task /\ PcOf(c) = CloserPc /\ TaskOK(c) /\ c \notin promoting /\ c \notin cleanups /\ connections # c
    BY CloserFacts DEF Pins
  <1>1. /\ TasksOK' /\ Rests(c) /\ at'[c].pc = "closing" /\ at'[c].left = at[c].left \ {d}
        /\ at'[c].gens = at[c].gens /\ at'[c].text = at[c].text
    BY <1>d, <1>0, ClosingEffect
  <1>2. HostOK' /\ UNCHANGED core /\ UNCHANGED <<connections, lifecycle, cancelled>> /\ editLock' \in Closer \cup Repair \cup {NoTask}
        /\ fingerprints' \in [Doc -> Text \cup {NoText}] /\ faults' \in [drops : 0..MaxDrops, aborts : 0..MaxAborts]
    BY <1>0 DEF TypeOK, HostOK, LocksOK, PoolOK, TrackerOK, core, tracker, locks, side
  <1>3. TaskOK(c)'
    BY <1>0, <1>1, <1>2, StillCloses DEF core, Owing
  <1>4. \A e \in Doc : Owes(c, e) => at'[c].pc \in Owing /\ e \in at'[c].left /\ at'[c].gens[e] = at[c].gens[e]
    BY <1>d, <1>1 DEF Owes, Owing
  <1>. QED  BY <1>1, <1>2, <1>3, <1>4, Wanders

LEMMA CloseDocumentKeeps ==
  ASSUME IInv, NEW c \in Closer, CloseDocument(c)
  PROVE  Kept
  <1>d. PICK d \in Doc : d = at[c].doc
    BY CloserFacts
  <1>0. /\ TypeOK /\ TasksOK /\ TrackerOK /\ PoolOK /\ c \in Task /\ c \notin Opener /\ c # NoTask /\ PcOf(c) = CloserPc /\ TaskOK(c)
        /\ c \notin promoting /\ c \notin cleanups /\ connections # c /\ DocOK(d)
        /\ at[c].pc = "close" /\ at[c] \in TaskState /\ transition[d] = NoTask
    BY <1>d, CloserFacts DEF Pins, CloseDocument, IInv, Docs, TypeOK
  <1>1. UNCHANGED <<handle, locks, latest, host, side, purge, delivered>>
    BY DEF CloseDocument
  <1>2. CASE generation # at[c].gens[d]
    <2>1. Closing(c, "closing") /\ UNCHANGED <<tracker, wire, faults>>
      BY <1>d, <1>2 DEF CloseDocument
    <2>. QED  BY <1>d, <1>0, <1>1, <1>2, <2>1, GivesUpDocument
  <1>3. ASSUME generation = at[c].gens[d], at[c].proc \in 1..(MaxProcesses - 1), Dropped, Goto(c, "invalidate"), UNCHANGED tracker
        PROVE  Kept
    <2>1. TasksOK' /\ Rests(c) /\ at'[c].pc = "invalidate" /\ Carries(c)
      BY <1>0, <1>3, Goes DEF CloserPc
    <2>2. faults' \in [drops : 0..MaxDrops, aborts : 0..MaxAborts] /\ wire' = wire
      BY <1>0, <1>3, FaultsType
    <2>3. HostOK' /\ UNCHANGED core /\ UNCHANGED <<connections, lifecycle, cancelled>> /\ editLock' \in Closer \cup Repair \cup {NoTask}
          /\ fingerprints' \in [Doc -> Text \cup {NoText}]
      BY <1>0, <1>1, <1>3, <2>2 DEF TypeOK, HostOK, LocksOK, TrackerOK, core, tracker, locks, side
    <2>4. TaskOK(c)'
      <3>1. Closes(c)'
        <4>1. UNCHANGED <<handle, generation, purge, connections>> /\ (Fence' <=> Fence)
          BY <2>3 DEF core, Fence
        <4>2. at[c].proc = handle.proc
          BY <1>d, <1>0, <1>3 DEF TaskOK, Closes
        <4>3. at'[c].doc = d /\ at'[c].left = at[c].left /\ at'[c].gens = at[c].gens /\ at'[c].proc = at[c].proc
          BY <1>d, <2>1 DEF Carries
        <4>4. d \in at[c].left /\ \A e \in at[c].left : at[c].gens[e] \in 0..generation /\ (Fence => at[c].gens[e] # generation)
          BY <1>d, <1>0 DEF TaskOK, Closes, Owing
        <4>. QED  BY <1>3, <2>1, <4>1, <4>2, <4>3, <4>4 DEF Closes
      <3>2. at'[c].text = at[c].text /\ (c \in Pass => at[c].text \in [Doc -> Text])
        BY <1>0, <2>1 DEF Carries, TaskOK, Owing
      <3>. QED  BY <1>0, <2>1, <2>3, <3>1, <3>2 DEF TaskOK, Pins, Owing, Texts, Claiming, Promoting, Sending, core
    <2>5. \A e \in Doc : Owes(c, e) => at'[c].pc \in Owing /\ e \in at'[c].left /\ at'[c].gens[e] = at[c].gens[e]
      BY <2>1 DEF Owes, Owing, Carries
    <2>. QED  BY <1>0, <2>1, <2>2, <2>3, <2>4, <2>5, Wanders
  <1>4. ASSUME generation = at[c].gens[d], IF at[c].proc = 0 THEN UNCHANGED <<wire, faults>> ELSE Queued(at[c].proc, d, Close),
               Untrack(d), Closing(c, "closing")
        PROVE  Kept
    <2>1. /\ TasksOK' /\ Rests(c) /\ at'[c].pc = "closing" /\ at'[c].left = at[c].left \ {d}
          /\ at'[c].gens = at[c].gens /\ at'[c].text = at[c].text
      BY <1>d, <1>0, <1>4, ClosingEffect
    <2>2. at[c].proc \in {0, handle.proc} /\ (Intact => at[c].proc = handle.proc)
      BY <1>d, <1>0, <1>4 DEF TaskOK, Closes
    <2>3. UNCHANGED faults /\ (wire' = wire \/ wire' = [wire EXCEPT ![d] = Closed])
          /\ (Intact => wire' = [wire EXCEPT ![d] = Closed])
      <3>1. CASE at[c].proc = 0
        <4>1. at[c].proc # handle.proc
          BY <1>0, <3>1 DEF PoolOK, HandleState
        <4>. QED  BY <1>4, <2>2, <3>1, <4>1
      <3>2. CASE at[c].proc # 0
        <4>1. wire' = [wire EXCEPT ![d] = Receive(wire[d], Close)] /\ UNCHANGED faults
          BY <1>4, <2>2, <3>2, Zenon DEF Queued
        <4>2. Receive(wire[d], Close) = Closed
          BY <1>0, ReceiveClose DEF DocOK
        <4>. QED  BY <4>1, <4>2
      <3>. QED  BY <3>1, <3>2
    <2>4. /\ TrackerOK' /\ UNCHANGED <<generation, registered>> /\ versions'[d] = 0 /\ claims'[d] = NoTask /\ d \notin openedOn'
          /\ \A e \in Doc \ {d} : versions'[e] = versions[e] /\ claims'[e] = claims[e] /\ (e \in openedOn' <=> e \in openedOn)
      BY <1>0, <1>4, DocumentsAssumption DEF Untrack, TrackerOK
    <2>5. /\ wire' \in [Doc -> Frames] /\ \A e \in Doc \ {d} : wire'[e] = wire[e]
          /\ wire'[d] \in {wire[d], Closed} /\ (Intact => wire'[d] = Closed)
      BY <1>0, <2>3, Copies DEF PoolOK
    <2>6. TypeOK'
      BY <1>0, <1>1, <2>1, <2>3, <2>4, <2>5 DEF TypeOK, LocksOK, HostOK, PoolOK, locks, side
    <2>7. Works(c, d)
      <3>1. \A e \in Doc \ {d} : Owes(c, e) => Owes(c, e)'
        BY <2>1, <2>4 DEF Owes, Owing
      <3>2. \A e \in Doc \ {d} : SameEntries(e)
        BY <1>1, <2>4, <2>5 DEF SameEntries, locks
      <3>. QED  BY <1>d, <1>0, <1>1, <2>1, <2>4, <3>1, <3>2 DEF Works, locks, side
    <2>8. TaskOK(c)'
      <3>1. UNCHANGED <<generation, handle, purge, connections, promoting, cleanups>>
        BY <1>1, <2>4 DEF locks, side
      <3>. QED  BY <1>0, <2>1, <3>1, StillCloses DEF Owing
    <2>9. DocOK(d)'
      <3>1. UNCHANGED <<handle, purge, registered, generation>> /\ transition'[d] = NoTask
        BY <1>0, <1>1, <2>4 DEF locks
      <3>2. Holders(d)'
        BY <2>4, <3>1 DEF Holders
      <3>3. Purged(d)'
        BY <1>0, <2>4, <2>5, <3>1 DEF DocOK, Purged
      <3>4. wire'[d] # Misordered
        BY <1>0, <2>5, Copies DEF DocOK
      <3>. QED  BY <1>0, <2>4, <3>1, <3>2, <3>3, <3>4 DEF DocOK, Fence
    <2>10. ASSUME Intact' PROVE Ledger(d)'
      <3>1. Intact
        BY <1>1, <2>10 DEF Intact, locks
      <3>2. wire'[d] = Closed /\ registered[d] \in {generation, NoEntry}
        BY <2>5, <3>1 DEF IInv, Ledgers, Ledger
      <3>. QED  BY <2>4, <3>2 DEF Ledger
    <2>. QED  BY <1>0, <2>6, <2>7, <2>8, <2>9, <2>10, WorksKeeps
  <1>. QED  BY <1>d, <1>2, <1>3, <1>4, Zenon DEF CloseDocument

LEMMA InvalidateInVain ==
  ASSUME IInv, NEW c \in Closer, Invalidate(c), ~(handle.proc = at[c].proc /\ handle.state # "none")
  PROVE  Kept
  <1>1. Closing(c, "closing") /\ UNCHANGED <<handle, tracker, connections, purge>>
        /\ UNCHANGED <<transition, editLock, lifecycle, latest, host, side, wire, delivered, faults>> /\ at[c].pc = "invalidate"
    BY DEF Invalidate
  <1>2. at[c].gens[at[c].doc] # generation
    <2>1. ASSUME at[c].gens[at[c].doc] = generation PROVE FALSE
      <3>1. at[c].proc = handle.proc /\ at[c].doc \in at[c].left
        BY <1>1, <2>1, CloserFacts DEF TaskOK, Closes, PoolOK, TypeOK, HandleState
      <3>2. Fence
        BY <3>1 DEF Fence
      <3>. QED  BY <1>1, <2>1, <3>1, <3>2, CloserFacts DEF TaskOK, Closes, Owing
    <2>. QED  BY <2>1
  <1>. QED  BY <1>1, <1>2, GivesUpDocument DEF locks

LEMMA BeginForwardKeeps ==
  ASSUME IInv, NEW p \in Closer, BeginForward(p)
  PROVE  Kept
  <1>0. /\ TypeOK /\ TasksOK /\ p \in Task /\ p \in Pass /\ PcOf(p) = CloserPc /\ TaskOK(p)
        /\ p \notin promoting /\ p \notin cleanups /\ connections # p /\ at[p].pc = "closing" /\ at[p].left = {}
        /\ at[p] \in TaskState /\ at[p].text \in [Doc -> Text]
    BY CloserFacts DEF Pins, BeginForward, TaskOK, Owing
  <1>1. UNCHANGED <<handle, tracker, locks, latest, host, side, purge, wire, delivered, faults>>
    BY DEF BeginForward
  <1>2. TasksOK' /\ Rests(p) /\ at'[p].pc \in {"forward", "spawning"} /\ at'[p].text = at[p].text
    <2>1. CASE Goto(p, "spawning")
      BY <1>0, <2>1, Goes DEF CloserPc, Carries
    <2>2. CASE at' = [at EXCEPT ![p].pc = "forward", ![p].left = at[p].live]
      <3>. DEFINE r == [at[p] EXCEPT !.pc = "forward", !.left = at[p].live]
      <3>1. r \in TaskState /\ r.pc = "forward" /\ r.text = at[p].text
        BY <1>0 DEF TaskState, OpenerPc, CloserPc
      <3>2. at' = [at EXCEPT ![p] = r]
        BY <1>0, <2>2 DEF TasksOK
      <3>. HIDE DEF r
      <3>. QED  BY <1>0, <3>1, <3>2, Becomes DEF CloserPc
    <2>. QED  BY <2>1, <2>2 DEF BeginForward
  <1>3. HostOK' /\ UNCHANGED core /\ UNCHANGED <<connections, lifecycle, cancelled>> /\ editLock' \in Closer \cup Repair \cup {NoTask}
        /\ fingerprints' \in [Doc -> Text \cup {NoText}] /\ faults' \in [drops : 0..MaxDrops, aborts : 0..MaxAborts]
    BY <1>0, <1>1 DEF TypeOK, HostOK, LocksOK, PoolOK, TrackerOK, core, tracker, locks, side
  <1>4. TaskOK(p)'
    BY <1>0, <1>2, <1>3, LightTask DEF core, Light
  <1>5. \A e \in Doc : ~Owes(p, e)
    BY <1>0 DEF Owes
  <1>. QED  BY <1>0, <1>2, <1>3, <1>4, <1>5, Wanders

LEMMA EndCloseKeeps ==
  ASSUME IInv, NEW c \in Closer, EndClose(c)
  PROVE  Kept
  <1>0. /\ TypeOK /\ TasksOK /\ c \in Task /\ PcOf(c) = CloserPc
        /\ c \notin promoting /\ c \notin cleanups /\ connections # c /\ at[c].pc = "closing" /\ at[c].left = {}
    BY CloserFacts DEF Pins, EndClose
  <1>1. UNCHANGED <<handle, tracker, connections, transition, lifecycle, latest, host, side, purge, wire, delivered, faults>>
        /\ editLock' = NoTask /\ at' = [at EXCEPT ![c] = Gone]
    BY DEF EndClose
  <1>2. TasksOK' /\ Rests(c) /\ at'[c].pc = "done"
    BY <1>0, <1>1, Leaves
  <1>3. HostOK' /\ UNCHANGED core /\ UNCHANGED <<connections, lifecycle, cancelled>> /\ editLock' \in Closer \cup Repair \cup {NoTask}
        /\ fingerprints' \in [Doc -> Text \cup {NoText}] /\ faults' \in [drops : 0..MaxDrops, aborts : 0..MaxAborts]
    BY <1>0, <1>1 DEF TypeOK, HostOK, LocksOK, PoolOK, TrackerOK, core, tracker, side
  <1>4. TaskOK(c)'
    BY <1>0, <1>2, <1>3, LightTask DEF core, Light, Texts
  <1>5. \A e \in Doc : ~Owes(c, e)
    BY <1>0 DEF Owes
  <1>. QED  BY <1>0, <1>2, <1>3, <1>4, <1>5, Wanders

LEMMA EndPassKeeps ==
  ASSUME IInv, NEW p \in Closer, NEW e \in Eager, EndPass(p, e)
  PROVE  Kept
  <1>0. /\ TypeOK /\ TasksOK /\ p \in Task /\ PcOf(p) = CloserPc /\ p \notin Opener
        /\ p \notin promoting /\ p \notin cleanups /\ connections # p /\ at[p].pc = "spawning"
        /\ at[p] \in TaskState /\ at[p].text \in [Doc -> Text] /\ p # NoTask /\ p \notin Repair
    BY CloserFacts DEF Pins, EndPass, TaskOK, Texts, Opener
  <1>1. /\ e \in Task /\ e \in Opener /\ e \notin Closer /\ e # p /\ at[e] \in TaskState /\ at[e].pc = "idle" /\ PcOf(e) = OpenerPc
        /\ e \notin promoting /\ e \notin cleanups /\ connections # e
    <2>1. e \in Task /\ e \in Opener /\ e \notin Closer /\ e # p /\ at[e] \in TaskState /\ at[e].pc = "idle" /\ PcOf(e) = OpenerPc
      BY <1>0, Kinds DEF EndPass, Task, Opener, TasksOK, PcOf
    <2>. QED  BY <1>0, <2>1, Free DEF IInv, Light
  <1>2. UNCHANGED <<handle, tracker, connections, transition, lifecycle, latest, host, side, purge, wire, delivered, faults>>
        /\ editLock' = NoTask
    BY DEF EndPass
  <1>. DEFINE r == IF at[p].live = {} THEN Gone
                   ELSE [at[e] EXCEPT !.pc = "spawned", !.left = at[p].live, !.text = at[p].text, !.inc = at[p].inc]
  <1>3. r \in TaskState /\ r.pc \in {"spawned", "done"} /\ (r.pc = "spawned" => r.text = at[p].text)
    <2>1. CASE at[p].live = {}
      BY <2>1, GoneType
    <2>2. CASE at[p].live # {}
      <3>1. PICK S \in SUBSET Doc, x \in [Doc -> Text], i \in 0..MaxLifetimes : S = at[p].live /\ x = at[p].text /\ i = at[p].inc
        BY <1>0 DEF TaskState
      <3>2. r = [at[e] EXCEPT !.pc = "spawned", !.left = S, !.text = x, !.inc = i]
        BY <2>2, <3>1
      <3>. HIDE DEF r
      <3>. QED  BY <1>1, <3>1, <3>2 DEF TaskState, OpenerPc, CloserPc
    <2>. QED  BY <2>1, <2>2
  <1>4. at' = [at EXCEPT ![p] = Gone, ![e] = r]
    BY <1>0, <1>1 DEF EndPass, TasksOK
  <1>. HIDE DEF r
  <1>5. at' \in [Task -> TaskState] /\ at'[p].pc = "done" /\ at'[e] = r /\ \A u \in Task \ {p, e} : at'[u] = at[u]
    BY <1>0, <1>1, <1>3, <1>4, GoneType DEF TasksOK
  <1>6. TasksOK'
    <2>1. \A u \in Task : at'[u].pc \in PcOf(u)
      BY <1>0, <1>1, <1>3, <1>5 DEF TasksOK, PcOf, OpenerPc, CloserPc
    <2>. QED  BY <1>5, <2>1, Zenon DEF TasksOK, PcOf
  <1>7. TypeOK' /\ UNCHANGED core
    BY <1>0, <1>2, <1>6 DEF TypeOK, TrackerOK, LocksOK, HostOK, PoolOK, tracker, side, core
  <1>8. TaskOK(p)' /\ TaskOK(e)'
    BY <1>0, <1>1, <1>2, <1>3, <1>5, LightTask DEF Light, Texts, side
  <1>9. Quiet({p, e})
    BY <1>0, <1>1, <1>2, <1>3, <1>5, <1>7 DEF Quiet, Owes, Owing
  <1>. QED  BY <1>0, <1>1, <1>7, <1>8, <1>9, Moves

-----------------------------------------------------------------------------
(* A closer takes documents                                                *)

LEMMA Takes ==
  ASSUME IInv, TypeOK', NEW c \in Closer, NEW T \in SUBSET Registered, Take(T), Rests(c),
         at[c].pc \in Light, at'[c].pc = "closing", at'[c].left = T, at'[c].gens = registered,
         c \in Pass => at'[c].text \in [Doc -> Text],
         UNCHANGED <<handle, transition, connections, promoting, cleanups, purge, wire>>
  PROVE  Kept
  <1>0. /\ TypeOK /\ TrackerOK /\ Global /\ c \in Task /\ c # NoTask /\ c # Acquirer /\ TaskOK(c) /\ at[c].pc \in CloserPc
        /\ c \notin promoting /\ c \notin cleanups /\ connections # c /\ c \notin Opener /\ T \subseteq Doc
    BY CloserFacts DEF IInv, Light, Pins, Registered, TypeOK
  <1>1. /\ UNCHANGED <<generation, versions, claims>> /\ openedOn' = openedOn \ T
        /\ \A d \in Doc : registered'[d] = IF d \in T THEN NoEntry ELSE registered[d]
    BY <1>0 DEF Take
  <1>2. (Fence' <=> Fence) /\ (Intact' <=> Intact)
    BY DEF Fence, Intact
  <1>3. \A d \in T : registered[d] \in 0..generation /\ (Fence => registered[d] # generation)
    BY <1>0 DEF Registered, IInv, Docs, DocOK
  <1>4. Global'
    BY <1>0, Kinds DEF Global, Rests, TypeOK, LocksOK, Light, Task
  <1>5. ASSUME NEW u \in Task PROVE TaskOK(u)'
    <2>1. CASE u = c
      <3>1. Closes(c)'
        BY <1>1, <1>2, <1>3 DEF Closes
      <3>. QED  BY <1>0, <2>1, <3>1 DEF TaskOK, Pins, Owing, Texts, Claiming, Promoting, Sending
    <2>2. CASE u # c
      <3>1. TaskOK(u) /\ at'[u] = at[u]
        BY <2>2 DEF IInv, Tasks, Rests
      <3>. QED  BY <1>1, <1>2, <3>1 DEF TaskOK, Claiming, Promoting, Sending, Closes
    <2>. QED  BY <2>1, <2>2
  <1>6. ASSUME NEW d \in Doc PROVE DocOK(d)'
    <2>1. DocOK(d) /\ transition[d] \in Task \cup {NoTask} /\ claims[d] \in Task \cup {NoTask}
      BY <1>0 DEF IInv, Docs, TypeOK, LocksOK, TrackerOK, Task
    <2>2. Holders(d)'
      <3>1. ASSUME NEW u \in Task, transition[d] = u
            PROVE  at'[u].doc = d /\ (at'[u].pc \in {"claimed", "send", "record"} \/ u \in promoting')
        BY <1>0, <2>1, <3>1, Kinds DEF DocOK, Holders, Rests, Light
      <3>2. ASSUME NEW u \in Task, claims[d] = u
            PROVE  at'[u].doc = d /\ (at'[u].pc = "claimed" \/ u \in promoting' \cup cleanups')
        BY <1>0, <2>1, <3>2, Kinds DEF DocOK, Holders, Rests, Light
      <3>. QED  BY <1>1, <2>1, <3>1, <3>2 DEF Holders
    <2>3. Purged(d)'
      BY <1>1, <2>1 DEF DocOK, Purged
    <2>. QED  BY <1>1, <1>2, <2>1, <2>2, <2>3 DEF DocOK
  <1>7. ASSUME Intact', NEW d \in Doc PROVE Ledger(d)'
    <2>1. Ledger(d)
      BY <1>2, <1>7 DEF IInv, Ledgers
    <2>2. OwedNow(d) => OwedNow(d)'
      <3>1. \A k \in Closer : Owes(k, d) => Owes(k, d)'
        BY <1>0, <1>1 DEF Rests, Owes, Task, Owing, Light
      <3>. QED  BY <3>1, Zenon DEF OwedNow
    <2>3. CASE d \in T
      <3>1. registered[d] = generation
        BY <2>1, <2>3 DEF Ledger, Registered
      <3>2. Owes(c, d)'
        BY <1>1, <2>3, <3>1 DEF Owes, Owing
      <3>3. OwedNow(d)'
        BY <3>2, Zenon DEF OwedNow
      <3>. QED  BY <1>1, <2>1, <2>3, <3>3 DEF Ledger
    <2>4. CASE d \notin T
      BY <1>1, <2>1, <2>2, <2>4 DEF Ledger
    <2>. QED  BY <2>3, <2>4
  <1>. QED  BY <1>4, <1>5, <1>6, <1>7 DEF Kept, IInv, Tasks, Docs, Ledgers

LEMMA TakeType ==
  ASSUME TrackerOK, NEW T, Take(T)
  PROVE  TrackerOK'
  BY DEF TrackerOK, Take

LEMMA BeginPassKeeps ==
  ASSUME IInv, NEW p \in Closer, NEW S \in SUBSET Doc, NEW why \in {"deselected", "replaced", "invalidated"}, BeginPass(p, S, why)
  PROVE  Kept
  <1>. DEFINE taken == S \cap Registered
  <1>0. /\ TypeOK /\ TasksOK /\ p \in Task /\ PcOf(p) = CloserPc /\ at[p].pc = "idle" /\ at[p] \in TaskState
        /\ registered \in [Doc -> Nat \cup {NoEntry}] /\ taken \subseteq Doc
    BY CloserFacts DEF BeginPass, TypeOK, TrackerOK, Registered
  <1>1. /\ editLock' = p /\ cancelled' = cancelled \cup Alive(Eager) /\ Take(taken)
        /\ UNCHANGED <<handle, connections, transition, lifecycle, host, promoting, cleanups, purge, wire, faults>>
    BY DEF BeginPass
  <1>2. latest' \in [Doc -> Text \cup {NoText}] /\ delivered' \in [Doc -> Text \cup {NoText}]
    <2>1. PICK gone : /\ latest' = [d \in Doc |-> IF d \in gone THEN NoText ELSE latest[d]]
                      /\ delivered' = [d \in Doc |-> IF d \in gone THEN NoText ELSE delivered[d]]
      BY Zenon DEF BeginPass
    <2>. QED  BY <1>0, <2>1 DEF TypeOK, HostOK
  <1>3. PICK L \in SUBSET Doc, x \in [Doc -> Text], i \in 0..MaxLifetimes, T \in SUBSET Registered :
             /\ L = (IF why = "deselected" THEN Doc ELSE Doc \ S) /\ x = host.text /\ i = host.incarnation /\ T = taken
    BY <1>0 DEF TypeOK, HostOK, HostState
  <1>. DEFINE r == [at[p] EXCEPT !.pc = "closing", !.left = T, !.gens = registered, !.text = x, !.inc = i, !.live = L]
  <1>4. at' = [at EXCEPT ![p] = r]
    BY <1>0, <1>3 DEF BeginPass, TasksOK
  <1>5. r \in TaskState /\ r.pc = "closing" /\ r.left = T /\ r.gens = registered /\ r.text = x
    BY <1>0, <1>3 DEF TaskState, OpenerPc, CloserPc
  <1>. HIDE DEF r
  <1>6. TasksOK' /\ Rests(p) /\ at'[p] = r
    BY <1>0, <1>4, <1>5, Becomes DEF CloserPc
  <1>7. TypeOK'
    <2>1. TrackerOK'
      BY <1>0, <1>1, TakeType DEF TypeOK
    <2>2. LocksOK' /\ HostOK' /\ PoolOK'
      BY <1>0, <1>1, <1>2 DEF TypeOK, LocksOK, HostOK, PoolOK, Alive
    <2>. QED  BY <1>6, <2>1, <2>2 DEF TypeOK
  <1>8. Take(T)
    BY <1>1, <1>3
  <1>. QED  BY <1>0, <1>1, <1>3, <1>5, <1>6, <1>7, <1>8, Takes DEF Light

LEMMA TakeAllKeeps ==
  ASSUME IInv, NEW c \in Closer, TakeAll(c)
  PROVE  Kept
  <1>0. /\ TypeOK /\ TasksOK /\ c \in Task /\ PcOf(c) = CloserPc /\ at[c].pc = "ended" /\ at[c] \in TaskState
        /\ registered \in [Doc -> Nat \cup {NoEntry}] /\ Registered \subseteq Doc
    BY CloserFacts DEF TakeAll, TypeOK, TrackerOK, Registered
  <1>1. /\ cancelled' = cancelled \cup Alive(Eager) /\ Take(Registered)
        /\ UNCHANGED <<handle, locks, latest, host, promoting, cleanups, purge, wire, delivered, faults>>
    BY DEF TakeAll
  <1>2. c \notin Pass
    BY <1>0, CloserFacts DEF TaskOK
  <1>3. PICK T \in SUBSET Registered : T = Registered
    OBVIOUS
  <1>. DEFINE r == [at[c] EXCEPT !.pc = "closing", !.left = T, !.gens = registered]
  <1>4. at' = [at EXCEPT ![c] = r]
    BY <1>0, <1>3 DEF TakeAll, TasksOK
  <1>5. r \in TaskState /\ r.pc = "closing" /\ r.left = T /\ r.gens = registered
    BY <1>0, <1>3 DEF TaskState, OpenerPc, CloserPc
  <1>. HIDE DEF r
  <1>6. TasksOK' /\ Rests(c) /\ at'[c] = r
    BY <1>0, <1>4, <1>5, Becomes DEF CloserPc
  <1>7. TypeOK'
    <2>1. TrackerOK'
      BY <1>0, <1>1, TakeType DEF TypeOK
    <2>2. LocksOK' /\ HostOK' /\ PoolOK'
      BY <1>0, <1>1 DEF TypeOK, LocksOK, HostOK, PoolOK, Alive, locks
    <2>. QED  BY <1>6, <2>1, <2>2 DEF TypeOK
  <1>8. Take(T)
    BY <1>1, <1>3
  <1>. QED  BY <1>0, <1>1, <1>2, <1>3, <1>5, <1>6, <1>7, <1>8, Takes DEF Light, locks

-----------------------------------------------------------------------------
(* A pass sends a change                                                   *)

LEMMA PrepareChangeKeeps ==
  ASSUME IInv, NEW p \in Closer, PrepareChange(p)
  PROVE  Kept
  <1>d. PICK d \in Doc : d = at[p].doc
    BY CloserFacts
  <1>0. /\ TypeOK /\ TasksOK /\ TrackerOK /\ LocksOK /\ p \in Task /\ p \notin Opener /\ p # NoTask /\ PcOf(p) = CloserPc
        /\ TaskOK(p) /\ DocOK(d) /\ p \notin promoting /\ p \notin cleanups /\ connections = p
        /\ at[p].pc = "pinned" /\ at[p] \in TaskState /\ at[p].text \in [Doc -> Text] /\ transition[d] = NoTask
        /\ at[p].proc = handle.proc
    BY <1>d, CloserFacts DEF Pins, PrepareChange, TaskOK, Texts, Claiming, IInv, Docs, TypeOK
  <1>p. PICK v \in Nat : v = NextVersion(d, at[p].text[d]) /\ (v = 0 \/ v = versions[d] + 1)
    BY <1>0 DEF NextVersion, TrackerOK
  <1>1. Intact /\ ~Fence /\ purge.step = "none" /\ handle.state \in {"ready", "failed"}
    BY <1>0, Pinned
  <1>2. Ledger(d)
    BY <1>1 DEF IInv, Ledgers
  <1>3. /\ v <= MaxVersion /\ connections' = NoTask
        /\ UNCHANGED <<handle, generation, fingerprints, claims, openedOn, registered, editLock, lifecycle, latest, host,
                       side, purge, wire, faults>>
    BY <1>d, <1>p DEF PrepareChange
  <1>4. CASE d \in openedOn /\ v # 0
    <2>1. /\ transition' = [transition EXCEPT ![d] = p]
          /\ versions' = [versions EXCEPT ![d] = v]
          /\ at' = [at EXCEPT ![p].pc = "send", ![p].ver = v]
          /\ UNCHANGED delivered
      <3>1. d \in openedOn /\ NextVersion(d, at[p].text[d]) # 0
        BY <1>p, <1>4
      <3>. QED  BY <1>d, <1>p, <3>1, Zenon DEF PrepareChange
    <2>2. v = versions[d] + 1 /\ v \in 1..MaxVersion
      BY <1>0, <1>3, <1>4, <1>p DEF TrackerOK
    <2>. DEFINE r == [at[p] EXCEPT !.pc = "send", !.ver = v]
    <2>3. r \in TaskState /\ r.pc = "send" /\ r.ver = v /\ r.doc = d /\ r.text = at[p].text /\ r.proc = at[p].proc
      BY <1>d, <1>0 DEF TaskState, OpenerPc, CloserPc
    <2>4. at' = [at EXCEPT ![p] = r]
      BY <1>0, <2>1 DEF TasksOK
    <2>. HIDE DEF r
    <2>5. TasksOK' /\ Rests(p) /\ at'[p] = r
      BY <1>0, <2>3, <2>4, Becomes DEF CloserPc
    <2>6. transition'[d] = p /\ versions'[d] = v /\ \A e \in Doc \ {d} : SameEntries(e)
      BY <1>0, <1>3, <2>1 DEF TrackerOK, LocksOK, SameEntries
    <2>7. TypeOK'
      <3>1. TrackerOK'
        BY <1>0, <1>3, <2>1, <2>2 DEF TrackerOK
      <3>2. LocksOK'
        BY <1>0, <1>3, <2>1 DEF LocksOK
      <3>3. HostOK' /\ PoolOK'
        BY <1>0, <1>3, <2>1 DEF TypeOK, HostOK, PoolOK, side
      <3>. QED  BY <2>5, <3>1, <3>2, <3>3 DEF TypeOK
    <2>8. Works(p, d)
      <3>1. \A e \in Doc : ~Owes(p, e)
        BY <1>0 DEF Owes, Owing
      <3>. QED  BY <1>d, <1>0, <1>3, <2>3, <2>5, <2>6, <3>1 DEF Works, side
    <2>9. claims[d] = NoTask /\ wire[d] \notin {Closed, Misordered} /\ wire[d].version < v
      <3>1. claims[d] = NoTask /\ wire[d] \notin {Closed, Misordered} /\ wire[d].version <= versions[d] /\ wire[d] \in Frames
        BY <1>0, <1>2, <1>4 DEF DocOK, Ledger, TypeOK, PoolOK
      <3>2. wire[d].version \in Nat
        BY <3>1 DEF Frames
      <3>. QED  BY <1>0, <2>2, <3>1, <3>2 DEF TrackerOK
    <2>10. TaskOK(p)'
      <3>1. /\ at'[p].pc = "send" /\ at'[p].doc = d /\ at'[p].ver = v /\ at'[p].text \in [Doc -> Text] /\ p \notin promoting' /\ p \notin cleanups'
            /\ connections' # p /\ v <= versions'[d] /\ wire'[d] # Closed /\ wire'[d].version < v
        BY <1>0, <1>3, <2>3, <2>5, <2>6, <2>9 DEF side
      <3>. QED  BY <2>2, <2>6, <3>1 DEF TaskOK, Pins, Owing, Texts, Claiming, Promoting, Sending, Closes
    <2>11. DocOK(d)'
      <3>1. Holders(d)'
        BY <1>3, <2>3, <2>5, <2>6, <2>9 DEF Holders
      <3>2. Purged(d)'
        BY <1>1, <1>3 DEF Purged
      <3>3. ~Fence'
        BY <1>1, <1>3 DEF Fence
      <3>. QED  BY <1>0, <1>3, <1>4, <2>6, <2>9, <3>1, <3>2, <3>3 DEF DocOK
    <2>12. Ledger(d)'
      <3>1. OwedNow(d) => OwedNow(d)'
        <4>1. \A c \in Closer : Owes(c, d) => Owes(c, d)'
          BY <1>0, <1>3, <2>5 DEF Rests, Owes, Owing, Task
        <4>. QED  BY <4>1, Zenon DEF OwedNow
      <3>2. wire[d].version <= v
        BY <1>0, <1>2, <2>2, <2>9 DEF Ledger, TrackerOK, TypeOK, PoolOK, Frames
      <3>. QED  BY <1>2, <1>3, <1>4, <2>6, <2>9, <3>1, <3>2 DEF Ledger, side
    <2>. QED  BY <1>0, <2>7, <2>8, <2>10, <2>11, <2>12, WorksKeeps
  <1>5. CASE ~(d \in openedOn /\ v # 0)
    <2>1. Goto(p, "forward") /\ Forwarded(p) /\ UNCHANGED <<transition, versions>>
      <3>1. ~(d \in openedOn /\ NextVersion(d, at[p].text[d]) # 0)
        BY <1>p, <1>5
      <3>. QED  BY <1>d, <1>p, <3>1, Zenon DEF PrepareChange
    <2>2. TasksOK' /\ Rests(p) /\ at'[p].pc = "forward" /\ at'[p].text = at[p].text
      BY <1>0, <2>1, Goes DEF CloserPc, Carries
    <2>3. HostOK'
      BY <1>d, <1>0, <1>3, <2>1, ForwardedType DEF TypeOK, HostOK
    <2>4. UNCHANGED core /\ UNCHANGED <<lifecycle, cancelled>> /\ editLock' \in Closer \cup Repair \cup {NoTask}
          /\ fingerprints' \in [Doc -> Text \cup {NoText}] /\ faults' \in [drops : 0..MaxDrops, aborts : 0..MaxAborts]
      BY <1>0, <1>3, <2>1 DEF TypeOK, LocksOK, PoolOK, TrackerOK, core, side
    <2>5. TaskOK(p)'
      BY <1>0, <1>3, <2>2, <2>4, LightTask DEF core, Light
    <2>6. \A e \in Doc : ~Owes(p, e)
      BY <1>0 DEF Owes, Owing
    <2>. QED  BY <1>0, <1>3, <2>2, <2>3, <2>4, <2>5, <2>6, Wanders
  <1>. QED  BY <1>4, <1>5

(* The pass has the lock; it keeps it or gives it back.                    *)
LEMMA ChangeKeeps ==
  ASSUME IInv, NEW p \in Closer, NEW d \in Doc, d = at[p].doc, TypeOK', Rests(p),
         at[p].pc \in {"send", "record"}, at'[p].doc = d, at'[p].text = at[p].text,
         \/ at'[p].pc = "record" /\ transition' = transition
         \/ at'[p].pc = "forward" /\ transition' = [transition EXCEPT ![d] = NoTask],
         UNCHANGED <<handle, generation, versions, claims, openedOn, registered, connections, side, purge>>,
         wire'[d] # Misordered, wire'[d] # Closed <=> wire[d] # Closed,
         Intact /\ wire'[d] # Closed => wire'[d].version <= versions[d],
         \A e \in Doc \ {d} : wire'[e] = wire[e]
  PROVE  Kept
  <1>0. /\ TypeOK /\ TrackerOK /\ LocksOK /\ p \in Task /\ p \notin Opener /\ p # NoTask
        /\ TaskOK(p) /\ DocOK(d) /\ p \notin promoting /\ p \notin cleanups /\ connections # p
        /\ at[p].text \in [Doc -> Text] /\ transition[d] = p
    BY CloserFacts DEF Pins, TaskOK, Texts, Sending, IInv, Docs, TypeOK
  <1>1. transition'[d] \in {p, NoTask} /\ (transition'[d] = p => at'[p].pc = "record") /\ \A e \in Doc \ {d} : transition'[e] = transition[e]
        /\ (at'[p].pc = "record" => transition'[d] = p) /\ at'[p].pc \in {"record", "forward"}
    BY <1>0 DEF LocksOK
  <1>2. Works(p, d)
    <2>1. \A e \in Doc : ~Owes(p, e)
      BY DEF Owes, Owing
    <2>. QED  BY <1>0, <1>1, <2>1 DEF Works, SameEntries, side
  <1>3. TaskOK(p)'
    <2>1. p \notin promoting' /\ p \notin cleanups' /\ connections' # p
      BY <1>0 DEF side
    <2>. QED  BY <1>0, <1>1, <2>1 DEF TaskOK, Pins, Owing, Texts, Claiming, Promoting, Sending, Closes
  <1>4. DocOK(d)'
    <2>1. Holders(d)'
      <3>1. claims[d] # NoTask => claims[d] \in Task /\ claims[d] # p
        BY <1>0 DEF TrackerOK, Task
      <3>. QED  BY <1>0, <1>1, <3>1 DEF DocOK, Holders, Rests, side
    <2>2. Purged(d)'
      BY <1>0 DEF DocOK, Purged
    <2>. QED  BY <1>0, <2>1, <2>2 DEF DocOK, Fence
  <1>5. ASSUME Intact' PROVE Ledger(d)'
    <2>1. Intact
      BY <1>5 DEF Intact
    <2>2. Ledger(d)
      BY <2>1 DEF IInv, Ledgers
    <2>3. OwedNow(d) => OwedNow(d)'
      <3>1. \A c \in Closer : Owes(c, d) => Owes(c, d)'
        BY <1>0 DEF Rests, Owes, Owing, Task
      <3>. QED  BY <3>1, Zenon DEF OwedNow
    <2>. QED  BY <2>1, <2>2, <2>3 DEF Ledger, side
  <1>. QED  BY <1>0, <1>2, <1>3, <1>4, <1>5, WorksKeeps

LEMMA SendChangeKeeps ==
  ASSUME IInv, NEW p \in Closer, SendChange(p)
  PROVE  Kept
  <1>d. PICK d \in Doc : d = at[p].doc
    BY CloserFacts
  <1>0. /\ TypeOK /\ TasksOK /\ TrackerOK /\ LocksOK /\ PoolOK /\ p \in Task /\ PcOf(p) = CloserPc
        /\ TaskOK(p) /\ DocOK(d) /\ at[p].pc = "send" /\ at[p].text \in [Doc -> Text] /\ transition[d] = p
        /\ at[p].ver \in 1..MaxVersion /\ wire[d] \in Frames
        /\ (at[p].proc = handle.proc => wire[d] # Closed /\ wire[d].version < at[p].ver)
        /\ (Intact => at[p].ver <= versions[d])
    BY <1>d, CloserFacts DEF SendChange, TaskOK, Texts, Sending, IInv, Docs, TypeOK, PoolOK
  <1>1. UNCHANGED <<handle, tracker, connections, editLock, lifecycle, latest, host, side, purge, delivered>>
    BY DEF SendChange
  <1>p. PICK v \in 1..MaxVersion, t \in Text : v = at[p].ver /\ t = at[p].text[d]
    BY <1>0
  <1>2. ASSUME Dropped, Goto(p, "forward"), transition' = [transition EXCEPT ![d] = NoTask]
        PROVE  Kept
    <2>1. TasksOK' /\ Rests(p) /\ at'[p].pc = "forward" /\ at'[p].text = at[p].text /\ at'[p].doc = d
      BY <1>d, <1>0, <1>2, Goes DEF CloserPc, Carries
    <2>2. faults' \in [drops : 0..MaxDrops, aborts : 0..MaxAborts] /\ wire' = wire
      BY <1>0, <1>2, FaultsType
    <2>3. TypeOK'
      BY <1>0, <1>1, <1>2, <2>1, <2>2 DEF TypeOK, TrackerOK, LocksOK, HostOK, PoolOK, tracker, side
    <2>4. Intact /\ wire[d] # Closed => wire[d].version <= versions[d]
      BY DEF IInv, Ledgers, Ledger
    <2>. QED  BY <1>d, <1>0, <1>1, <1>2, <2>1, <2>2, <2>3, <2>4, ChangeKeeps DEF tracker, DocOK
  <1>3. ASSUME Queued(at[p].proc, d, Change(v, t)), Goto(p, "record"), UNCHANGED transition
        PROVE  Kept
    <2>1. TasksOK' /\ Rests(p) /\ at'[p].pc = "record" /\ at'[p].text = at[p].text /\ at'[p].doc = d
      BY <1>d, <1>0, <1>3, Goes DEF CloserPc, Carries
    <2>2. UNCHANGED faults /\ (wire' = wire \/ (wire[d] # Closed /\ wire' = [wire EXCEPT ![d] = [version |-> v, text |-> t]]))
      <3>1. CASE at[p].proc = handle.proc
        <4>1. wire' = [wire EXCEPT ![d] = Receive(wire[d], Change(v, t))] /\ UNCHANGED faults
          BY <1>3, <3>1, Zenon DEF Queued
        <4>2. Receive(wire[d], Change(v, t)) = [version |-> v, text |-> t]
          BY <1>0, <1>p, <3>1, ReceiveChange DEF DocOK
        <4>. QED  BY <1>0, <3>1, <4>1, <4>2
      <3>2. CASE at[p].proc # handle.proc
        BY <1>3, <3>2 DEF Queued
      <3>. QED  BY <3>1, <3>2
    <2>3. /\ wire' \in [Doc -> Frames] /\ wire'[d] # Misordered /\ (wire'[d] # Closed <=> wire[d] # Closed)
          /\ \A e \in Doc \ {d} : wire'[e] = wire[e]
          /\ wire'[d] = wire[d] \/ wire'[d].version = v
      BY <1>0, <2>2, Copies DEF PoolOK, DocOK
    <2>4. TypeOK'
      BY <1>0, <1>1, <1>3, <2>1, <2>2, <2>3 DEF TypeOK, TrackerOK, LocksOK, HostOK, PoolOK, tracker, side
    <2>5. Intact /\ wire'[d] # Closed => wire'[d].version <= versions[d]
      BY <1>0, <1>p, <2>3 DEF IInv, Ledgers, Ledger
    <2>. QED  BY <1>d, <1>0, <1>1, <1>3, <2>1, <2>3, <2>4, <2>5, ChangeKeeps DEF tracker
  <1>. QED  BY <1>d, <1>p, <1>2, <1>3, Zenon DEF SendChange

LEMMA RecordChangeKeeps ==
  ASSUME IInv, NEW p \in Closer, RecordChange(p)
  PROVE  Kept
  <1>d. PICK d \in Doc : d = at[p].doc
    BY CloserFacts
  <1>0. /\ TypeOK /\ TasksOK /\ TrackerOK /\ LocksOK /\ p \in Task /\ PcOf(p) = CloserPc
        /\ DocOK(d) /\ at[p].pc = "record" /\ at[p].text \in [Doc -> Text]
    BY <1>d, CloserFacts DEF RecordChange, TaskOK, Texts, IInv, Docs, TypeOK
  <1>1. /\ fingerprints' = [fingerprints EXCEPT ![d] = at[p].text[d]]
        /\ transition' = [transition EXCEPT ![d] = NoTask]
        /\ Goto(p, "forward") /\ Forwarded(p)
        /\ UNCHANGED <<handle, generation, versions, claims, openedOn, registered, connections,
                       editLock, lifecycle, latest, host, side, purge, wire, faults>>
    BY <1>d, Zenon DEF RecordChange
  <1>2. TasksOK' /\ Rests(p) /\ at'[p].pc = "forward" /\ at'[p].text = at[p].text /\ at'[p].doc = d
    BY <1>d, <1>0, <1>1, Goes DEF CloserPc, Carries
  <1>3. TypeOK'
    <2>1. TrackerOK'
      BY <1>0, <1>1 DEF TrackerOK
    <2>2. LocksOK'
      BY <1>0, <1>1 DEF LocksOK
    <2>3. HostOK' /\ PoolOK'
      BY <1>d, <1>0, <1>1, ForwardedType DEF TypeOK, HostOK, PoolOK, side
    <2>. QED  BY <1>2, <2>1, <2>2, <2>3 DEF TypeOK
  <1>4. Intact /\ wire[d] # Closed => wire[d].version <= versions[d]
    BY DEF IInv, Ledgers, Ledger
  <1>. QED  BY <1>d, <1>0, <1>1, <1>2, <1>3, <1>4, ChangeKeeps DEF DocOK

-----------------------------------------------------------------------------
(* The process and its purge                                               *)

(* A step of the pool that begins nothing and clears nothing.              *)
LEMMA Relaxes ==
  ASSUME IInv, TypeOK', Global', UNCHANGED <<at, generation, versions, claims, openedOn, registered, transition, promoting, cleanups, wire>>,
         handle'.proc = handle.proc, Fence' => Fence, Intact' => Intact,
         \A u \in Task : connections' = u <=> connections = u,
         \A d \in Doc : Purged(d)', purge.step = "index" => purge' = purge
  PROVE  Kept
  <1>1. ASSUME NEW u \in Task PROVE TaskOK(u)'
    <2>1. TaskOK(u) /\ (connections' = u <=> connections = u)
      BY DEF IInv, Tasks
    <2>. QED  BY <2>1 DEF TaskOK, Claiming, Promoting, Sending, Closes
  <1>2. ASSUME NEW d \in Doc PROVE DocOK(d)'
    <2>1. DocOK(d) /\ Purged(d)'
      BY DEF IInv, Docs
    <2>. QED  BY <2>1 DEF DocOK, Holders
  <1>3. ASSUME Intact', NEW d \in Doc PROVE Ledger(d)'
    <2>1. Ledger(d)
      BY <1>3 DEF IInv, Ledgers
    <2>2. OwedNow(d) => OwedNow(d)'
      <3>1. \A k \in Closer : Owes(k, d) => Owes(k, d)'
        BY DEF Owes
      <3>. QED  BY <3>1, Zenon DEF OwedNow
    <2>. QED  BY <2>1, <2>2 DEF Ledger
  <1>. QED  BY <1>1, <1>2, <1>3 DEF Kept, IInv, Tasks, Docs, Ledgers

LEMMA CrashKeeps ==
  ASSUME IInv, Crash
  PROVE  Kept
  <1>0. TypeOK /\ Global /\ handle.state = "ready" /\ handle.proc \in 1..MaxProcesses /\ handle.proc < MaxProcesses
    BY DEF IInv, TypeOK, PoolOK, HandleState, Crash
  <1>1. /\ handle' \in HandleState /\ handle'.state = "failed" /\ handle'.proc = handle.proc
        /\ UNCHANGED <<tracker, locks, latest, host, at, side, purge, wire, delivered, faults>>
    BY <1>0 DEF Crash, TypeOK, PoolOK, HandleState
  <1>2. TypeOK'
    BY <1>0, <1>1 DEF TypeOK, TasksOK, TrackerOK, LocksOK, HostOK, PoolOK, tracker, locks, side
  <1>3. purge.step = "none" /\ Global' /\ (Fence' => Fence) /\ (Intact' => Intact)
    BY <1>0, <1>1 DEF Global, Fence, Intact, locks
  <1>4. \A d \in Doc : Purged(d)'
    BY <1>1, <1>3 DEF Purged
  <1>. QED  BY <1>1, <1>2, <1>3, <1>4, Relaxes DEF tracker, locks, side

LEMMA HandshakeKeeps ==
  ASSUME IInv, Handshake
  PROVE  Kept
  <1>0. TypeOK /\ Global /\ handle.state = "initializing" /\ handle.proc \in 1..MaxProcesses
    BY DEF IInv, TypeOK, PoolOK, HandleState, Handshake
  <1>1. /\ handle' \in HandleState /\ handle'.state \in {"ready", "failed"} /\ handle'.proc = handle.proc
        /\ handle'.state = "failed" => handle.proc < MaxProcesses
        /\ UNCHANGED <<tracker, locks, latest, host, at, side, purge, wire, delivered, faults>>
    BY <1>0 DEF Handshake, TypeOK, PoolOK, HandleState
  <1>2. TypeOK'
    BY <1>0, <1>1 DEF TypeOK, TasksOK, TrackerOK, LocksOK, HostOK, PoolOK, tracker, locks, side
  <1>3. purge.step = "none" /\ Global' /\ (Fence' => Fence) /\ (Intact' => Intact)
    BY <1>0, <1>1 DEF Global, Fence, Intact, locks
  <1>4. \A d \in Doc : Purged(d)'
    BY <1>1, <1>3 DEF Purged
  <1>. QED  BY <1>1, <1>2, <1>3, <1>4, Relaxes DEF tracker, locks, side

LEMMA AbortReplaceKeeps ==
  ASSUME IInv, AbortReplace
  PROVE  Kept
  <1>0. TypeOK /\ Global /\ connections = Acquirer /\ purge.step # "index"
    BY DEF IInv, AbortReplace
  <1>1. /\ connections' = NoTask /\ purge' = NoPurge
        /\ UNCHANGED <<handle, tracker, transition, editLock, lifecycle, latest, host, at, side, wire, delivered>>
    BY DEF AbortReplace
  <1>2. TypeOK'
    <2>1. faults' \in [drops : 0..MaxDrops, aborts : 0..MaxAborts]
      <3>1. faults \in [drops : 0..MaxDrops, aborts : 0..MaxAborts] /\ faults.aborts < MaxAborts /\ faults' = [faults EXCEPT !.aborts = @ + 1]
        BY <1>0 DEF AbortReplace, TypeOK, PoolOK
      <3>. QED  BY <3>1, DocumentsAssumption
    <2>2. purge' \in PurgeState
      BY <1>1 DEF NoPurge, PurgeState
    <2>3. TasksOK' /\ TrackerOK' /\ LocksOK' /\ HostOK' /\ PoolOK'
      BY <1>0, <1>1, <2>1, <2>2 DEF TypeOK, TasksOK, TrackerOK, LocksOK, HostOK, PoolOK, tracker, side
    <2>. QED  BY <2>3 DEF TypeOK
  <1>3. handle.state = "failed" /\ Global' /\ (Fence' => Fence) /\ (Intact' => Intact)
    BY <1>0, <1>1, Kinds DEF Global, Fence, Intact, NoPurge
  <1>4. \A d \in Doc : Purged(d)'
    BY <1>1, <1>3 DEF Purged, NoPurge
  <1>. QED  BY <1>0, <1>1, <1>2, <1>3, <1>4, Kinds, Relaxes DEF tracker, side

LEMMA PurgeWaitsKeeps ==
  ASSUME IInv, NEW d \in Doc, PurgeWaits(d)
  PROVE  Kept
  <1>0. TypeOK /\ Global /\ purge \in PurgeState /\ purge.step = "wait" /\ transition[d] = NoTask
    BY DEF IInv, PurgeWaits, TypeOK, PoolOK
  <1>1. /\ purge' \in PurgeState /\ purge'.step = "wait" /\ purge'.left = purge.left \ {d}
        /\ UNCHANGED <<handle, tracker, locks, latest, host, at, side, wire, delivered, faults>>
    BY <1>0 DEF PurgeWaits, PurgeState
  <1>2. TypeOK'
    BY <1>0, <1>1 DEF TypeOK, TasksOK, TrackerOK, LocksOK, HostOK, PoolOK, tracker, locks, side
  <1>3. Global' /\ (Fence' => Fence) /\ (Intact' => Intact)
    BY <1>0, <1>1 DEF Global, Fence, Intact, NoPurge, locks
  <1>4. \A e \in Doc : Purged(e)'
    BY <1>0, <1>1 DEF Purged, IInv, Docs, DocOK, tracker, locks
  <1>. QED  BY <1>0, <1>1, <1>2, <1>3, <1>4, Relaxes DEF tracker, locks, side

(* A step of a purge: it clears, and nobody of the old process is misled.  *)
LEMMA Clears ==
  ASSUME IInv, TypeOK', purge.step # "none", purge'.step \notin {"none"}, purge' # NoPurge,
         UNCHANGED <<handle, generation, at, connections, transition, promoting, cleanups, wire>>,
         \A d \in Doc : /\ Purged(d)' /\ claims'[d] \in {claims[d], NoTask} /\ registered'[d] \in {registered[d], NoEntry}
                        /\ d \in openedOn' => /\ d \in openedOn
                                              /\ versions'[d] # 0 \/ (purge'.step = "index" /\ d \in purge'.uris)
  PROVE  Kept
  <1>0. Global /\ Fence /\ Fence' /\ ~Intact' /\ handle.state = "failed"
        /\ (connections = Acquirer \/ (connections \in Closer /\ at[connections].pc = "purging"))
    BY DEF IInv, Global, Fence, Intact
  <1>1. Global'
    BY <1>0 DEF Global
  <1>2. ASSUME NEW u \in Task PROVE TaskOK(u)'
    <2>1. TaskOK(u)
      BY DEF IInv, Tasks
    <2>2. at[u].pc # "claimed"
      BY <1>0, <2>1, Kinds DEF TaskOK, Pins
    <2>3. Claiming(u)' /\ Promoting(u)' /\ Sending(u)' /\ Closes(u)'
      BY <1>0, <2>1, <2>2 DEF TaskOK, Claiming, Promoting, Sending, Closes
    <2>. QED  BY <2>1, <2>3 DEF TaskOK
  <1>3. ASSUME NEW d \in Doc PROVE DocOK(d)'
    <2>1. DocOK(d) /\ Purged(d)' /\ claims'[d] \in {claims[d], NoTask} /\ registered'[d] \in {registered[d], NoEntry}
      BY DEF IInv, Docs
    <2>2. d \in openedOn' => d \in openedOn /\ (versions'[d] # 0 \/ (purge'.step = "index" /\ d \in purge'.uris))
      OBVIOUS
    <2>3. Holders(d)'
      BY <2>1 DEF DocOK, Holders
    <2>. QED  BY <1>0, <2>1, <2>2, <2>3 DEF DocOK
  <1>. QED  BY <1>0, <1>1, <1>2, <1>3 DEF Kept, IInv, Tasks, Docs, Ledgers

LEMMA PurgeVersionsKeeps ==
  ASSUME IInv, PurgeVersions
  PROVE  Kept
  <1>0. TypeOK /\ purge \in PurgeState /\ purge.step = "versions" /\ \A d \in Doc : DocOK(d)
    BY DEF IInv, Docs, PurgeVersions, TypeOK, PoolOK
  <1>1. /\ purge' \in PurgeState /\ purge'.step = "index" /\ purge'.left = purge.left
        /\ purge'.uris = { d \in Doc : versions[d] # 0 } /\ versions' = [d \in Doc |-> 0]
        /\ UNCHANGED <<handle, generation, fingerprints, claims, openedOn, registered, locks, latest, host, at, side, wire, delivered, faults>>
    <2>1. { d \in Doc : versions[d] # 0 } \in SUBSET Doc
      OBVIOUS
    <2>. QED  BY <1>0, <2>1 DEF PurgeVersions, PurgeState
  <1>2. TypeOK'
    BY <1>0, <1>1, DocumentsAssumption DEF TypeOK, TasksOK, TrackerOK, LocksOK, HostOK, PoolOK, locks, side
  <1>3. ASSUME NEW d \in Doc
        PROVE  Purged(d)' /\ (d \in openedOn' => d \in openedOn /\ purge'.step = "index" /\ d \in purge'.uris)
    <2>1. DocOK(d) /\ Purged(d)
      BY <1>0 DEF DocOK
    <2>. QED  BY <1>0, <1>1, <2>1 DEF DocOK, Purged, locks
  <1>4. UNCHANGED <<handle, generation, at, connections, transition, promoting, cleanups, wire, claims, registered>>
    BY <1>1 DEF locks, side
  <1>5. purge.step # "none" /\ purge'.step # "none" /\ purge' # NoPurge
    BY <1>0, <1>1 DEF NoPurge
  <1>. QED  BY <1>2, <1>3, <1>4, <1>5, Clears

LEMMA PurgeIndexKeeps ==
  ASSUME IInv, PurgeIndex
  PROVE  Kept
  <1>0. TypeOK /\ purge \in PurgeState /\ purge.step = "index" /\ \A d \in Doc : DocOK(d)
    BY DEF IInv, Docs, PurgeIndex, TypeOK, PoolOK
  <1>1. /\ purge' \in PurgeState /\ purge'.step = "rest" /\ purge'.left = purge.left
        /\ openedOn' = openedOn \ purge.uris /\ fingerprints' = [d \in Doc |-> NoText]
        /\ UNCHANGED <<handle, generation, versions, claims, registered, locks, latest, host, at, side, wire, delivered, faults>>
    BY <1>0 DEF PurgeIndex, PurgeState
  <1>2. TypeOK'
    BY <1>0, <1>1 DEF TypeOK, TasksOK, TrackerOK, LocksOK, HostOK, PoolOK, locks, side
  <1>3. ASSUME NEW d \in Doc
        PROVE  Purged(d)' /\ d \notin openedOn'
    <2>1. DocOK(d) /\ Purged(d)
      BY <1>0 DEF DocOK
    <2>. QED  BY <1>0, <1>1, <2>1 DEF DocOK, Purged, locks
  <1>4. UNCHANGED <<handle, generation, at, connections, transition, promoting, cleanups, wire, claims, registered>>
    BY <1>1 DEF locks, side
  <1>5. purge.step # "none" /\ purge'.step # "none" /\ purge' # NoPurge
    BY <1>0, <1>1 DEF NoPurge
  <1>. QED  BY <1>2, <1>3, <1>4, <1>5, Clears

LEMMA PurgeRestKeeps ==
  ASSUME IInv, PurgeRest
  PROVE  Kept
  <1>0. TypeOK /\ purge \in PurgeState /\ purge.step = "rest" /\ \A d \in Doc : DocOK(d)
    BY DEF IInv, Docs, PurgeRest, TypeOK, PoolOK
  <1>1. /\ purge' \in PurgeState /\ purge'.step = "wait" /\ purge'.left = purge.left
        /\ registered' = [d \in Doc |-> NoEntry] /\ claims' = [d \in Doc |-> NoTask]
        /\ UNCHANGED <<handle, generation, versions, fingerprints, openedOn, locks, latest, host, at, side, wire, delivered, faults>>
    BY <1>0 DEF PurgeRest, PurgeState
  <1>2. TypeOK'
    BY <1>0, <1>1 DEF TypeOK, TasksOK, TrackerOK, LocksOK, HostOK, PoolOK, locks, side
  <1>3. ASSUME NEW d \in Doc
        PROVE  Purged(d)' /\ d \notin openedOn'
    <2>1. DocOK(d) /\ Purged(d)
      BY <1>0 DEF DocOK
    <2>. QED  BY <1>0, <1>1, <2>1 DEF DocOK, Purged, locks
  <1>4. UNCHANGED <<handle, generation, at, connections, transition, promoting, cleanups, wire>>
    BY <1>1 DEF locks, side
  <1>5. purge.step # "none" /\ purge'.step # "none" /\ purge' # NoPurge
    BY <1>0, <1>1 DEF NoPurge
  <1>6. \A d \in Doc : claims'[d] = NoTask /\ registered'[d] = NoEntry
    BY <1>1
  <1>. QED  BY <1>2, <1>3, <1>4, <1>5, <1>6, Clears

(* The generation moves: nothing of the old one is mistaken for the new.   *)
LEMMA Fences ==
  ASSUME IInv, TypeOK', NEW x \in Closer \cup {Acquirer}, PurgeBegins(x),
         handle'.state = "failed", handle'.proc = handle.proc, handle.proc < MaxProcesses,
         \A u \in Task \ {x} : at'[u] = at[u],
         x \in Closer => /\ at[x].pc = "invalidate" /\ at'[x].pc = "purging" /\ Carries(x),
         UNCHANGED <<transition, promoting, cleanups, wire>>
  PROVE  Kept
  <1>0. /\ connections = NoTask /\ connections' = x /\ generation' = generation + 1 /\ generation \in Nat
        /\ purge' = [step |-> "versions", uris |-> {}, left |-> Doc]
        /\ UNCHANGED <<versions, claims, openedOn, registered>>
        /\ Fence' /\ ~Intact' /\ TypeOK /\ x # NoTask
    BY Kinds DEF PurgeBegins, Fence, Intact, IInv, TypeOK, TrackerOK, Task
  <1>1. Global'
    BY <1>0, Kinds DEF Global, NoPurge, Task
  <1>2. ASSUME NEW u \in Task PROVE TaskOK(u)'
    <2>1. TaskOK(u) /\ at[u].pc \notin Pins
      BY <1>0, Kinds DEF IInv, Tasks, TaskOK
    <2>2. at[u].gen \in Nat /\ at[u].left \subseteq Doc
      BY <1>0 DEF TypeOK, TasksOK, TaskState
    <2>3. CASE u # x
      <3>1. at'[u] = at[u] /\ connections' # u
        BY <1>0, <2>3
      <3>2. Promoting(u)' /\ Sending(u)' /\ Claiming(u)'
        BY <1>0, <2>1, <2>2, <3>1 DEF TaskOK, Promoting, Sending, Claiming, Pins
      <3>3. Closes(u)'
        <4>1. \A d \in at[u].left : at[u].pc \in Owing => at[u].gens[d] \in 0..(generation + 1) /\ at[u].gens[d] # generation + 1
          BY <1>0, <2>1 DEF TaskOK, Closes
        <4>2. ASSUME at[u].pc \in {"close", "invalidate"} PROVE at[u].gens[at[u].doc] # generation + 1
          BY <2>1, <4>1, <4>2 DEF TaskOK, Closes, Owing
        <4>. QED  BY <1>0, <2>1, <3>1, <4>1, <4>2 DEF TaskOK, Closes
      <3>. QED  BY <2>1, <3>1, <3>2, <3>3 DEF TaskOK
    <2>4. CASE u = x
      <3>1. u \in Closer /\ u \notin Opener /\ at[u].pc = "invalidate" /\ at'[u].pc = "purging" /\ Carries(u)
            /\ u \notin promoting /\ u \notin cleanups
        BY <2>1, <2>4, Kinds DEF TaskOK, Promoting
      <3>2. Closes(u)'
        <4>1. \A d \in at[u].left : at[u].gens[d] \in 0..(generation + 1) /\ at[u].gens[d] # generation + 1
          BY <1>0, <2>1, <3>1 DEF TaskOK, Closes, Owing
        <4>. QED  BY <1>0, <2>1, <3>1, <4>1 DEF TaskOK, Closes, Carries, Owing
      <3>. QED  BY <1>0, <2>1, <2>4, <3>1, <3>2 DEF TaskOK, Promoting, Sending, Claiming, Pins, Carries, Texts, Owing
    <2>. QED  BY <2>3, <2>4
  <1>3. ASSUME NEW d \in Doc PROVE DocOK(d)'
    <2>1. DocOK(d) /\ transition[d] \in Task \cup {NoTask} /\ claims[d] \in Task \cup {NoTask}
      BY <1>0 DEF IInv, Docs, TypeOK, LocksOK, TrackerOK, Task
    <2>2. Holders(d)'
      <3>1. ASSUME NEW u \in Task, transition[d] = u
            PROVE  at'[u].doc = d /\ (at'[u].pc \in {"claimed", "send", "record"} \/ u \in promoting)
        <4>1. at[u].doc = d /\ (at[u].pc \in {"claimed", "send", "record"} \/ u \in promoting)
          BY <2>1, <3>1, Kinds DEF DocOK, Holders
        <4>2. CASE u = x
          BY <4>1, <4>2, Kinds DEF Carries
        <4>. QED  BY <4>1, <4>2
      <3>2. ASSUME NEW u \in Task, claims[d] = u
            PROVE  at'[u].doc = d /\ (at'[u].pc = "claimed" \/ u \in promoting \cup cleanups)
        <4>1. at[u].doc = d /\ (at[u].pc = "claimed" \/ u \in promoting \cup cleanups)
          BY <2>1, <3>2, Kinds DEF DocOK, Holders
        <4>2. CASE u = x
          BY <4>1, <4>2, Kinds DEF Carries
        <4>. QED  BY <4>1, <4>2
      <3>. QED  BY <1>0, <2>1, <3>1, <3>2 DEF Holders
    <2>3. Purged(d)'
      BY <1>0 DEF Purged
    <2>4. purge.step # "index" /\ (registered[d] # NoEntry => registered[d] \in 0..(generation + 1) /\ registered[d] # generation + 1)
      BY <1>0, <2>1, Kinds DEF DocOK, IInv, Global, Closer, Task
    <2>. QED  BY <1>0, <2>1, <2>2, <2>3, <2>4 DEF DocOK
  <1>. QED  BY <1>0, <1>1, <1>2, <1>3 DEF Kept, IInv, Tasks, Docs, Ledgers

LEMMA ReplaceKeeps ==
  ASSUME IInv, Replace
  PROVE  Kept
  <1>0. TypeOK /\ Global /\ PurgeBegins(Acquirer) /\ handle.state = "failed"
        /\ UNCHANGED <<handle, transition, editLock, lifecycle, latest, host, at, side, wire, delivered, faults>>
    BY DEF IInv, Replace
  <1>1. TypeOK'
    BY <1>0 DEF TypeOK, TasksOK, TrackerOK, LocksOK, HostOK, PoolOK, PurgeBegins, PurgeState, side
  <1>2. Acquirer \notin Closer /\ handle.proc < MaxProcesses
    BY <1>0, Kinds DEF Global, Task
  <1>. QED  BY <1>0, <1>1, <1>2, Fences DEF side

LEMMA InvalidateKeeps ==
  ASSUME IInv, NEW c \in Closer, Invalidate(c)
  PROVE  Kept
  <1>1. CASE handle.proc = at[c].proc /\ handle.state # "none"
    <2>0. TypeOK /\ TasksOK /\ c \in Task /\ PcOf(c) = CloserPc /\ TaskOK(c) /\ at[c].pc = "invalidate" /\ handle \in HandleState
      BY CloserFacts DEF Invalidate, TypeOK, PoolOK
    <2>1. handle' = [handle EXCEPT !.state = "failed"] /\ PurgeBegins(c) /\ Goto(c, "purging")
          /\ UNCHANGED <<transition, editLock, lifecycle, latest, host, side, wire, delivered, faults>>
      BY <1>1 DEF Invalidate
    <2>2. handle' \in HandleState /\ handle'.state = "failed" /\ handle'.proc = handle.proc
      BY <2>0, <2>1 DEF HandleState
    <2>3. handle.proc < MaxProcesses
      BY <1>1, <2>0, DocumentsAssumption DEF TaskOK, Closes
    <2>4. TasksOK' /\ Rests(c) /\ at'[c].pc = "purging" /\ Carries(c)
      BY <2>0, <2>1, Goes DEF CloserPc
    <2>5. TypeOK'
      BY <2>0, <2>1, <2>2, <2>4 DEF TypeOK, TrackerOK, LocksOK, HostOK, PoolOK, PurgeBegins, PurgeState, side
    <2>. QED  BY <2>0, <2>1, <2>2, <2>3, <2>4, <2>5, Fences DEF side, Rests
  <1>2. CASE ~(handle.proc = at[c].proc /\ handle.state # "none")
    BY <1>2, InvalidateInVain
  <1>. QED  BY <1>1, <1>2

(* A purge that ends has left nothing.                                     *)
LEMMA Emptied ==
  ASSUME IInv, purge.step = "wait", purge.left = {}, NEW d \in Doc
  PROVE  versions[d] = 0 /\ d \notin openedOn /\ registered[d] = NoEntry /\ claims[d] = NoTask /\ transition[d] = NoTask
  BY DEF IInv, Docs, DocOK, Purged

(* A new process begins from an empty tracker.                             *)
LEMMA Spawns ==
  ASSUME IInv, TypeOK', Fence, handle.proc < MaxProcesses, handle' = [state |-> "initializing", proc |-> handle.proc + 1],
         connections \notin Task, connections' = NoTask, purge' = NoPurge, wire' = [d \in Doc |-> Closed],
         \A d \in Doc : versions[d] = 0 /\ d \notin openedOn /\ registered[d] = NoEntry /\ claims[d] = NoTask /\ transition[d] = NoTask,
         UNCHANGED <<at, generation, versions, claims, openedOn, registered, transition, promoting, cleanups>>
  PROVE  Kept
  <1>0. TypeOK /\ Fence' /\ Intact' /\ handle'.proc = handle.proc + 1 /\ handle'.state = "initializing"
    BY DEF IInv, Fence, Intact, NoPurge
  <1>1. Global'
    BY <1>0, Kinds DEF Global, NoPurge
  <1>2. ASSUME NEW u \in Task PROVE TaskOK(u)'
    <2>1. TaskOK(u) /\ at[u].doc \in Doc /\ u # NoTask /\ transition[at[u].doc] = NoTask
      BY <1>0, Kinds DEF IInv, Tasks, TypeOK, TasksOK, TaskState
    <2>2. at[u].pc \notin Pins /\ u \notin promoting /\ at[u].pc \notin {"send", "record"}
      BY <2>1 DEF TaskOK, Promoting, Sending
    <2>3. Closes(u)'
      BY <1>0, <2>1, <2>2 DEF TaskOK, Closes, Owing
    <2>. QED  BY <1>0, <2>1, <2>2, <2>3 DEF TaskOK, Claiming, Promoting, Sending, Pins
  <1>3. ASSUME NEW d \in Doc PROVE DocOK(d)' /\ Ledger(d)'
    <2>1. wire'[d] = Closed
      OBVIOUS
    <2>2. Closed # Misordered
      BY DocumentsAssumption DEF Closed, Misordered
    <2>3. Purged(d)' /\ Holders(d)'
      BY <1>0, <2>1 DEF Purged, Holders, NoPurge
    <2>. QED  BY <1>0, <2>1, <2>2, <2>3 DEF DocOK, Ledger
  <1>. QED  BY <1>0, <1>1, <1>2, <1>3 DEF Kept, IInv, Tasks, Docs, Ledgers

LEMMA SpawnType ==
  ASSUME TypeOK, handle' = [state |-> "initializing", proc |-> handle.proc + 1], handle.proc < MaxProcesses,
         wire' = [d \in Doc |-> Closed]
  PROVE  handle' \in HandleState /\ wire' \in [Doc -> Frames]
  <1>1. handle.proc \in 1..MaxProcesses
    BY DEF TypeOK, PoolOK, HandleState
  <1>. QED  BY <1>1, DocumentsAssumption DEF HandleState, Frames

LEMMA SpawnFirstKeeps ==
  ASSUME IInv, SpawnFirst
  PROVE  Kept
  <1>0. TypeOK /\ Global /\ handle.state = "none" /\ connections = NoTask /\ handle.proc < MaxProcesses
        /\ handle' = [state |-> "initializing", proc |-> handle.proc + 1] /\ wire' = [d \in Doc |-> Closed]
        /\ UNCHANGED <<tracker, locks, latest, host, at, side, purge, delivered, faults>>
    BY DEF IInv, Global, SpawnFirst
  <1>1. TypeOK'
    <2>1. handle' \in HandleState /\ wire' \in [Doc -> Frames]
      BY <1>0, SpawnType
    <2>2. TasksOK' /\ TrackerOK' /\ LocksOK' /\ HostOK' /\ PoolOK'
      BY <1>0, <2>1 DEF TypeOK, TasksOK, TrackerOK, LocksOK, HostOK, PoolOK, tracker, locks, side
    <2>. QED  BY <2>2 DEF TypeOK
  <1>2. purge' = NoPurge /\ Fence /\ connections \notin Task /\ connections' = NoTask
    BY <1>0, Kinds DEF Global, Fence, locks
  <1>3. \A d \in Doc : versions[d] = 0 /\ d \notin openedOn /\ registered[d] = NoEntry /\ claims[d] = NoTask /\ transition[d] = NoTask
    BY <1>0 DEF IInv, Docs, DocOK, Purged
  <1>4. UNCHANGED <<at, generation, versions, claims, openedOn, registered, transition, promoting, cleanups>>
    BY <1>0 DEF tracker, locks, side
  <1>. QED  BY <1>0, <1>1, <1>2, <1>3, <1>4, Spawns

(* A close that failed has purged the process, and does not replace it.    *)
LEMMA Retires ==
  ASSUME IInv, PurgeEnds, connections # Acquirer
  PROVE  Kept
  <1>0. TypeOK /\ Global /\ purge.step = "wait" /\ purge.left = {} /\ handle.state = "failed" /\ handle.proc < MaxProcesses
        /\ handle \in HandleState /\ connections \in Closer /\ at[connections].pc = "purging"
    BY DEF IInv, Global, PurgeEnds, TypeOK, PoolOK
  <1>1. PICK c \in Closer : c = connections
    BY <1>0
  <1>2. /\ purge' = NoPurge /\ connections' = NoTask /\ handle' = [handle EXCEPT !.state = "none"]
        /\ Closing(c, "closing")
        /\ UNCHANGED <<tracker, transition, editLock, lifecycle, latest, host, side, wire, delivered, faults>>
    BY <1>1 DEF PurgeEnds
  <1>d. PICK d \in Doc : d = at[c].doc
    BY CloserFacts
  <1>3. /\ TasksOK /\ c \in Task /\ PcOf(c) = CloserPc /\ TaskOK(c) /\ c \notin promoting /\ c \notin cleanups /\ c # NoTask
    BY CloserFacts
  <1>4. /\ TasksOK' /\ Rests(c) /\ at'[c].pc = "closing" /\ at'[c].left = at[c].left \ {d}
        /\ at'[c].gens = at[c].gens /\ at'[c].text = at[c].text
    BY <1>2, <1>3, <1>d, ClosingEffect
  <1>5. handle' \in HandleState /\ handle'.state = "none" /\ handle'.proc = handle.proc /\ Fence /\ Fence' /\ ~Intact'
    BY <1>0, <1>2 DEF HandleState, Fence, Intact
  <1>6. TypeOK'
    <2>1. purge' \in PurgeState
      BY <1>2 DEF NoPurge, PurgeState
    <2>2. TrackerOK' /\ LocksOK' /\ HostOK' /\ PoolOK'
      BY <1>0, <1>2, <1>5, <2>1 DEF TypeOK, TrackerOK, LocksOK, HostOK, PoolOK, tracker, side
    <2>. QED  BY <1>4, <2>2 DEF TypeOK
  <1>7. Global'
    BY <1>0, <1>2, <1>5, Kinds DEF Global, NoPurge
  <1>8. ASSUME NEW u \in Task PROVE TaskOK(u)'
    <2>1. CASE u = c
      <3>1. Closes(c)'
        BY <1>0, <1>1, <1>2, <1>3, <1>4, <1>5 DEF TaskOK, Closes, Owing, tracker
      <3>. QED  BY <1>0, <1>1, <1>2, <1>3, <1>4, <2>1, <3>1 DEF TaskOK, Pins, Owing, Texts, Claiming, Promoting, Sending, side
    <2>2. CASE u # c
      <3>1. TaskOK(u) /\ at'[u] = at[u] /\ at[u].pc \notin Pins
        BY <1>1, <1>4, <2>2 DEF IInv, Tasks, Rests, TaskOK
      <3>2. Claiming(u)' /\ Promoting(u)' /\ Sending(u)' /\ Closes(u)'
        BY <1>2, <1>5, <3>1 DEF TaskOK, Claiming, Promoting, Sending, Closes, tracker, side, Pins
      <3>. QED  BY <1>2, <3>1, <3>2, Kinds DEF TaskOK, side
    <2>. QED  BY <2>1, <2>2
  <1>9. ASSUME NEW e \in Doc PROVE DocOK(e)'
    <2>1. versions[e] = 0 /\ e \notin openedOn /\ registered[e] = NoEntry /\ claims[e] = NoTask /\ transition[e] = NoTask
      BY <1>0, Emptied
    <2>2. wire[e] # Misordered
      BY DEF IInv, Docs, DocOK
    <2>3. Purged(e)' /\ Holders(e)'
      BY <1>2, <1>5, <2>1 DEF Purged, Holders, NoPurge, tracker
    <2>. QED  BY <1>2, <2>1, <2>2, <2>3 DEF DocOK, tracker
  <1>. QED  BY <1>5, <1>6, <1>7, <1>8, <1>9 DEF Kept, IInv, Tasks, Docs, Ledgers

LEMMA PurgeEndsKeeps ==
  ASSUME IInv, PurgeEnds
  PROVE  Kept
  <1>1. CASE connections = Acquirer
    <2>0. TypeOK /\ Global /\ purge.step = "wait" /\ purge.left = {} /\ handle.proc < MaxProcesses
          /\ handle' = [state |-> "initializing", proc |-> handle.proc + 1] /\ wire' = [d \in Doc |-> Closed]
          /\ purge' = NoPurge /\ connections' = NoTask
          /\ UNCHANGED <<tracker, transition, editLock, lifecycle, latest, host, at, side, delivered, faults>>
      BY <1>1 DEF IInv, Global, PurgeEnds
    <2>1. TypeOK'
      <3>1. handle' \in HandleState /\ wire' \in [Doc -> Frames]
        BY <2>0, SpawnType
      <3>2. purge' \in PurgeState
        BY <2>0 DEF NoPurge, PurgeState
      <3>3. TasksOK' /\ TrackerOK' /\ LocksOK' /\ HostOK' /\ PoolOK'
        BY <2>0, <3>1, <3>2 DEF TypeOK, TasksOK, TrackerOK, LocksOK, HostOK, PoolOK, tracker, side
      <3>. QED  BY <3>3 DEF TypeOK
    <2>2. Fence /\ connections \notin Task
      BY <1>1, <2>0, Kinds DEF Fence
    <2>3. \A d \in Doc : versions[d] = 0 /\ d \notin openedOn /\ registered[d] = NoEntry /\ claims[d] = NoTask /\ transition[d] = NoTask
      BY <2>0, Emptied
    <2>4. UNCHANGED <<at, generation, versions, claims, openedOn, registered, transition, promoting, cleanups>>
      BY <2>0 DEF tracker, side
    <2>. QED  BY <2>0, <2>1, <2>2, <2>3, <2>4, Spawns
  <1>2. CASE connections # Acquirer
    BY <1>2, Retires
  <1>. QED  BY <1>1, <1>2

(* The editor moves the host alone.                                        *)
LEMMA Idles ==
  ASSUME IInv, HostOK', UNCHANGED <<handle, tracker, locks, at, side, purge, wire, faults>>
  PROVE  Kept
  <1>1. TypeOK'
    BY DEF IInv, TypeOK, TasksOK, TrackerOK, LocksOK, PoolOK, tracker, locks, side
  <1>2. Quiet({})
    BY DEF Quiet, core, tracker, locks, side
  <1>. QED  BY <1>1, <1>2, Moves

LEMMA EditKeeps ==
  ASSUME IInv, Edit \/ Reopen \/ UNCHANGED vars
  PROVE  Kept
  <1>0. HostOK /\ host \in HostState
    BY DEF IInv, TypeOK, HostOK
  <1>1. CASE Edit
    <2>1. PICK t \in [Doc -> Text] : host' = [host EXCEPT !.edits = host.edits + 1, !.text = t]
      BY <1>1 DEF Edit
    <2>2. host' \in HostState
      <3>1. host.edits \in 0..MaxEdits /\ host.edits < MaxEdits
        BY <1>0, <1>1 DEF HostState, Edit
      <3>2. PICK e \in 0..MaxEdits : e = host.edits + 1
        BY <3>1, DocumentsAssumption
      <3>3. host' = [host EXCEPT !.edits = e, !.text = t]
        BY <2>1, <3>2
      <3>. QED  BY <1>0, <3>3 DEF HostState
    <2>3. HostOK'
      BY <1>0, <1>1, <2>2 DEF HostOK, Edit
    <2>. QED  BY <1>1, <2>3, Idles DEF Edit
  <1>2. CASE Reopen
    <2>1. PICK t \in [Doc -> Text] : host' = [host EXCEPT !.incarnation = host.lifetimes + 1, !.lifetimes = host.lifetimes + 1, !.text = t]
      BY <1>2 DEF Reopen
    <2>2. host' \in HostState
      <3>1. host.lifetimes \in 0..MaxLifetimes /\ host.lifetimes < MaxLifetimes
        BY <1>0, <1>2 DEF HostState, Reopen
      <3>2. PICK l \in 0..MaxLifetimes : l = host.lifetimes + 1
        BY <3>1, DocumentsAssumption
      <3>3. host' = [host EXCEPT !.incarnation = l, !.lifetimes = l, !.text = t]
        BY <2>1, <3>2
      <3>. QED  BY <1>0, <3>3 DEF HostState
    <2>3. HostOK'
      BY <1>0, <1>2, <2>2 DEF HostOK, Reopen
    <2>. QED  BY <1>2, <2>3, Idles DEF Reopen
  <1>3. CASE UNCHANGED vars
    <2>1. HostOK'
      BY <1>0, <1>3 DEF HostOK, vars
    <2>. QED  BY <1>3, <2>1, Idles DEF vars
  <1>. QED  BY <1>1, <1>2, <1>3

-----------------------------------------------------------------------------
(* The invariant                                                           *)

LEMMA Begins == Init => IInv
  <1>. SUFFICES ASSUME Init PROVE IInv
    OBVIOUS
  <1>1. /\ handle = [state |-> "ready", proc |-> 1]
        /\ connections = NoTask /\ transition = [d \in Doc |-> NoTask]
        /\ editLock = NoTask /\ lifecycle = [readers |-> {}, writer |-> NoTask]
        /\ generation = 0
        /\ versions = [d \in Doc |-> 0] /\ fingerprints = [d \in Doc |-> NoText]
        /\ claims = [d \in Doc |-> NoTask] /\ openedOn = {}
        /\ registered = [d \in Doc |-> NoEntry]
        /\ latest = [d \in Doc |-> NoText]
        /\ at = [t \in Task |-> Idle]
        /\ cancelled = {} /\ promoting = {} /\ cleanups = {}
        /\ purge = NoPurge
        /\ wire = [d \in Doc |-> Closed]
        /\ delivered = [d \in Doc |-> NoText]
        /\ faults = [drops |-> 0, aborts |-> 0]
    BY DEF Init
  <1>2. TypeOK
    <2>1. TasksOK
      <3>1. \A t \in Task : at[t] = Idle /\ Idle \in TaskState /\ Idle.pc \in OpenerPc /\ Idle.pc \in CloserPc
        BY <1>1, GoneType DEF OpenerPc, CloserPc
      <3>2. at \in [Task -> TaskState]
        BY <1>1, GoneType
      <3>. QED  BY <3>1, <3>2 DEF TasksOK
    <2>2. TrackerOK
      BY <1>1, DocumentsAssumption DEF TrackerOK
    <2>3. LocksOK
      BY <1>1 DEF LocksOK
    <2>4. HostOK
      <3>1. PICK t \in Text : host = [incarnation |-> 1, lifetimes |-> 1, edits |-> 0, text |-> [d \in Doc |-> t]]
        BY DEF Init
      <3>2. [d \in Doc |-> t] \in [Doc -> Text] /\ 1 \in 0..MaxLifetimes /\ 0 \in 0..MaxEdits
        BY DocumentsAssumption
      <3>. QED  BY <1>1, <3>1, <3>2 DEF HostOK, HostState
    <2>5. PoolOK
      <3>1. handle \in HandleState /\ faults \in [drops : 0..MaxDrops, aborts : 0..MaxAborts] /\ purge \in PurgeState
        BY <1>1, DocumentsAssumption DEF HandleState, PurgeState, NoPurge
      <3>2. wire \in [Doc -> Frames]
        BY <1>1 DEF Frames
      <3>. QED  BY <1>1, <3>1, <3>2 DEF PoolOK
    <2>. QED  BY <2>1, <2>2, <2>3, <2>4, <2>5 DEF TypeOK
  <1>3. Global
    BY <1>1, Kinds DEF Global, NoPurge
  <1>4. ASSUME NEW t \in Task PROVE TaskOK(t)
    <2>1. at[t].pc = "idle" /\ t # NoTask
      BY <1>1, GoneType, Kinds
    <2>. QED  BY <1>1, <2>1 DEF TaskOK, Pins, Owing, Texts, Claiming, Promoting, Sending, Closes
  <1>5. ASSUME NEW d \in Doc PROVE DocOK(d) /\ Ledger(d)
    <2>1. /\ transition[d] = NoTask /\ versions[d] = 0 /\ claims[d] = NoTask /\ registered[d] = NoEntry
          /\ wire[d] = Closed /\ d \notin openedOn /\ purge.step = "none" /\ handle.state = "ready"
      BY <1>1 DEF NoPurge
    <2>2. Closed # Misordered
      BY DocumentsAssumption DEF Closed, Misordered
    <2>. QED  BY <2>1, <2>2 DEF DocOK, Holders, Purged, Ledger
  <1>. QED  BY <1>2, <1>3, <1>4, <1>5 DEF IInv, Tasks, Docs, Ledgers

LEMMA OpenersKeep ==
  ASSUME IInv, NEW o \in Opener, OpenerSteps(o)
  PROVE  Kept
  <1>1. CASE Fetch(o) \/ BeginRepair(o) \/ RepairNext(o) \/ Enter(o) \/ CheckLive(o)
    BY <1>1, FetchKeeps, BeginRepairKeeps, RepairNextKeeps, EnterKeeps, CheckLiveKeeps
  <1>2. CASE TakeClaim(o) \/ AlreadyOpen(o) \/ Unsettled(o) \/ SendOpen(o) \/ Promote(o)
    BY <1>2, TakeClaimKeeps, AlreadyOpenKeeps, UnsettledKeeps, SendOpenKeeps, PromoteKeeps
  <1>3. CASE RecordOpen(o) \/ Abort(o) \/ CleanUp(o)
    BY <1>3, RecordOpenKeeps, AbortKeeps, CleanUpKeeps
  <1>4. CASE \E d \in Doc : Ask(o, d)
    BY <1>4, AskKeeps
  <1>. QED  BY <1>1, <1>2, <1>3, <1>4 DEF OpenerSteps

LEMMA ClosersKeep ==
  ASSUME IInv, NEW c \in Closer, CloserSteps(c)
  PROVE  Kept
  <1>1. CASE \E S \in SUBSET Doc, why \in {"deselected", "replaced", "invalidated"} : BeginPass(c, S, why)
    BY <1>1, BeginPassKeeps
  <1>2. CASE BeginClose(c) \/ EndLifetime(c) \/ TakeAll(c) \/ FetchForClose(c) \/ CloseDocument(c)
    BY <1>2, BeginCloseKeeps, EndLifetimeKeeps, TakeAllKeeps, FetchForCloseKeeps, CloseDocumentKeeps
  <1>3. CASE Invalidate(c) \/ BeginForward(c) \/ RecordLatest(c) \/ ListConnections(c) \/ PinHandle(c)
    BY <1>3, InvalidateKeeps, BeginForwardKeeps, RecordLatestKeeps, ListConnectionsKeeps, PinHandleKeeps
  <1>4. CASE PrepareChange(c) \/ SendChange(c) \/ RecordChange(c) \/ EndClose(c)
    BY <1>4, PrepareChangeKeeps, SendChangeKeeps, RecordChangeKeeps, EndCloseKeeps
  <1>5. CASE \E e \in Eager : EndPass(c, e)
    BY <1>5, EndPassKeeps
  <1>. QED  BY <1>1, <1>2, <1>3, <1>4, <1>5 DEF CloserSteps

LEMMA NextKeeps == IInv /\ [Next]_vars => IInv'
  <1>. SUFFICES ASSUME IInv, [Next]_vars PROVE Kept
    BY DEF Kept
  <1>1. CASE \E o \in Opener : OpenerSteps(o)
    BY <1>1, OpenersKeep
  <1>2. CASE \E c \in Closer : CloserSteps(c)
    BY <1>2, ClosersKeep
  <1>3. CASE PoolSteps
    <2>1. CASE Crash \/ Handshake \/ Replace \/ PurgeVersions \/ PurgeIndex
      BY <2>1, CrashKeeps, HandshakeKeeps, ReplaceKeeps, PurgeVersionsKeeps, PurgeIndexKeeps
    <2>2. CASE PurgeRest \/ PurgeEnds \/ AbortReplace \/ SpawnFirst
      BY <2>2, PurgeRestKeeps, PurgeEndsKeeps, AbortReplaceKeeps, SpawnFirstKeeps
    <2>3. CASE \E d \in Doc : PurgeWaits(d)
      BY <2>3, PurgeWaitsKeeps
    <2>. QED  BY <1>3, <2>1, <2>2, <2>3 DEF PoolSteps
  <1>4. CASE Edit \/ Reopen \/ Over \/ UNCHANGED vars
    BY <1>4, EditKeeps DEF Over
  <1>. QED  BY <1>1, <1>2, <1>3, <1>4 DEF Next

(* Whoever works on a document holds its lock, the map's, or a             *)
(* registration of the current generation: whatever is aborted, dropped,   *)
(* closed or replaced meanwhile, the tracker is never misled.              *)
THEOREM Inductive == Spec => []IInv
  BY Begins, NextKeeps, PTL DEF Spec

(* Every variable stays in its range: no version, process or lifetime      *)
(* beyond its bound, and no server misordered.                             *)
THEOREM TypeCorrect == Spec => []TypeOK
  <1>1. IInv => TypeOK
    BY DEF IInv
  <1>. QED  BY <1>1, Inductive, PTL

(* Once the process is up and no purge is under way, what the tracker      *)
(* calls open is what the process holds open, up to what is in flight:     *)
(* the claim, mark_open_sent and rollback rules of document_tracker.rs.    *)
THEOREM TrackerIsRight == Spec => []TrackerAgrees
  <1>1. IInv => TrackerAgrees
    <2>. SUFFICES ASSUME IInv PROVE TrackerAgrees
      OBVIOUS
    <2>1. ASSUME Settled PROVE Intact /\ \A d \in Doc : Ledger(d) /\ Holders(d)
      <3>1. Intact
        BY <2>1 DEF Settled, Intact, NoPurge
      <3>. QED  BY <3>1 DEF IInv, Ledgers, Docs, DocOK
    <2>2. ASSUME Settled, NEW d \in Doc, OwedNow(d) PROVE Owed(d)
      <3>1. PICK c \in Closer : Owes(c, d)
        BY <2>2, Zenon DEF OwedNow
      <3>2. at[c].pc # "purging"
        <4>1. at[c].pc = "purging" => connections = c
          BY CloserFacts DEF Pins
        <4>. QED  BY <2>2, <4>1, Kinds DEF Settled, IInv, Global, NoPurge, Task
      <3>3. at[c].pc \in {"closing", "close", "invalidate"} /\ d \in at[c].left
        BY <3>1, <3>2 DEF Owes, Owing
      <3>. QED  BY <3>3, Zenon DEF Owed
    <2>3. EveryOpenIsOwned
      <3>. SUFFICES ASSUME NEW d \in Doc, Settled, wire[d] # Closed, transition[d] = NoTask
                    PROVE  Owed(d) \/ (d \in openedOn /\ registered[d] = generation)
        BY DEF EveryOpenIsOwned
      <3>1. CASE OwedNow(d)
        BY <2>2, <3>1
      <3>2. CASE ~OwedNow(d)
        <4>1. registered[d] = generation /\ (d \in openedOn \/ claims[d] \in promoting)
          BY <2>1, <3>2 DEF Ledger
        <4>2. claims[d] \notin promoting
          <5>. SUFFICES ASSUME claims[d] \in promoting PROVE FALSE
            OBVIOUS
          <5>1. claims[d] \in Task /\ claims[d] # NoTask
            BY Kinds DEF IInv, TypeOK, PoolOK, Task
          <5>2. at[claims[d]].doc = d
            BY <2>1, <5>1 DEF Holders
          <5>3. transition[d] = claims[d]
            BY <5>1, <5>2 DEF IInv, Tasks, TaskOK, Promoting
          <5>. QED  BY <5>1, <5>3
        <4>. QED  BY <4>1, <4>2
      <3>. QED  BY <3>1, <3>2
    <2>4. OpenedIsOpen
      BY <2>1 DEF OpenedIsOpen, Ledger
    <2>. QED  BY <2>3, <2>4 DEF TrackerAgrees
  <1>. QED  BY <1>1, Inductive, PTL

(* No version entry is left behind by an open that failed: a document that *)
(* is neither open nor claimed has none, unless its close is in flight.    *)
THEOREM OpensAgain == Spec => []NeverWedged
  <1>1. IInv => NeverWedged
    <2>. SUFFICES ASSUME IInv, NEW d \in Doc, Settled, versions[d] # 0, d \notin openedOn, claims[d] = NoTask
                  PROVE  Owed(d)
      BY DEF NeverWedged
    <2>1. Intact
      BY DEF Settled, Intact, NoPurge
    <2>2. OwedNow(d)
      BY <2>1 DEF IInv, Ledgers, Ledger
    <2>3. PICK c \in Closer : Owes(c, d)
      BY <2>2, Zenon DEF OwedNow
    <2>4. at[c].pc # "purging"
      <3>1. at[c].pc = "purging" => connections = c
        BY CloserFacts DEF Pins
      <3>. QED  BY <3>1, Kinds DEF Settled, IInv, Global, NoPurge, Task
    <2>5. at[c].pc \in {"closing", "close", "invalidate"} /\ d \in at[c].left
      BY <2>3, <2>4 DEF Owes, Owing
    <2>. QED  BY <2>5, Zenon DEF Owed
  <1>. QED  BY <1>1, Inductive, PTL

-----------------------------------------------------------------------------
(* The frames are a TextSync                                               *)

Synced == [Server!Next]_wire

LEMMA Opens ==
  ASSUME NEW d \in Doc, wire[d] = Closed, NEW t \in Text, wire' = [wire EXCEPT ![d] = [version |-> 1, text |-> t]]
  PROVE  Synced
  BY DEF Synced, Server!Next, Server!DidOpen, Server!Closed, Closed

LEMMA Changes ==
  ASSUME NEW d \in Doc, wire[d] # Closed, NEW t \in Text, NEW v \in 1..MaxVersion, v > wire[d].version,
         wire' = [wire EXCEPT ![d] = [version |-> v, text |-> t]]
  PROVE  Synced
  <1>1. Server!DidChange(d)
    BY DEF Server!DidChange, Server!Closed, Server!Version, Closed
  <1>. QED  BY <1>1, Zenon DEF Synced, Server!Next

LEMMA Shuts ==
  ASSUME NEW d \in Doc, wire' = [wire EXCEPT ![d] = Closed]
  PROVE  Synced
  BY DEF Synced, Server!Next, Server!DidClose, Server!Closed, Closed

LEMMA Restarts ==
  ASSUME wire' = [d \in Doc |-> Closed]
  PROVE  Synced
  BY DEF Synced, Server!Next, Server!Restart, Server!Closed, Closed

LEMMA SendOpenSyncs ==
  ASSUME IInv, NEW o \in Opener, SendOpen(o)
  PROVE  Synced
  <1>d. PICK d \in Doc : d = at[o].doc
    BY DEF IInv, TypeOK, TasksOK, TaskState, Task
  <1>0. at[o].proc = handle.proc /\ wire[d] = Closed /\ OpenText(o, d) \in Text
    BY <1>d, SendOpenFacts
  <1>t. PICK t \in Text : t = OpenText(o, d)
    BY <1>0
  <1>1. CASE Queued(at[o].proc, d, Open(t))
    <2>1. wire' = [wire EXCEPT ![d] = Receive(wire[d], Open(t))]
      BY <1>0, <1>1, Zenon DEF Queued
    <2>2. wire' = [wire EXCEPT ![d] = [version |-> 1, text |-> t]]
      BY <1>0, <2>1, ReceiveOpen
    <2>. QED  BY <1>0, <2>2, Opens
  <1>2. CASE Dropped
    BY <1>2 DEF Dropped, Synced
  <1>. QED  BY <1>d, <1>t, <1>1, <1>2, Zenon DEF SendOpen

LEMMA AlreadyOpenSyncs ==
  ASSUME IInv, NEW o \in Opener, AlreadyOpen(o)
  PROVE  Synced
  <1>d. PICK d \in Doc : d = at[o].doc
    BY DEF IInv, TypeOK, TasksOK, TaskState, Task
  <1>0. TypeOK /\ at[o].pc = "locking" /\ connections = o /\ d \in openedOn /\ DocOK(d)
        /\ at[o].proc = handle.proc /\ at[o].text \in [Doc -> Text]
    BY <1>d DEF AlreadyOpen, IInv, Task, Tasks, TaskOK, Pins, Texts, Claiming, Docs
  <1>p. PICK v \in Nat, t \in Text : v = NextVersion(d, at[o].text[d]) /\ t = at[o].text[d] /\ (v = 0 \/ v = versions[d] + 1)
    BY <1>0 DEF NextVersion, TypeOK, TrackerOK
  <1>1. Ledger(d) /\ wire[d] \notin {Closed, Misordered}
    <2>1. Intact
      BY <1>0, Pinned DEF Task
    <2>. QED  BY <1>0, <2>1 DEF IInv, Ledgers, Ledger, DocOK
  <1>2. v <= MaxVersion /\ (wire' = wire \/ (v # 0 /\ (Queued(at[o].proc, d, Change(v, t)) \/ Dropped)))
    <2>1. CASE o \notin Repair \/ NextVersion(d, at[o].text[d]) = 0
      BY <1>d, <1>p, <2>1 DEF AlreadyOpen
    <2>2. CASE ~(o \notin Repair \/ NextVersion(d, t) = 0)
      <3>1. Queued(at[o].proc, d, Change(v, t)) \/ Dropped
        BY <1>d, <1>p, <2>2, Zenon DEF AlreadyOpen
      <3>. QED  BY <1>d, <1>p, <2>2, <3>1 DEF AlreadyOpen
    <2>. QED  BY <1>p, <2>1, <2>2
  <1>3. CASE v # 0 /\ Queued(at[o].proc, d, Change(v, t))
    <2>1. wire' = [wire EXCEPT ![d] = Receive(wire[d], Change(v, t))]
      BY <1>0, <1>3, Zenon DEF Queued
    <2>2. v \in 1..MaxVersion /\ v > wire[d].version
      BY <1>0, <1>1, <1>2, <1>3, <1>p DEF Ledger, TypeOK, PoolOK, TrackerOK, Frames, Closed, Misordered
    <2>3. wire' = [wire EXCEPT ![d] = [version |-> v, text |-> t]]
      BY <1>1, <2>1, <2>2, ReceiveChange
    <2>. QED  BY <1>1, <2>2, <2>3, Changes
  <1>. QED  BY <1>2, <1>3 DEF Synced, Dropped

LEMMA SendChangeSyncs ==
  ASSUME IInv, NEW p \in Closer, SendChange(p)
  PROVE  Synced
  <1>d. PICK d \in Doc : d = at[p].doc
    BY CloserFacts
  <1>0. /\ DocOK(d) /\ at[p].pc = "send" /\ at[p].text \in [Doc -> Text] /\ at[p].ver \in 1..MaxVersion
        /\ at[p].proc = handle.proc => wire[d] # Closed /\ wire[d].version < at[p].ver
    BY <1>d, CloserFacts DEF SendChange, TaskOK, Texts, Sending, IInv, Docs
  <1>p. PICK v \in 1..MaxVersion, t \in Text : v = at[p].ver /\ t = at[p].text[d]
    BY <1>0
  <1>1. Queued(at[p].proc, d, Change(v, t)) \/ Dropped
    BY <1>d, <1>p, Zenon DEF SendChange
  <1>2. CASE Queued(at[p].proc, d, Change(v, t)) /\ at[p].proc = handle.proc
    <2>1. wire' = [wire EXCEPT ![d] = Receive(wire[d], Change(v, t))]
      BY <1>2, Zenon DEF Queued
    <2>2. v > wire[d].version /\ wire[d] \notin {Closed, Misordered}
      BY <1>0, <1>2, <1>p DEF DocOK, IInv, TypeOK, PoolOK, Frames, Closed, Misordered
    <2>3. wire' = [wire EXCEPT ![d] = [version |-> v, text |-> t]]
      BY <2>1, <2>2, ReceiveChange
    <2>. QED  BY <2>2, <2>3, Changes
  <1>. QED  BY <1>1, <1>2 DEF Synced, Dropped, Queued

LEMMA CloseDocumentSyncs ==
  ASSUME IInv, NEW c \in Closer, CloseDocument(c)
  PROVE  Synced
  <1>d. PICK d \in Doc : d = at[c].doc
    BY CloserFacts
  <1>1. UNCHANGED wire \/ Queued(at[c].proc, d, Close)
    BY <1>d, Zenon DEF CloseDocument, Dropped
  <1>2. CASE Queued(at[c].proc, d, Close) /\ at[c].proc = handle.proc
    <2>1. wire' = [wire EXCEPT ![d] = Receive(wire[d], Close)]
      BY <1>2, Zenon DEF Queued
    <2>2. Receive(wire[d], Close) = Closed
      BY ReceiveClose DEF IInv, Docs, DocOK
    <2>. QED  BY <2>1, <2>2, Shuts
  <1>. QED  BY <1>1, <1>2 DEF Synced, Queued

LEMMA OpenersSync ==
  ASSUME IInv, NEW o \in Opener, OpenerSteps(o)
  PROVE  Synced
  <1>1. CASE Fetch(o) \/ BeginRepair(o) \/ RepairNext(o) \/ Enter(o) \/ CheckLive(o)
    BY <1>1 DEF Fetch, BeginRepair, RepairNext, Enter, CheckLive, Synced
  <1>2. CASE TakeClaim(o) \/ Unsettled(o) \/ Promote(o) \/ RecordOpen(o) \/ Abort(o) \/ CleanUp(o)
    BY <1>2 DEF TakeClaim, Unsettled, Promote, RecordOpen, Abort, CleanUp, Synced
  <1>3. CASE AlreadyOpen(o) \/ SendOpen(o)
    BY <1>3, AlreadyOpenSyncs, SendOpenSyncs
  <1>4. CASE \E d \in Doc : Ask(o, d)
    BY <1>4 DEF Ask, Synced
  <1>. QED  BY <1>1, <1>2, <1>3, <1>4 DEF OpenerSteps

LEMMA ClosersSync ==
  ASSUME IInv, NEW c \in Closer, CloserSteps(c)
  PROVE  Synced
  <1>1. CASE \E S \in SUBSET Doc, why \in {"deselected", "replaced", "invalidated"} : BeginPass(c, S, why)
    BY <1>1 DEF BeginPass, Synced
  <1>2. CASE BeginClose(c) \/ EndLifetime(c) \/ TakeAll(c) \/ FetchForClose(c) \/ Invalidate(c)
    BY <1>2 DEF BeginClose, EndLifetime, TakeAll, FetchForClose, Invalidate, Synced
  <1>3. CASE BeginForward(c) \/ RecordLatest(c) \/ ListConnections(c) \/ PinHandle(c) \/ PrepareChange(c)
    BY <1>3 DEF BeginForward, RecordLatest, ListConnections, PinHandle, PrepareChange, Synced
  <1>4. CASE CloseDocument(c) \/ SendChange(c)
    BY <1>4, CloseDocumentSyncs, SendChangeSyncs
  <1>5. CASE RecordChange(c) \/ EndClose(c) \/ \E e \in Eager : EndPass(c, e)
    BY <1>5 DEF RecordChange, EndClose, EndPass, Synced
  <1>. QED  BY <1>1, <1>2, <1>3, <1>4, <1>5 DEF CloserSteps

LEMMA NextSyncs == IInv /\ [Next]_vars => [Server!Next]_wire
  <1>. SUFFICES ASSUME IInv, [Next]_vars PROVE Synced
    BY DEF Synced
  <1>1. CASE \E o \in Opener : OpenerSteps(o)
    BY <1>1, OpenersSync
  <1>2. CASE \E c \in Closer : CloserSteps(c)
    BY <1>2, ClosersSync
  <1>3. CASE PoolSteps
    <2>1. CASE PurgeEnds \/ SpawnFirst
      BY <2>1, Restarts DEF PurgeEnds, SpawnFirst, Synced
    <2>2. CASE Crash \/ Handshake \/ Replace \/ PurgeVersions \/ PurgeIndex \/ PurgeRest \/ AbortReplace
               \/ \E d \in Doc : PurgeWaits(d)
      BY <2>2 DEF Crash, Handshake, Replace, PurgeVersions, PurgeIndex, PurgeRest, AbortReplace, PurgeWaits, Synced
    <2>. QED  BY <1>3, <2>1, <2>2 DEF PoolSteps
  <1>4. CASE Edit \/ Reopen \/ Over \/ UNCHANGED vars
    BY <1>4 DEF Edit, Reopen, Over, vars, Synced
  <1>. QED  BY <1>1, <1>2, <1>3, <1>4 DEF Next

(* No process is ever sent a didOpen of a document it holds open, a        *)
(* didChange of one it does not, or a version that does not grow, whoever  *)
(* sent the frames and however often the process was replaced between      *)
(* them.                                                                   *)
THEOREM SyncRefined == Spec => ImplementsTextSync
  <1>1. Init => Server!Init
    BY DEF Init, Server!Init, Server!Closed, Closed
  <1>. QED  BY <1>1, NextSyncs, Inductive, PTL DEF Spec, ImplementsTextSync, Server!Spec

-----------------------------------------------------------------------------
(* The texts                                                               *)

(* No opener is aborted after its didOpen and before it has recorded what  *)
(* it sent, unless the fingerprint it finds is of that text or gone.       *)
FreshAborts ==
  \A o \in Opener : Abort(o) /\ at[o].pc = "sent" =>
    fingerprints[at[o].doc] \in {NoText, at[o].text[at[o].doc]}

Agrees(d, t) == wire[d] = Closed \/ wire[d].text = t

Forwards == {"list", "acquire", "pinned", "send", "record"}

(* A pass or close has the host's edit lock from its first step to its     *)
(* last.                                                                   *)
Editing(c) == at[c].pc \notin {"idle", "done"} => editLock = c

(* What a pass forwards is what was recorded, and nothing counts as        *)
(* delivered until it is.                                                  *)
Forwarding(p) ==
  /\ at[p].pc \in Forwards => latest[at[p].doc] = at[p].text[at[p].doc] /\ delivered[at[p].doc] = NoText
  /\ at[p].pc \in {"send", "record"} => at[p].proc = handle.proc
  /\ at[p].pc = "record" => Agrees(at[p].doc, at[p].text[at[p].doc])

(* Nobody sends a change before an opener has recorded what it sent.       *)
Sent(o) ==
  at[o].pc = "sent" =>
    /\ transition[at[o].doc] \in {o, NoTask}
    /\ Agrees(at[o].doc, at[o].text[at[o].doc])
    /\ o \notin promoting => at[o].ok

Recording(d) == \E t \in Task : at[t].pc \in {"sent", "record"} /\ at[t].doc = d

(* A fingerprint is of the text the process has, unless whoever sent it    *)
(* another is about to record that.                                        *)
Printed(d) == fingerprints[d] # NoText /\ ~Recording(d) => Agrees(d, fingerprints[d])

(* What counts as delivered is what the next open sends, and what the      *)
(* process has.                                                            *)
Converged(d) ==
  /\ delivered[d] # NoText => delivered[d] = latest[d]
  /\ delivered[d] # NoText /\ Intact => Agrees(d, delivered[d])

ContentInv ==
  /\ \A c \in Closer : Editing(c) /\ Forwarding(c)
  /\ \A o \in Opener : Sent(o)
  /\ \A d \in Doc : Printed(d) /\ Converged(d)

(* What the tasks in M, which move, may do to the others.                  *)
Steady(M) ==
  /\ \A u \in Task \ M : at'[u] = at[u]
  /\ editLock' = editLock \/ editLock \in M \cup {NoTask}
  /\ latest' = latest \/ editLock \in M \cup {NoTask}
  /\ (\A d \in Doc : delivered'[d] \in {delivered[d], NoText}) \/ editLock \in M
  /\ promoting \subseteq promoting' \cup M
  /\ handle'.proc = handle.proc \/ \A d \in Doc : transition[d] = NoTask
  /\ \A d \in Doc : transition'[d] \in {transition[d], NoTask} \/ connections \in M
  /\ \A d \in Doc : \/ wire'[d] \in {wire[d], Closed}
                    \/ transition[d] \in M
                    \/ transition[d] = NoTask /\ connections \in M

LEMMA OtherCloser ==
  ASSUME IInv, ContentInv, NEW M \in SUBSET Task, Steady(M), NEW c \in Closer \ M
  PROVE  Editing(c)' /\ Forwarding(c)'
  <1>1. Editing(c) /\ Forwarding(c) /\ at'[c] = at[c] /\ c \in Task /\ c # NoTask /\ at[c].doc \in Doc
        /\ (at[c].pc \in {"send", "record"} => transition[at[c].doc] = c)
    BY CloserFacts DEF ContentInv, Steady, TaskOK, Sending
  <1>2. Editing(c)'
    BY <1>1 DEF Editing, Steady
  <1>d. PICK d, t, pc, p : /\ d \in Doc /\ d = at[c].doc /\ t = at[c].text[d] /\ pc = at[c].pc /\ p = at[c].proc
                           /\ d = at'[c].doc /\ t = at'[c].text[d] /\ pc = at'[c].pc /\ p = at'[c].proc
    BY <1>1
  <1>3. ASSUME pc \in Forwards
        PROVE  latest'[d] = t /\ delivered'[d] = NoText
    BY <1>1, <1>d, <1>3 DEF Editing, Forwarding, Forwards, Steady
  <1>4. ASSUME pc \in {"send", "record"}
        PROVE  p = handle'.proc
    BY <1>1, <1>d, <1>4, Kinds DEF Steady, Forwarding
  <1>5. ASSUME pc = "record"
        PROVE  wire'[d] = Closed \/ wire'[d].text = t
    <2>1. wire'[d] \in {wire[d], Closed}
      BY <1>1, <1>d, <1>5, Kinds DEF Steady
    <2>2. Agrees(d, t)
      BY <1>1, <1>d, <1>5 DEF Forwarding
    <2>. QED  BY <2>1, <2>2 DEF Agrees
  <1>6. Forwarding(c)'
    <2>1. at'[c].pc \in Forwards => latest'[at'[c].doc] = at'[c].text[at'[c].doc] /\ delivered'[at'[c].doc] = NoText
      BY <1>d, <1>3
    <2>2. at'[c].pc \in {"send", "record"} => at'[c].proc = handle'.proc
      BY <1>d, <1>4
    <2>3. at'[c].pc = "record" => (wire'[at'[c].doc] = Closed \/ wire'[at'[c].doc].text = at'[c].text[at'[c].doc])
      BY <1>d, <1>5
    <2>. QED  BY <2>1, <2>2, <2>3 DEF Forwarding, Agrees
  <1>. QED  BY <1>2, <1>6

LEMMA OtherOpener ==
  ASSUME IInv, ContentInv, NEW M \in SUBSET Task, Steady(M), NEW o \in Opener \ M
  PROVE  Sent(o)'
  <1>1. Sent(o) /\ at'[o] = at[o] /\ o \in Task /\ at[o].doc \in Doc
        /\ (at[o].pc = "sent" => connections = o)
    BY DEF ContentInv, Steady, Task, IInv, TypeOK, TasksOK, TaskState, Tasks, TaskOK, Pins
  <1>. SUFFICES ASSUME at[o].pc = "sent"
                PROVE  /\ transition'[at[o].doc] \in {o, NoTask}
                       /\ Agrees(at[o].doc, at[o].text[at[o].doc])'
                       /\ o \notin promoting' => at[o].ok
    BY <1>1 DEF Sent
  <1>2. transition[at[o].doc] \in {o, NoTask} /\ Agrees(at[o].doc, at[o].text[at[o].doc]) /\ (o \notin promoting => at[o].ok)
    BY <1>1, Zenon DEF Sent
  <1>3. connections \notin M /\ transition[at[o].doc] \notin M
    BY <1>1, <1>2, Kinds
  <1>4. transition'[at[o].doc] \in {transition[at[o].doc], NoTask} /\ wire'[at[o].doc] \in {wire[at[o].doc], Closed}
    BY <1>1, <1>3 DEF Steady
  <1>5. promoting \subseteq promoting' \cup M
    BY DEF Steady
  <1>. QED  BY <1>1, <1>2, <1>4, <1>5, Zenon DEF Agrees

LEMMA Joined ==
  ASSUME IInv, ContentInv, NEW M \in SUBSET Task, Steady(M),
         \A c \in Closer \cap M : Editing(c)' /\ Forwarding(c)',
         \A o \in Opener \cap M : Sent(o)',
         \A d \in Doc : Printed(d)' /\ Converged(d)'
  PROVE  ContentInv'
  <1>1. ASSUME NEW c \in Closer PROVE Editing(c)' /\ Forwarding(c)'
    BY OtherCloser
  <1>2. ASSUME NEW o \in Opener PROVE Sent(o)'
    BY OtherOpener
  <1>. QED  BY <1>1, <1>2 DEF ContentInv

(* Whoever was recording and has not moved still is.                       *)
LEMMA StillRecords ==
  ASSUME NEW M, NEW d \in Doc, \A u \in Task \ M : at'[u] = at[u],
         \A u \in M : at[u].pc \notin {"sent", "record"} \/ at[u].doc # d, Recording(d)
  PROVE  Recording(d)'
  BY DEF Recording

LEMMA StillPrinted ==
  ASSUME ContentInv, NEW d \in Doc, Recording(d) => Recording(d)',
         fingerprints'[d] \in {fingerprints[d], NoText}, wire'[d] \in {wire[d], Closed}
  PROVE  Printed(d)'
  BY DEF ContentInv, Printed, Agrees

LEMMA StillConverged ==
  ASSUME ContentInv, NEW d \in Doc, latest'[d] = latest[d], delivered'[d] \in {delivered[d], NoText},
         wire'[d] \in {wire[d], Closed}, (Intact' => Intact) \/ wire'[d] = Closed
  PROVE  Converged(d)'
  BY DEF ContentInv, Converged, Agrees

(* The tasks in M move, and the texts stay.                                *)
Mild(M) ==
  /\ \A u \in Task \ M : at'[u] = at[u]
  /\ \A u \in M : /\ at[u].pc \notin {"sent", "record"} /\ at'[u].pc \notin {"sent"} \cup Forwards
                  /\ u \in Closer => \/ at'[u].pc = "done" \/ editLock' = u
                                     \/ editLock' = editLock /\ at[u].pc \notin {"idle", "done"}
  /\ editLock' = editLock \/ editLock \in M \cup {NoTask}
  /\ latest' = latest /\ delivered' = delivered /\ promoting' = promoting
  /\ handle'.proc = handle.proc \/ \A d \in Doc : transition[d] = NoTask
  /\ \A d \in Doc : /\ transition'[d] \in {transition[d], NoTask} \/ connections \in M
                    /\ fingerprints'[d] \in {fingerprints[d], NoText}
                    /\ wire'[d] \in {wire[d], Closed}
                    /\ (Intact' => Intact) \/ wire'[d] = Closed

LEMMA MildKeeps ==
  ASSUME IInv, ContentInv, NEW M \in SUBSET Task, Mild(M)
  PROVE  ContentInv'
  <1>1. Steady(M)
    BY DEF Mild, Steady
  <1>2. ASSUME NEW c \in Closer \cap M PROVE Editing(c)' /\ Forwarding(c)'
    <2>1. Editing(c)
      BY DEF ContentInv
    <2>. QED  BY <2>1 DEF Mild, Editing, Forwarding, Forwards
  <1>3. ASSUME NEW o \in Opener \cap M PROVE Sent(o)'
    BY DEF Mild, Sent
  <1>4. ASSUME NEW d \in Doc PROVE Printed(d)' /\ Converged(d)'
    <2>1. Recording(d) => Recording(d)'
      BY StillRecords DEF Mild
    <2>. QED  BY <2>1, StillPrinted, StillConverged DEF Mild
  <1>. QED  BY <1>1, <1>2, <1>3, <1>4, Joined

-----------------------------------------------------------------------------
(* Openers                                                                 *)

LEMMA OpenerMild ==
  ASSUME IInv, IInv', ContentInv, NEW o \in Opener, Rests(o), at[o].pc # "sent", at'[o].pc # "sent",
         editLock' = editLock \/ editLock \in {o, NoTask},
         UNCHANGED <<latest, delivered, promoting, handle, purge, wire>>,
         connections' \in {connections, NoTask} \/ handle.state = "ready",
         \A d \in Doc : /\ fingerprints'[d] \in {fingerprints[d], NoText}
                        /\ transition'[d] \in {transition[d], NoTask} \/ connections = o
  PROVE  ContentInv'
  <1>1. o \in Task /\ o \notin Closer /\ at[o].pc \in OpenerPc /\ at'[o].pc \in OpenerPc
    BY Kinds DEF IInv, TypeOK, TasksOK, Task
  <1>2. Intact' => Intact
    BY DEF Intact
  <1>3. Mild({o})
    BY <1>1, <1>2 DEF Mild, Rests, OpenerPc, Forwards
  <1>. QED  BY <1>1, <1>3, MildKeeps

LEMMA NextDocumentLock ==
  ASSUME NEW o, NEW go, NextDocument(o, go)
  PROVE  /\ editLock' = (IF editLock = o THEN NoTask ELSE editLock)
         /\ connections' = (IF connections = o THEN NoTask ELSE connections)
  BY DEF NextDocument, Released

LEMMA OpenerLeaves ==
  ASSUME IInv, IInv', ContentInv, NEW o \in Opener, NEW go \in BOOLEAN, NextDocument(o, go), at[o].pc # "sent",
         UNCHANGED <<latest, delivered, promoting, handle, purge, wire>>,
         \A d \in Doc : /\ fingerprints'[d] \in {fingerprints[d], NoText}
                        /\ transition'[d] \in {transition[d], NoTask} \/ connections = o
  PROVE  ContentInv'
  <1>1. Rests(o) /\ at'[o].pc # "sent"
    BY NextDocumentEffect DEF IInv
  <1>. QED  BY <1>1, NextDocumentLock, OpenerMild

(* Where a step takes a task that it gives a new record.                   *)
LEMMA GoesTo ==
  ASSUME TasksOK, NEW t \in Task, NEW r, at' = [at EXCEPT ![t] = r]
  PROVE  at'[t] = r /\ Rests(t)
  BY DEF TasksOK, Rests

LEMMA Asks ==
  ASSUME IInv, NEW o \in Opener, (\E d \in Doc : Ask(o, d)) \/ Fetch(o) \/ BeginRepair(o)
  PROVE  Rests(o) /\ at'[o].pc \in {"asked", "spawned"}
  <1>0. TasksOK /\ o \in Task /\ at[o] \in TaskState
    BY DEF IInv, TypeOK, TasksOK, Task
  <1>1. CASE \E d \in Doc : Ask(o, d)
    <2>1. PICK d \in Doc : Ask(o, d)
      BY <1>1
    <2>2. PICK x, p, l : x = host.text /\ p = handle.proc /\ l = {d}
      OBVIOUS
    <2>3. at' = [at EXCEPT ![o] = [at[o] EXCEPT !.pc = "asked", !.doc = d, !.left = l, !.text = x, !.proc = p]]
      BY <2>1, <2>2, Zenon DEF Ask
    <2>4. [at[o] EXCEPT !.pc = "asked", !.doc = d, !.left = l, !.text = x, !.proc = p].pc = "asked"
      BY <1>0 DEF TaskState
    <2>. QED  BY <1>0, <2>3, <2>4, GoesTo
  <1>2. CASE Fetch(o)
    <2>1. PICK d, p : at' = [at EXCEPT ![o] = [at[o] EXCEPT !.pc = "asked", !.doc = d, !.proc = p]]
      BY <1>2, Zenon DEF Fetch
    <2>2. [at[o] EXCEPT !.pc = "asked", !.doc = d, !.proc = p].pc = "asked"
      BY <1>0 DEF TaskState
    <2>. QED  BY <1>0, <2>1, <2>2, GoesTo
  <1>3. CASE BeginRepair(o)
    <2>1. PICK x, p, i, v : x = host.text /\ p = handle.proc /\ i = host.incarnation /\ v = host.edits
      OBVIOUS
    <2>2. at' = [at EXCEPT ![o] = [at[o] EXCEPT !.pc = "spawned", !.left = Doc, !.text = x, !.proc = p, !.inc = i, !.ver = v]]
      BY <1>3, <2>1, Zenon DEF BeginRepair
    <2>3. [at[o] EXCEPT !.pc = "spawned", !.left = Doc, !.text = x, !.proc = p, !.inc = i, !.ver = v].pc = "spawned"
      BY <1>0 DEF TaskState
    <2>. QED  BY <1>0, <2>2, <2>3, GoesTo
  <1>. QED  BY <1>1, <1>2, <1>3

LEMMA OpenersAsk ==
  ASSUME IInv, IInv', ContentInv, NEW o \in Opener,
         (\E d \in Doc : Ask(o, d)) \/ Fetch(o) \/ BeginRepair(o) \/ RepairNext(o) \/ Enter(o) \/ CheckLive(o)
  PROVE  ContentInv'
  <1>0. TasksOK /\ o \in Task /\ at[o] \in TaskState
    BY DEF IInv, TypeOK, TasksOK, Task
  <1>1. CASE (\E d \in Doc : Ask(o, d)) \/ Fetch(o) \/ BeginRepair(o)
    <2>1. Rests(o) /\ at'[o].pc # "sent"
      BY <1>1, Asks
    <2>2. at[o].pc # "sent" /\ UNCHANGED <<handle, tracker, locks, latest, purge, wire, delivered, promoting>>
      BY <1>1 DEF Ask, Fetch, BeginRepair, side
    <2>. QED  BY <2>1, <2>2, OpenerMild DEF tracker, locks
  <1>2. CASE RepairNext(o)
    <2>1. Rests(o) /\ at'[o].pc # "sent"
      <3>1. CASE at' = [at EXCEPT ![o] = Gone]
        BY <1>0, <3>1, Leaves
      <3>2. CASE \E d \in at[o].left : at' = [at EXCEPT ![o] = [at[o] EXCEPT !.pc = "asked", !.doc = d]]
        <4>1. PICK d \in at[o].left : at' = [at EXCEPT ![o] = [at[o] EXCEPT !.pc = "asked", !.doc = d]]
          BY <3>2, Zenon
        <4>2. [at[o] EXCEPT !.pc = "asked", !.doc = d].pc = "asked"
          BY <1>0 DEF TaskState
        <4>. QED  BY <1>0, <4>1, <4>2, GoesTo
      <3>. QED  BY <1>2, <3>1, <3>2, Zenon DEF RepairNext
    <2>2. at[o].pc # "sent" /\ UNCHANGED <<handle, tracker, connections, transition, latest, purge, wire, delivered, promoting>>
          /\ (editLock' = editLock \/ editLock = NoTask)
      BY <1>2 DEF RepairNext, side
    <2>. QED  BY <2>1, <2>2, OpenerMild DEF tracker
  <1>3. CASE Enter(o)
    <2>1. Rests(o) /\ at'[o].pc # "sent"
      <3>1. CASE at' = [at EXCEPT ![o] = Gone]
        BY <1>0, <3>1, Leaves
      <3>2. CASE Goto(o, "entered")
        BY <1>0, <3>2, Goes DEF PcOf, OpenerPc
      <3>. QED  BY <1>3, <3>1, <3>2, Zenon DEF Enter
    <2>2. at[o].pc # "sent" /\ UNCHANGED <<handle, tracker, connections, transition, latest, purge, wire, delivered, promoting>>
          /\ (editLock' = editLock \/ editLock = o)
      BY <1>3 DEF Enter, side
    <2>. QED  BY <2>1, <2>2, OpenerMild DEF tracker
  <1>4. CASE CheckLive(o)
    <2>1. at[o].pc # "sent" /\ UNCHANGED <<handle, tracker, transition, latest, purge, wire, delivered, promoting>>
      BY <1>4 DEF CheckLive, side
    <2>2. CASE handle.proc = at[o].proc /\ handle.state = "ready"
      <3>1. at' = [at EXCEPT ![o] = [at[o] EXCEPT !.pc = "locking", !.gen = generation]] /\ editLock' = editLock
        BY <1>4, <2>2, Zenon DEF CheckLive
      <3>2. [at[o] EXCEPT !.pc = "locking", !.gen = generation].pc = "locking"
        BY <1>0 DEF TaskState
      <3>3. Rests(o) /\ at'[o].pc # "sent"
        BY <1>0, <3>1, <3>2, GoesTo
      <3>. QED  BY <2>1, <2>2, <3>1, <3>3, OpenerMild DEF tracker
    <2>3. CASE ~(handle.proc = at[o].proc /\ handle.state = "ready")
      <3>1. NextDocument(o, FALSE)
        BY <1>4, <2>3, Zenon DEF CheckLive
      <3>. QED  BY <2>1, <3>1, OpenerLeaves DEF tracker
    <2>. QED  BY <2>2, <2>3
  <1>. QED  BY <1>1, <1>2, <1>3, <1>4

LEMMA RollbackPrints ==
  ASSUME TrackerOK, NEW o, NEW d \in Doc, Rollback(o, d)
  PROVE  \A e \in Doc : fingerprints'[e] \in {fingerprints[e], NoText}
  BY DEF Rollback, TrackerOK, tracker

LEMMA OpenersWait ==
  ASSUME IInv, IInv', ContentInv, NEW o \in Opener, TakeClaim(o) \/ Unsettled(o) \/ CleanUp(o)
  PROVE  ContentInv'
  <1>0. TypeOK /\ TasksOK /\ TrackerOK /\ LocksOK /\ o \in Task /\ at[o].doc \in Doc
    BY DEF IInv, TypeOK, TasksOK, TaskState, Task
  <1>1. CASE TakeClaim(o)
    <2>1. Rests(o) /\ at'[o].pc = "claimed"
      BY <1>0, <1>1, Goes DEF TakeClaim, PcOf, OpenerPc
    <2>2. connections = o /\ at[o].pc = "locking"
      BY <1>0, <1>1 DEF TakeClaim, IInv, Tasks, TaskOK, Pins
    <2>3. \A e \in Doc : fingerprints'[e] \in {fingerprints[e], NoText}
      BY <1>0, <1>1 DEF TakeClaim, TrackerOK
    <2>. QED  BY <1>1, <2>1, <2>2, <2>3, OpenerMild DEF TakeClaim, side
  <1>2. CASE Unsettled(o)
    BY <1>2, OpenerLeaves DEF Unsettled, tracker, side
  <1>3. CASE CleanUp(o)
    <2>1. Rests(o) /\ at'[o].pc = "done"
      BY <1>0, <1>3, Leaves DEF CleanUp
    <2>2. at[o].pc = "done"
      BY <1>0, <1>3 DEF CleanUp, IInv, Tasks, TaskOK
    <2>3. \A e \in Doc : fingerprints'[e] \in {fingerprints[e], NoText}
      BY <1>0, <1>3, RollbackPrints DEF CleanUp
    <2>. QED  BY <1>3, <2>1, <2>2, <2>3, OpenerMild DEF CleanUp, locks
  <1>. QED  BY <1>1, <1>2, <1>3

-----------------------------------------------------------------------------
(* Openers at work                                                         *)

(* o works on d, and leaves the other documents.                           *)
LEMMA OpenerWorks ==
  ASSUME IInv, ContentInv, NEW o \in Opener, NEW d \in Doc, at[o].doc = d, Rests(o),
         editLock' = editLock \/ editLock \in {o, NoTask}, UNCHANGED <<latest, handle, purge>>,
         connections' \in {connections, NoTask}, promoting \subseteq promoting' \cup {o},
         \A e \in Doc : delivered'[e] \in {delivered[e], NoText} /\ transition'[e] \in {transition[e], NoTask},
         \A e \in Doc \ {d} : wire'[e] = wire[e] /\ fingerprints'[e] = fingerprints[e],
         wire'[d] = wire[d] \/ transition[d] = o \/ (transition[d] = NoTask /\ connections = o),
         Sent(o)', Printed(d)', Converged(d)'
  PROVE  ContentInv'
  <1>1. o \in Task /\ {o} \cap Closer = {}
    BY Kinds DEF Task
  <1>2. Steady({o})
    BY DEF Steady, Rests
  <1>3. ASSUME NEW e \in Doc \ {d} PROVE Printed(e)' /\ Converged(e)'
    <2>1. Recording(e) => Recording(e)'
      BY DEF Recording, Rests
    <2>2. Intact' => Intact
      BY DEF Intact
    <2>. QED  BY <2>1, <2>2, StillPrinted, StillConverged
  <1>. QED  BY <1>1, <1>2, <1>3, Joined

LEMMA AlreadyOpenConverges ==
  ASSUME IInv, IInv', ContentInv, NEW o \in Opener, AlreadyOpen(o)
  PROVE  ContentInv'
  <1>d. PICK d \in Doc : d = at[o].doc
    BY DEF IInv, TypeOK, TasksOK, TaskState, Task
  <1>0. TypeOK /\ TrackerOK /\ PoolOK /\ HostOK /\ o \in Task /\ o # NoTask /\ at[o].pc = "locking"
        /\ DocOK(d) /\ transition[d] = NoTask /\ connections = o
        /\ d \in openedOn /\ at[o].proc = handle.proc /\ at[o].text \in [Doc -> Text]
    BY <1>d, Kinds DEF IInv, Task, Tasks, TaskOK, Pins, AlreadyOpen, TypeOK, Docs, Claiming, Texts
  <1>p. PICK v \in Nat, t \in Text : v = NextVersion(d, at[o].text[d]) /\ t = at[o].text[d] /\ (v = 0 \/ v = versions[d] + 1)
    BY <1>0 DEF NextVersion, TrackerOK
  <1>1. Intact
    BY <1>0, Pinned
  <1>2. Ledger(d) /\ wire[d] \notin {Closed, Misordered}
    BY <1>0, <1>1 DEF IInv, Ledgers, Ledger, DocOK
  <1>3. UNCHANGED <<handle, transition, latest, host, side, purge>> /\ NextDocument(o, TRUE) /\ v <= MaxVersion
    BY <1>d, <1>p DEF AlreadyOpen
  <1>4. CASE o \notin Repair \/ v = 0
    <2>1. UNCHANGED <<tracker, wire, delivered, faults>>
      BY <1>d, <1>p, <1>4 DEF AlreadyOpen
    <2>. QED  BY <1>0, <1>3, <2>1, OpenerLeaves DEF side, tracker
  <1>5. CASE o \in Repair /\ v # 0
    <2>1. /\ \/ Queued(at[o].proc, d, Change(v, t)) /\ fingerprints' = [fingerprints EXCEPT ![d] = t]
             \/ Dropped /\ UNCHANGED fingerprints
          /\ delivered' = [delivered EXCEPT ![d] = NoText]
      <3>1. ~(o \notin Repair \/ NextVersion(d, t) = 0)
        BY <1>p, <1>5
      <3>. QED  BY <1>d, <1>p, <3>1, Zenon DEF AlreadyOpen
    <2>2. Rests(o) /\ at'[o].pc # "sent" /\ connections' = NoTask /\ (editLock' = editLock \/ editLock = o)
      BY <1>0, <1>3, NextDocumentEffect, NextDocumentLock
    <2>3. delivered'[d] = NoText /\ \A e \in Doc : delivered'[e] \in {delivered[e], NoText}
      BY <1>0, <2>1 DEF HostOK
    <2>4. /\ Printed(d)'
          /\ \A e \in Doc \ {d} : wire'[e] = wire[e] /\ fingerprints'[e] = fingerprints[e]
      <3>1. CASE Queued(at[o].proc, d, Change(v, t)) /\ fingerprints' = [fingerprints EXCEPT ![d] = t]
        <4>1. wire[d].version < v
          BY <1>0, <1>2, <1>5, <1>p DEF Ledger, PoolOK, Frames, TrackerOK, Closed, Misordered
        <4>2. v \in 1..MaxVersion
          BY <1>3, <1>5
        <4>3. wire' = [wire EXCEPT ![d] = Receive(wire[d], Change(v, t))]
          BY <1>0, <3>1, Zenon DEF Queued
        <4>4. Receive(wire[d], Change(v, t)) = [version |-> v, text |-> t]
          BY <1>2, <4>1, <4>2, ReceiveChange
        <4>5. wire'[d] = [version |-> v, text |-> t] /\ fingerprints'[d] = t
          BY <1>0, <3>1, <4>3, <4>4 DEF PoolOK, TrackerOK
        <4>. QED  BY <1>0, <3>1, <4>3, <4>5 DEF PoolOK, TrackerOK, Printed, Agrees
      <3>2. CASE Dropped /\ UNCHANGED fingerprints
        <4>1. Recording(d) => Recording(d)'
          BY <1>0, <2>2 DEF Recording, Rests
        <4>2. wire' = wire
          BY <1>0, <3>2, FaultsType
        <4>. QED  BY <3>2, <4>1, <4>2, StillPrinted
      <3>. QED  BY <2>1, <3>1, <3>2
    <2>. QED  BY <1>d, <1>0, <1>3, <2>2, <2>3, <2>4, OpenerWorks DEF side, Sent, Converged
  <1>. QED  BY <1>4, <1>5

LEMMA SendOpenConverges ==
  ASSUME IInv, IInv', ContentInv, NEW o \in Opener, SendOpen(o)
  PROVE  ContentInv'
  <1>d. PICK d \in Doc : d = at[o].doc
    BY DEF IInv, TypeOK, TasksOK, TaskState, Task
  <1>0. /\ TypeOK /\ TrackerOK /\ PoolOK /\ HostOK /\ TasksOK /\ LocksOK /\ o \in Task /\ at[o].pc = "claimed"
        /\ connections = o /\ at[o].proc = handle.proc /\ transition[d] = o /\ wire[d] = Closed /\ OpenText(o, d) \in Text
    BY <1>d, SendOpenFacts DEF TypeOK
  <1>t. PICK t \in Text : t = OpenText(o, d)
    BY <1>0
  <1>1. UNCHANGED <<handle, latest, host, cancelled, cleanups, purge>>
    BY DEF SendOpen
  <1>2. ASSUME Queued(at[o].proc, d, Open(t)), at' = [at EXCEPT ![o].pc = "sent", ![o].text[d] = t],
               promoting' = promoting \cup {o}, delivered' = (IF o \in Repair THEN [delivered EXCEPT ![d] = NoText] ELSE delivered),
               UNCHANGED <<tracker, locks>>
        PROVE  ContentInv'
    <2>. DEFINE r == [at[o] EXCEPT !.pc = "sent", !.text = [at[o].text EXCEPT ![d] = t]]
    <2>1. r.pc = "sent" /\ r.doc = d /\ r.text[d] = t
      <3>1. at[o] \in TaskState /\ at[o].text \in [Doc -> Text \cup {NoText}]
        BY <1>0 DEF TasksOK, TaskState
      <3>2. PICK x : x = [at[o].text EXCEPT ![d] = t]
        OBVIOUS
      <3>3. r = [at[o] EXCEPT !.pc = "sent", !.text = x]
        BY <3>2
      <3>4. x[d] = t
        BY <3>1, <3>2
      <3>. HIDE DEF r
      <3>. QED  BY <1>d, <3>1, <3>3, <3>4 DEF TaskState
    <2>2. at' = [at EXCEPT ![o] = r]
      BY <1>2, Zenon
    <2>. HIDE DEF r
    <2>3. at'[o] = r /\ Rests(o)
      BY <1>0, <2>2, GoesTo
    <2>4. wire' = [wire EXCEPT ![d] = [version |-> 1, text |-> t]]
      <3>1. wire' = [wire EXCEPT ![d] = Receive(wire[d], Open(t))]
        BY <1>0, <1>2, Zenon DEF Queued
      <3>. QED  BY <1>0, <3>1, ReceiveOpen
    <2>5. wire'[d] = [version |-> 1, text |-> t] /\ \A e \in Doc \ {d} : wire'[e] = wire[e]
      BY <1>0, <2>4 DEF PoolOK
    <2>6. Sent(o)'
      <3>1. at'[o].doc = d /\ at'[o].text[d] = t /\ wire'[d].text = t
        BY <2>1, <2>3, <2>5
      <3>2. transition' = transition /\ o \in promoting'
        BY <1>2 DEF locks
      <3>. QED  BY <1>0, <3>1, <3>2 DEF Sent, Agrees
    <2>7. Recording(d)'
      BY <1>0, <2>1, <2>3 DEF Recording
    <2>8. Converged(d)' /\ \A e \in Doc : delivered'[e] \in {delivered[e], NoText}
      <3>1. CASE o \in Repair
        BY <1>0, <1>2, <3>1 DEF HostOK, Converged
      <3>2. CASE o \notin Repair
        <4>1. delivered' = delivered /\ latest' = latest
          BY <1>1, <1>2, <3>2
        <4>2. delivered[d] # NoText => t = delivered[d] /\ delivered[d] = latest[d]
          BY <1>0, <1>t, <3>2 DEF ContentInv, Converged, OpenText
        <4>. QED  BY <2>5, <4>1, <4>2 DEF Converged, Agrees
      <3>. QED  BY <3>1, <3>2
    <2>. QED  BY <1>d, <1>0, <1>1, <1>2, <2>3, <2>5, <2>6, <2>7, <2>8, OpenerWorks DEF Printed, tracker, locks
  <1>3. ASSUME Dropped, Rollback(o, d), transition' = [transition EXCEPT ![d] = NoTask], NextDocument(o, TRUE),
               UNCHANGED <<promoting, delivered>>
        PROVE  ContentInv'
    <2>1. \A e \in Doc : /\ fingerprints'[e] \in {fingerprints[e], NoText}
                        /\ transition'[e] \in {transition[e], NoTask}
      BY <1>0, <1>3, RollbackPrints DEF LocksOK
    <2>2. wire' = wire
      BY <1>0, <1>3, FaultsType
    <2>. QED  BY <1>0, <1>1, <1>3, <2>1, <2>2, OpenerLeaves
  <1>. QED  BY <1>d, <1>t, <1>2, <1>3, Zenon DEF SendOpen

LEMMA PromoteConverges ==
  ASSUME IInv, IInv', ContentInv, NEW o \in Opener, Promote(o)
  PROVE  ContentInv'
  <1>d. PICK d \in Doc : d = at[o].doc
    BY DEF IInv, TypeOK, TasksOK, TaskState, Task
  <1>0. TypeOK /\ TasksOK /\ TrackerOK /\ LocksOK /\ o \in Task /\ TaskOK(o) /\ at[o] \in TaskState
        /\ o \in promoting /\ transition[d] = o /\ at[o].pc \in {"sent", "done"}
    BY <1>d DEF IInv, Task, Tasks, TaskOK, Promoting, Promote, TypeOK, TasksOK
  <1>1. /\ MarkOpenSent(o, d)
        /\ promoting' = promoting \ {o}
        /\ transition' = [transition EXCEPT ![d] = NoTask]
        /\ UNCHANGED <<handle, connections, editLock, latest, purge, wire, delivered>>
    BY <1>d DEF Promote
  <1>2. transition'[d] = NoTask /\ \A e \in Doc : transition'[e] \in {transition[e], NoTask}
    BY <1>0, <1>1 DEF LocksOK
  <1>3. /\ \A e \in Doc : fingerprints'[e] \in {fingerprints[e], NoText}
        /\ \A e \in Doc \ {d} : fingerprints'[e] = fingerprints[e]
    BY <1>0, <1>1 DEF MarkOpenSent, Rollback, TrackerOK, tracker
  <1>4. Intact' <=> Intact
    BY <1>1 DEF Intact
  <1>5. CASE at[o].pc = "done"
    <2>1. at' = [at EXCEPT ![o] = Gone]
      BY <1>d, <1>5, Zenon DEF Promote
    <2>2. Rests(o) /\ at'[o].pc = "done"
      BY <1>0, <2>1, Leaves
    <2>3. Recording(d) => Recording(d)'
      BY <1>0, <1>5, <2>2 DEF Recording, Rests
    <2>4. Printed(d)' /\ Converged(d)' /\ Sent(o)'
      BY <1>1, <1>3, <1>4, <2>2, <2>3, StillPrinted, StillConverged DEF Sent
    <2>. QED  BY <1>d, <1>1, <1>2, <1>3, <2>2, <2>4, OpenerWorks
  <1>6. CASE at[o].pc = "sent"
    <2>1. connections = o /\ Sent(o)
      BY <1>0, <1>6 DEF TaskOK, Pins, ContentInv
    <2>2. generation = at[o].gen /\ claims[d] = o
      <3>1. Intact
        BY <1>0, <1>6, <2>1, Pinned
      <3>. QED  BY <1>d, <1>0, <3>1 DEF TaskOK, Promoting
    <2>3. at' = [at EXCEPT ![o] = [at[o] EXCEPT !.ok = TRUE]]
      <3>1. (generation = at[o].gen /\ claims[d] = o) = TRUE /\ at[o].pc # "done"
        BY <1>6, <2>2
      <3>. QED  BY <1>d, <3>1, Zenon DEF Promote
    <2>. DEFINE r == [at[o] EXCEPT !.ok = TRUE]
    <2>4. r.pc = "sent" /\ r.doc = d /\ r.text = at[o].text /\ r.ok = TRUE
      BY <1>d, <1>0, <1>6 DEF TaskState
    <2>5. at' = [at EXCEPT ![o] = r]
      BY <2>3
    <2>. HIDE DEF r
    <2>6. at'[o] = r /\ Rests(o)
      BY <1>0, <2>5, GoesTo
    <2>7. Sent(o)'
      <3>1. Agrees(d, at[o].text[d])
        BY <1>d, <1>6, <2>1 DEF Sent
      <3>2. at'[o].doc = d /\ at'[o].text[d] = at[o].text[d] /\ at'[o].ok = TRUE
        BY <2>4, <2>6
      <3>3. wire'[d] = Closed \/ wire'[d].text = at'[o].text[d]
        BY <1>1, <3>1, <3>2 DEF Agrees
      <3>. QED  BY <1>2, <3>2, <3>3 DEF Sent, Agrees
    <2>8. Recording(d)'
      BY <1>0, <2>4, <2>6 DEF Recording
    <2>9. Converged(d)'
      BY <1>1, <1>4, StillConverged
    <2>. QED  BY <1>d, <1>1, <1>2, <1>3, <2>6, <2>7, <2>8, <2>9, OpenerWorks DEF Printed
  <1>. QED  BY <1>0, <1>5, <1>6

LEMMA RecordOpenConverges ==
  ASSUME IInv, IInv', ContentInv, NEW o \in Opener, RecordOpen(o)
  PROVE  ContentInv'
  <1>d. PICK d \in Doc : d = at[o].doc
    BY DEF IInv, TypeOK, TasksOK, TaskState, Task
  <1>0. TypeOK /\ TrackerOK /\ o \in Task /\ at[o].pc = "sent" /\ o \notin promoting
    BY DEF IInv, Task, TypeOK, RecordOpen
  <1>1. /\ NextDocument(o, TRUE)
        /\ UNCHANGED <<handle, transition, latest, side, purge, wire, delivered>>
    BY DEF RecordOpen
  <1>2. Agrees(d, at[o].text[d]) /\ at[o].ok
    BY <1>d, <1>0, Zenon DEF ContentInv, Sent
  <1>3. fingerprints' = [fingerprints EXCEPT ![d] = at[o].text[d]]
    BY <1>d, <1>2, Zenon DEF RecordOpen
  <1>4. Rests(o) /\ at'[o].pc # "sent" /\ connections' \in {connections, NoTask} /\ (editLock' = editLock \/ editLock = o)
    BY <1>0, <1>1, NextDocumentEffect, NextDocumentLock
  <1>5. fingerprints'[d] = at[o].text[d] /\ \A e \in Doc \ {d} : fingerprints'[e] = fingerprints[e]
    BY <1>0, <1>3 DEF TrackerOK
  <1>6. Printed(d)'
    BY <1>1, <1>2, <1>5 DEF Printed, Agrees
  <1>7. Converged(d)'
    <2>1. Intact' => Intact
      BY <1>1, <1>4 DEF Intact
    <2>. QED  BY <1>1, <2>1, StillConverged
  <1>8. Sent(o)'
    BY <1>4 DEF Sent
  <1>. QED  BY <1>d, <1>1, <1>4, <1>5, <1>6, <1>7, <1>8, OpenerWorks DEF side

LEMMA AbortConverges ==
  ASSUME IInv, IInv', ContentInv, FreshAborts, NEW o \in Opener, Abort(o)
  PROVE  ContentInv'
  <1>d. PICK d \in Doc : d = at[o].doc
    BY DEF IInv, TypeOK, TasksOK, TaskState, Task
  <1>0. TypeOK /\ TasksOK /\ TrackerOK /\ LocksOK /\ o \in Task /\ at[o] \in TaskState /\ Released(o)
        /\ UNCHANGED <<handle, tracker, latest, promoting, purge, wire, delivered>>
    BY DEF IInv, Task, TypeOK, TasksOK, Abort
  <1>1. Rests(o) /\ at'[o].pc = "done"
    <2>1. CASE o \in cleanups' \cup promoting
      <3>1. at' = [at EXCEPT ![o] = [at[o] EXCEPT !.pc = "done"]]
        BY <2>1, Zenon DEF Abort
      <3>2. [at[o] EXCEPT !.pc = "done"].pc = "done"
        BY <1>0 DEF TaskState
      <3>. QED  BY <1>0, <3>1, <3>2, GoesTo
    <2>2. CASE o \notin cleanups' \cup promoting
      <3>1. at' = [at EXCEPT ![o] = Gone]
        BY <2>2, Zenon DEF Abort
      <3>. QED  BY <1>0, <3>1, Leaves
    <2>. QED  BY <2>1, <2>2
  <1>2. editLock' = (IF editLock = o THEN NoTask ELSE editLock) /\ connections' = (IF connections = o THEN NoTask ELSE connections)
    BY <1>0 DEF Released
  <1>3. \A e \in Doc : transition'[e] \in {transition[e], NoTask}
    BY <1>0 DEF Abort, LocksOK
  <1>4. CASE at[o].pc # "sent"
    BY <1>0, <1>1, <1>2, <1>3, <1>4, OpenerMild DEF tracker
  <1>5. CASE at[o].pc = "sent"
    <2>1. Agrees(d, at[o].text[d]) /\ fingerprints[d] \in {NoText, at[o].text[d]}
      BY <1>d, <1>5 DEF ContentInv, Sent, FreshAborts
    <2>2. Printed(d)'
      BY <1>0, <2>1 DEF Printed, Agrees, tracker
    <2>3. Converged(d)'
      <3>1. Intact' => Intact
        BY <1>0, <1>2 DEF Intact
      <3>. QED  BY <1>0, <3>1, StillConverged
    <2>4. Sent(o)'
      BY <1>1 DEF Sent
    <2>. QED  BY <1>d, <1>0, <1>1, <1>2, <1>3, <2>2, <2>3, <2>4, OpenerWorks DEF tracker
  <1>. QED  BY <1>4, <1>5

LEMMA OpenersConverge ==
  ASSUME IInv, IInv', ContentInv, FreshAborts, NEW o \in Opener, OpenerSteps(o)
  PROVE  ContentInv'
  BY OpenersAsk, OpenersWait, AlreadyOpenConverges, SendOpenConverges, PromoteConverges, RecordOpenConverges, AbortConverges
  DEF OpenerSteps

-----------------------------------------------------------------------------
(* Closers that forward nothing                                            *)

LEMMA CloserMild ==
  ASSUME IInv, ContentInv, NEW c \in Closer, Rests(c), at[c].pc \notin {"idle", "done", "record"},
         at'[c].pc \notin Forwards, editLock' = editLock \/ at'[c].pc = "done",
         UNCHANGED <<latest, delivered, promoting, transition>>, handle'.proc = handle.proc,
         \A d \in Doc : fingerprints'[d] \in {fingerprints[d], NoText} /\ wire'[d] \in {wire[d], Closed},
         Intact' => Intact, IInv'
  PROVE  ContentInv'
  <1>1. c \in Task /\ at[c].pc # "sent" /\ at'[c].pc # "sent"
    <2>1. c \in Task /\ c \notin Opener /\ at[c].pc \in CloserPc
      BY CloserFacts
    <2>2. at'[c].pc \in CloserPc
      BY <2>1 DEF IInv, TypeOK, TasksOK
    <2>. QED  BY <2>1, <2>2 DEF CloserPc
  <1>2. editLock = c
    BY DEF ContentInv, Editing
  <1>3. Mild({c})
    BY <1>1, <1>2 DEF Mild, Rests
  <1>. QED  BY <1>1, <1>3, MildKeeps

LEMMA ClosersGoOn ==
  ASSUME IInv, IInv', ContentInv, NEW c \in Closer, TakeAll(c) \/ FetchForClose(c) \/ BeginForward(c) \/ EndClose(c)
  PROVE  ContentInv'
  <1>0. TypeOK /\ TasksOK /\ c \in Task /\ PcOf(c) = CloserPc /\ at[c] \in TaskState
    BY CloserFacts
  <1>1. CASE TakeAll(c)
    <2>1. PICK l, g : at' = [at EXCEPT ![c] = [at[c] EXCEPT !.pc = "closing", !.left = l, !.gens = g]]
      BY <1>1, Zenon DEF TakeAll
    <2>2. [at[c] EXCEPT !.pc = "closing", !.left = l, !.gens = g].pc = "closing"
      BY <1>0 DEF TaskState
    <2>3. Rests(c) /\ at'[c].pc = "closing"
      BY <1>0, <2>1, <2>2, GoesTo
    <2>4. at[c].pc = "ended" /\ UNCHANGED <<handle, locks, latest, purge, wire, delivered, promoting, fingerprints>>
      BY <1>1 DEF TakeAll, Take
    <2>. QED  BY <2>3, <2>4, CloserMild DEF Forwards, locks, Intact
  <1>2. CASE FetchForClose(c)
    <2>1. PICK d \in at[c].left : at' = [at EXCEPT ![c] = [at[c] EXCEPT !.pc = "close", !.doc = d,
                                                    !.proc = IF handle.state = "ready" THEN handle.proc ELSE 0]]
      BY <1>2, Zenon DEF FetchForClose
    <2>2. PICK p : p = (IF handle.state = "ready" THEN handle.proc ELSE 0)
      OBVIOUS
    <2>3. at' = [at EXCEPT ![c] = [at[c] EXCEPT !.pc = "close", !.doc = d, !.proc = p]]
      BY <2>1, <2>2, Zenon
    <2>4. [at[c] EXCEPT !.pc = "close", !.doc = d, !.proc = p].pc = "close"
      BY <1>0 DEF TaskState
    <2>5. Rests(c) /\ at'[c].pc = "close"
      BY <1>0, <2>3, <2>4, GoesTo
    <2>6. at[c].pc = "closing" /\ UNCHANGED <<handle, tracker, locks, latest, purge, wire, delivered, side>>
      BY <1>2 DEF FetchForClose
    <2>. QED  BY <2>5, <2>6, CloserMild DEF Forwards, locks, tracker, side, Intact
  <1>3. CASE BeginForward(c)
    <2>1. Rests(c) /\ at'[c].pc \in {"forward", "spawning"}
      <3>1. CASE at' = [at EXCEPT ![c].pc = "forward", ![c].left = at[c].live]
        <4>1. PICK l : l = at[c].live
          OBVIOUS
        <4>2. at' = [at EXCEPT ![c] = [at[c] EXCEPT !.pc = "forward", !.left = l]]
          BY <1>0, <3>1, <4>1 DEF TasksOK
        <4>3. [at[c] EXCEPT !.pc = "forward", !.left = l].pc = "forward"
          BY <1>0 DEF TaskState
        <4>. QED  BY <1>0, <4>2, <4>3, GoesTo
      <3>2. CASE Goto(c, "spawning")
        BY <1>0, <3>2, Goes DEF CloserPc
      <3>. QED  BY <1>3, <3>1, <3>2 DEF BeginForward
    <2>2. at[c].pc = "closing" /\ UNCHANGED <<handle, tracker, locks, latest, purge, wire, delivered, side>>
      BY <1>3 DEF BeginForward
    <2>. QED  BY <2>1, <2>2, CloserMild DEF Forwards, locks, tracker, side, Intact
  <1>4. CASE EndClose(c)
    <2>1. Rests(c) /\ at'[c].pc = "done"
      BY <1>0, <1>4, Leaves DEF EndClose
    <2>2. at[c].pc = "closing" /\ UNCHANGED <<handle, tracker, connections, transition, latest, purge, wire, delivered, side>>
      BY <1>4 DEF EndClose
    <2>. QED  BY <2>1, <2>2, CloserMild DEF Forwards, tracker, side, Intact
  <1>. QED  BY <1>1, <1>2, <1>3, <1>4

LEMMA CloseDocumentConverges ==
  ASSUME IInv, IInv', ContentInv, NEW c \in Closer, CloseDocument(c)
  PROVE  ContentInv'
  <1>d. PICK d \in Doc : d = at[c].doc
    BY CloserFacts
  <1>0. TypeOK /\ TasksOK /\ TrackerOK /\ PoolOK /\ c \in Task /\ PcOf(c) = CloserPc /\ at[c].pc = "close" /\ wire[d] # Misordered
    BY CloserFacts DEF TypeOK, CloseDocument, IInv, Docs, DocOK
  <1>1. UNCHANGED <<handle, locks, latest, side, purge, delivered>>
    BY DEF CloseDocument
  <1>2. Closing(c, "closing") => Rests(c) /\ at'[c].pc = "closing"
    BY <1>d, <1>0, ClosingEffect
  <1>3. Goto(c, "invalidate") => Rests(c) /\ at'[c].pc = "invalidate"
    BY <1>0, Goes DEF CloserPc
  <1>4. Rests(c) /\ at'[c].pc \in {"closing", "invalidate"}
        /\ \A e \in Doc : fingerprints'[e] \in {fingerprints[e], NoText} /\ wire'[e] \in {wire[e], Closed}
    <2>1. CASE Closing(c, "closing") /\ UNCHANGED <<tracker, wire, faults>>
      BY <1>2, <2>1 DEF tracker
    <2>2. CASE (IF at[c].proc = 0 THEN UNCHANGED <<wire, faults>> ELSE Queued(at[c].proc, d, Close)) /\ Untrack(d) /\ Closing(c, "closing")
      <3>1. wire' = wire \/ wire' = [wire EXCEPT ![d] = Receive(wire[d], Close)]
        BY <2>2 DEF Queued
      <3>2. Receive(wire[d], Close) = Closed
        BY <1>0, ReceiveClose
      <3>3. \A e \in Doc : wire'[e] \in {wire[e], Closed}
        BY <1>0, <3>1, <3>2 DEF PoolOK
      <3>. QED  BY <1>0, <1>2, <2>2, <3>3 DEF Untrack, TrackerOK
    <2>3. CASE Dropped /\ Goto(c, "invalidate") /\ UNCHANGED tracker
      BY <1>0, <1>3, <2>3, FaultsType DEF tracker
    <2>. QED  BY <1>d, <2>1, <2>2, <2>3, Zenon DEF CloseDocument
  <1>. QED  BY <1>0, <1>1, <1>4, CloserMild DEF Forwards, locks, side, Intact

LEMMA InvalidateConverges ==
  ASSUME IInv, IInv', ContentInv, NEW c \in Closer, Invalidate(c)
  PROVE  ContentInv'
  <1>d. PICK d \in Doc : d = at[c].doc
    BY CloserFacts
  <1>0. TypeOK /\ TasksOK /\ PoolOK /\ c \in Task /\ PcOf(c) = CloserPc /\ at[c].pc = "invalidate"
    BY CloserFacts DEF TypeOK, Invalidate
  <1>1. UNCHANGED <<transition, editLock, latest, side, wire, delivered>>
    BY DEF Invalidate
  <1>2. CASE handle.proc = at[c].proc /\ handle.state # "none"
    <2>1. handle' = [handle EXCEPT !.state = "failed"] /\ PurgeBegins(c) /\ Goto(c, "purging")
      BY <1>2, Zenon DEF Invalidate
    <2>2. Rests(c) /\ at'[c].pc = "purging"
      BY <1>0, <2>1, Goes DEF CloserPc
    <2>3. handle'.proc = handle.proc
      BY <1>0, <2>1 DEF PoolOK, HandleState
    <2>4. fingerprints' = fingerprints /\ ~Intact'
      BY <2>1 DEF PurgeBegins, Intact
    <2>. QED  BY <1>0, <1>1, <2>2, <2>3, <2>4, CloserMild DEF Forwards, side
  <1>3. CASE ~(handle.proc = at[c].proc /\ handle.state # "none")
    <2>1. Closing(c, "closing") /\ UNCHANGED <<handle, tracker, connections, purge>>
      BY <1>3, Zenon DEF Invalidate
    <2>2. Rests(c) /\ at'[c].pc = "closing"
      BY <1>d, <1>0, <2>1, ClosingEffect
    <2>. QED  BY <1>0, <1>1, <2>1, <2>2, CloserMild DEF Forwards, side, tracker, Intact
  <1>. QED  BY <1>2, <1>3

LEMMA RetireConverges ==
  ASSUME IInv, IInv', ContentInv, PurgeEnds, connections # Acquirer
  PROVE  ContentInv'
  <1>1. PICK c \in Closer : c = connections /\ at[c].pc = "purging"
    BY DEF IInv, Global, PurgeEnds
  <1>2. PICK d \in Doc : d = at[c].doc
    BY CloserFacts
  <1>3. handle' = [handle EXCEPT !.state = "none"] /\ Closing(c, "closing") /\ UNCHANGED wire
    BY <1>1, Zenon DEF PurgeEnds
  <1>4. Rests(c) /\ at'[c].pc = "closing"
    BY <1>2, <1>3, ClosingEffect, CloserFacts
  <1>5. UNCHANGED <<tracker, transition, editLock, latest, side, delivered>> /\ connections' = NoTask
    BY DEF PurgeEnds
  <1>6. handle'.proc = handle.proc /\ ~Intact'
    BY <1>3, <1>5 DEF IInv, TypeOK, PoolOK, HandleState, Intact
  <1>. QED  BY <1>1, <1>3, <1>4, <1>5, <1>6, CloserMild DEF Forwards, side, tracker

LEMMA BeginCloseConverges ==
  ASSUME IInv, IInv', ContentInv, NEW c \in Closer, BeginClose(c)
  PROVE  ContentInv'
  <1>1. c \in Task /\ Rests(c) /\ at'[c].pc = "ending"
    BY CloserFacts, Goes DEF BeginClose, CloserPc
  <1>2. Mild({c})
    BY <1>1 DEF Mild, Rests, BeginClose, Forwards, tracker, side, Intact
  <1>. QED  BY <1>1, <1>2, MildKeeps

LEMMA EndPassConverges ==
  ASSUME IInv, IInv', ContentInv, NEW p \in Closer, NEW e \in Eager, EndPass(p, e)
  PROVE  ContentInv'
  <1>0. TasksOK /\ p \in Task /\ e \in Task /\ e \in Opener /\ p # e /\ e \notin Closer /\ at[p].pc = "spawning" /\ at[e].pc = "idle" /\ at[e] \in TaskState
    BY CloserFacts, Kinds DEF EndPass, Task, Opener, TasksOK
  <1>1. PICK l, x, i : l = at[p].live /\ x = at[p].text /\ i = at[p].inc
    OBVIOUS
  <1>2. PICK r : r = (IF l = {} THEN Gone ELSE [at[e] EXCEPT !.pc = "spawned", !.left = l, !.text = x, !.inc = i])
    OBVIOUS
  <1>3. at' = [at EXCEPT ![p] = Gone, ![e] = r]
    BY <1>1, <1>2, Zenon DEF EndPass
  <1>4. r.pc \in {"done", "spawned"}
    <2>1. [at[e] EXCEPT !.pc = "spawned", !.left = l, !.text = x, !.inc = i].pc = "spawned"
      BY <1>0 DEF TaskState
    <2>. QED  BY <1>2, <2>1, GoneType
  <1>5. at'[p].pc = "done" /\ at'[e] = r /\ \A u \in Task \ {p, e} : at'[u] = at[u]
    BY <1>0, <1>3, GoneType DEF TasksOK
  <1>6. UNCHANGED <<handle, tracker, connections, transition, latest, side, purge, wire, delivered>> /\ editLock' = NoTask
    BY DEF EndPass
  <1>7. editLock = p
    BY <1>0 DEF ContentInv, Editing
  <1>8. Mild({p, e})
    BY <1>0, <1>4, <1>5, <1>6, <1>7 DEF Mild, Forwards, tracker, side, Intact
  <1>. QED  BY <1>0, <1>8, MildKeeps

-----------------------------------------------------------------------------
(* Passes that forward                                                     *)

(* c has the host's edit lock, works on d and leaves the other documents.  *)
LEMMA CloserWorks ==
  ASSUME IInv, ContentInv, NEW c \in Closer, NEW d \in Doc, at[c].pc = "record" => at[c].doc = d, Rests(c),
         at[c].pc \notin {"idle", "done"}, UNCHANGED <<editLock, handle, promoting, purge>>, Intact' => Intact,
         \A e \in Doc : transition'[e] \in {transition[e], NoTask} \/ connections = c,
         \A e \in Doc \ {d} : /\ wire'[e] = wire[e] /\ fingerprints'[e] = fingerprints[e]
                              /\ latest'[e] = latest[e] /\ delivered'[e] = delivered[e],
         wire'[d] = wire[d] \/ transition[d] = c,
         Forwarding(c)', Printed(d)', Converged(d)'
  PROVE  ContentInv'
  <1>1. c \in Task /\ c \notin Opener /\ at[c].pc # "sent"
    BY CloserFacts DEF CloserPc
  <1>2. editLock = c
    BY DEF ContentInv, Editing
  <1>3. Steady({c})
    BY <1>2 DEF Steady, Rests
  <1>4. Editing(c)'
    BY <1>2 DEF Editing
  <1>5. ASSUME NEW e \in Doc \ {d} PROVE Printed(e)' /\ Converged(e)'
    <2>1. Recording(e) => Recording(e)'
      BY <1>1 DEF Recording, Rests
    <2>. QED  BY <2>1, StillPrinted, StillConverged
  <1>. QED  BY <1>1, <1>3, <1>4, <1>5, Joined

(* While a pass forwards, nobody owes a close: what is neither open nor    *)
(* being opened is closed.                                                 *)
LEMMA ForwardedToNone ==
  ASSUME IInv, ContentInv, NEW p \in Closer, at[p].pc \in Forwards, Intact,
         NEW d \in Doc, d \notin openedOn, claims[d] \notin promoting
  PROVE  wire[d] = Closed
  <1>1. ASSUME NEW c \in Closer, at[c].pc \in Owing PROVE FALSE
    <2>1. editLock = p /\ editLock = c
      BY <1>1 DEF ContentInv, Editing, Forwards, Owing
    <2>. QED  BY <1>1, <2>1 DEF Forwards, Owing
  <1>2. ~OwedNow(d)
    BY <1>1 DEF OwedNow, Owes
  <1>. QED  BY <1>2 DEF IInv, Ledgers, Ledger

(* It has brought its text to d, or nobody needs it.                       *)
LEMMA BroughtTo ==
  ASSUME IInv, ContentInv, NEW p \in Closer, at[p].pc \in Forwards, NEW d \in Doc, d = at[p].doc, Forwarded(p),
         UNCHANGED <<latest, wire>>, Intact => Agrees(d, at[p].text[d]), Intact' => Intact
  PROVE  Converged(d)' /\ \A e \in Doc \ {d} : delivered'[e] = delivered[e]
  <1>1. delivered \in [Doc -> Text \cup {NoText}] /\ latest[d] = at[p].text[d]
    BY DEF IInv, TypeOK, HostOK, ContentInv, Forwarding
  <1>2. delivered'[d] = at[p].text[d] /\ \A e \in Doc \ {d} : delivered'[e] = delivered[e]
    BY <1>1 DEF Forwarded
  <1>3. delivered'[d] = latest'[d] /\ (Intact' => Agrees(d, at[p].text[d])) /\ wire' = wire
    BY <1>1, <1>2
  <1>. QED  BY <1>2, <1>3 DEF Converged, Agrees

LEMMA RecordLatestConverges ==
  ASSUME IInv, IInv', ContentInv, NEW p \in Closer, RecordLatest(p)
  PROVE  ContentInv'
  <1>0. TypeOK /\ TasksOK /\ HostOK /\ p \in Task /\ at[p] \in TaskState /\ at[p].pc = "forward" /\ PcOf(p) = CloserPc
    BY CloserFacts DEF RecordLatest, TypeOK
  <1>1. UNCHANGED <<handle, tracker, locks, side, purge, wire>>
    BY DEF RecordLatest
  <1>2. CASE at[p].left = {}
    <2>1. Goto(p, "spawning") /\ UNCHANGED <<latest, delivered>>
      BY <1>2 DEF RecordLatest
    <2>2. Rests(p) /\ at'[p].pc = "spawning"
      BY <1>0, <2>1, Goes DEF CloserPc
    <2>. QED  BY <1>0, <1>1, <2>1, <2>2, CloserMild DEF Forwards, tracker, locks, side, Intact
  <1>3. CASE at[p].left # {}
    <2>1. PICK d \in at[p].left : /\ latest' = [latest EXCEPT ![d] = at[p].text[d]]
                                  /\ delivered' = [delivered EXCEPT ![d] = NoText]
                                  /\ at' = [at EXCEPT ![p].pc = "list", ![p].doc = d, ![p].left = @ \ {d}]
      BY <1>3, Zenon DEF RecordLatest
    <2>2. d \in Doc
      BY <1>0 DEF TaskState
    <2>3. PICK l : l = at[p].left \ {d}
      OBVIOUS
    <2>. DEFINE r == [at[p] EXCEPT !.pc = "list", !.doc = d, !.left = l]
    <2>4. r.pc = "list" /\ r.text = at[p].text /\ r.doc = d
      BY <1>0 DEF TaskState
    <2>5. at' = [at EXCEPT ![p] = r]
      BY <1>0, <2>1, <2>3 DEF TasksOK
    <2>. HIDE DEF r
    <2>6. at'[p] = r /\ Rests(p)
      BY <1>0, <2>5, GoesTo
    <2>7. /\ latest'[d] = at[p].text[d] /\ delivered'[d] = NoText
          /\ \A e \in Doc \ {d} : latest'[e] = latest[e] /\ delivered'[e] = delivered[e]
      BY <1>0, <2>1, <2>2 DEF HostOK
    <2>8. Forwarding(p)'
      BY <2>4, <2>6, <2>7 DEF Forwarding
    <2>9. Printed(d)'
      <3>1. Recording(d) => Recording(d)'
        BY <1>0, <2>6 DEF Recording, Rests
      <3>. QED  BY <1>1, <2>2, <3>1, StillPrinted DEF tracker
    <2>10. Converged(d)'
      BY <2>7 DEF Converged
    <2>. QED  BY <1>0, <1>1, <2>2, <2>6, <2>7, <2>8, <2>9, <2>10, CloserWorks DEF tracker, locks, side, Intact
  <1>. QED  BY <1>2, <1>3

LEMMA ListConnectionsConverges ==
  ASSUME IInv, IInv', ContentInv, NEW p \in Closer, ListConnections(p)
  PROVE  ContentInv'
  <1>d. PICK d \in Doc : d = at[p].doc
    BY CloserFacts
  <1>0. TypeOK /\ TasksOK /\ p \in Task /\ at[p].pc = "list" /\ PcOf(p) = CloserPc
    BY CloserFacts DEF ListConnections
  <1>1. UNCHANGED <<handle, tracker, locks, latest, side, purge, wire>>
    BY DEF ListConnections
  <1>2. ASSUME NEW pc \in {"acquire", "forward"}, Goto(p, pc)
        PROVE  Rests(p) /\ at'[p].pc = pc /\ at'[p].doc = d /\ at'[p].text = at[p].text /\ Printed(d)'
    <2>1. Rests(p) /\ at'[p].pc = pc /\ Carries(p)
      BY <1>0, <1>2, Goes DEF CloserPc
    <2>2. Recording(d) => Recording(d)'
      BY <1>0, <2>1 DEF Recording, Rests
    <2>. QED  BY <1>d, <1>1, <2>1, <2>2, StillPrinted DEF Carries, tracker
  <1>3. CASE Goto(p, "acquire") /\ UNCHANGED delivered
    <2>1. Forwarding(p)'
      BY <1>d, <1>0, <1>1, <1>2, <1>3 DEF ContentInv, Forwarding, Forwards
    <2>2. Converged(d)'
      BY <1>1, <1>3, StillConverged DEF Intact, locks
    <2>. QED  BY <1>0, <1>1, <1>2, <1>3, <2>1, <2>2, CloserWorks DEF tracker, locks, side, Intact
  <1>4. CASE ~(d \in openedOn \/ claims[d] # NoTask) /\ Goto(p, "forward") /\ Forwarded(p)
    <2>1. NoTask \notin promoting
      BY <1>0, Kinds DEF TypeOK, PoolOK, Task
    <2>2. Intact => wire[d] = Closed
      BY <1>0, <1>4, <2>1, ForwardedToNone DEF Forwards
    <2>3. Converged(d)' /\ \A e \in Doc \ {d} : delivered'[e] = delivered[e]
      BY <1>d, <1>0, <1>1, <1>4, <2>2, BroughtTo DEF Forwards, Agrees, Intact, locks
    <2>4. Forwarding(p)'
      BY <1>2, <1>4 DEF Forwarding, Forwards
    <2>. QED  BY <1>0, <1>1, <1>2, <1>4, <2>3, <2>4, CloserWorks DEF tracker, locks, side, Intact
  <1>. QED  BY <1>d, <1>3, <1>4, Zenon DEF ListConnections

LEMMA PinHandleConverges ==
  ASSUME IInv, IInv', ContentInv, NEW p \in Closer, PinHandle(p)
  PROVE  ContentInv'
  <1>d. PICK d \in Doc : d = at[p].doc
    BY CloserFacts
  <1>0. TypeOK /\ TasksOK /\ p \in Task /\ at[p].pc = "acquire" /\ PcOf(p) = CloserPc /\ at[p] \in TaskState
        /\ connections = NoTask /\ Global /\ Purged(d)
    BY CloserFacts DEF PinHandle, IInv, Docs, DocOK
  <1>1. UNCHANGED <<handle, tracker, transition, editLock, latest, side, purge, wire>>
    BY DEF PinHandle
  <1>2. CASE handle.state = "ready"
    <2>1. connections' = p /\ UNCHANGED delivered
          /\ at' = [at EXCEPT ![p] = [at[p] EXCEPT !.pc = "pinned", !.proc = handle.proc]]
      BY <1>2, Zenon DEF PinHandle
    <2>2. PICK x : x = handle.proc
      OBVIOUS
    <2>. DEFINE r == [at[p] EXCEPT !.pc = "pinned", !.proc = x]
    <2>3. r.pc = "pinned" /\ r.text = at[p].text /\ r.doc = d
      BY <1>d, <1>0 DEF TaskState
    <2>4. at' = [at EXCEPT ![p] = r]
      BY <2>1, <2>2
    <2>. HIDE DEF r
    <2>5. at'[p] = r /\ Rests(p)
      BY <1>0, <2>4, GoesTo
    <2>6. Intact
      BY <1>0, <1>2 DEF Global, Intact
    <2>7. Forwarding(p)'
      BY <1>d, <1>0, <1>1, <2>1, <2>3, <2>5 DEF ContentInv, Forwarding, Forwards
    <2>8. Printed(d)' /\ Converged(d)'
      <3>1. Recording(d) => Recording(d)'
        BY <1>0, <2>5 DEF Recording, Rests
      <3>. QED  BY <1>1, <2>1, <2>6, <3>1, StillPrinted, StillConverged DEF tracker
    <2>. QED  BY <1>0, <1>1, <2>1, <2>5, <2>6, <2>7, <2>8, CloserWorks DEF tracker, side
  <1>3. CASE handle.state # "ready"
    <2>1. Goto(p, "forward") /\ Forwarded(p) /\ UNCHANGED connections
      BY <1>3 DEF PinHandle
    <2>2. Rests(p) /\ at'[p].pc = "forward"
      BY <1>0, <2>1, Goes DEF CloserPc
    <2>3. Intact => wire[d] = Closed
      BY <1>0, <1>3 DEF Intact, Purged
    <2>4. Converged(d)' /\ \A e \in Doc \ {d} : delivered'[e] = delivered[e]
      BY <1>d, <1>0, <1>1, <2>1, <2>3, BroughtTo DEF Forwards, Agrees, Intact
    <2>5. Forwarding(p)'
      BY <2>2 DEF Forwarding, Forwards
    <2>6. Printed(d)'
      <3>1. Recording(d) => Recording(d)'
        BY <1>0, <2>2 DEF Recording, Rests
      <3>. QED  BY <1>1, <3>1, StillPrinted DEF tracker
    <2>. QED  BY <1>0, <1>1, <2>1, <2>2, <2>4, <2>5, <2>6, CloserWorks DEF tracker, side, Intact
  <1>. QED  BY <1>2, <1>3

LEMMA PrepareChangeConverges ==
  ASSUME IInv, IInv', ContentInv, NEW p \in Closer, PrepareChange(p)
  PROVE  ContentInv'
  <1>d. PICK d \in Doc : d = at[p].doc
    BY CloserFacts
  <1>0. /\ TypeOK /\ TasksOK /\ TrackerOK /\ LocksOK /\ p \in Task /\ PcOf(p) = CloserPc /\ TaskOK(p) /\ DocOK(d) /\ connections = p
        /\ at[p].pc = "pinned" /\ at[p] \in TaskState /\ at[p].text \in [Doc -> Text] /\ transition[d] = NoTask
        /\ at[p].proc = handle.proc
    BY <1>d, CloserFacts DEF Pins, PrepareChange, TaskOK, Texts, Claiming, IInv, Docs, TypeOK
  <1>p. PICK v : v = NextVersion(d, at[p].text[d])
    OBVIOUS
  <1>1. Intact
    BY <1>0, Pinned
  <1>3. connections' = NoTask /\ UNCHANGED <<handle, fingerprints, editLock, latest, side, purge, wire>>
    BY DEF PrepareChange
  <1>4. CASE d \in openedOn /\ v # 0
    <2>1. /\ transition' = [transition EXCEPT ![d] = p]
          /\ at' = [at EXCEPT ![p].pc = "send", ![p].ver = v]
          /\ UNCHANGED delivered
      <3>1. d \in openedOn /\ NextVersion(d, at[p].text[d]) # 0
        BY <1>p, <1>4
      <3>. QED  BY <1>d, <1>p, <3>1, Zenon DEF PrepareChange
    <2>. DEFINE r == [at[p] EXCEPT !.pc = "send", !.ver = v]
    <2>2. r.pc = "send" /\ r.doc = d /\ r.text = at[p].text /\ r.proc = handle.proc
      BY <1>d, <1>0 DEF TaskState
    <2>3. at' = [at EXCEPT ![p] = r]
      BY <1>0, <2>1 DEF TasksOK
    <2>. HIDE DEF r
    <2>4. at'[p] = r /\ Rests(p)
      BY <1>0, <2>3, GoesTo
    <2>5. Forwarding(p)'
      BY <1>d, <1>0, <1>3, <2>1, <2>2, <2>4 DEF ContentInv, Forwarding, Forwards
    <2>6. Printed(d)' /\ Converged(d)'
      <3>1. Recording(d) => Recording(d)'
        BY <1>0, <2>4 DEF Recording, Rests
      <3>. QED  BY <1>1, <1>3, <2>1, <3>1, StillPrinted, StillConverged
    <2>. QED  BY <1>0, <1>1, <1>3, <2>1, <2>4, <2>5, <2>6, CloserWorks DEF side
  <1>5. CASE ~(d \in openedOn /\ v # 0)
    <2>1. Goto(p, "forward") /\ Forwarded(p) /\ UNCHANGED <<transition, versions>>
      <3>1. ~(d \in openedOn /\ NextVersion(d, at[p].text[d]) # 0)
        BY <1>p, <1>5
      <3>. QED  BY <1>d, <1>p, <3>1, Zenon DEF PrepareChange
    <2>2. Rests(p) /\ at'[p].pc = "forward"
      BY <1>0, <2>1, Goes DEF CloserPc
    <2>3. Agrees(d, at[p].text[d])
      <3>1. CASE d \notin openedOn
        BY <1>0, <1>1, <3>1, ForwardedToNone, ClaimAtRest DEF Forwards, Agrees
      <3>2. CASE d \in openedOn /\ v = 0
        <4>1. versions[d] # 0
          BY <1>0, <1>1, <3>2 DEF DocOK, Intact
        <4>2. fingerprints[d] = at[p].text[d] /\ fingerprints[d] # NoText
          <5>1. at[p].text[d] \in Text /\ versions[d] \in Nat
            BY <1>0 DEF TrackerOK
          <5>. QED  BY <1>p, <3>2, <4>1, <5>1, DocumentsAssumption DEF NextVersion
        <4>3. ~Recording(d)
          <5>1. ASSUME NEW u \in Task, at[u].pc = "sent" PROVE FALSE
            BY <1>0, <5>1 DEF IInv, Tasks, TaskOK, Pins
          <5>2. ASSUME NEW u \in Task, at[u].pc = "record", at[u].doc = d PROVE FALSE
            <6>1. transition[d] = u
              BY <5>2 DEF IInv, Tasks, TaskOK, Sending
            <6>. QED  BY <1>0, <6>1, Kinds
          <5>. QED  BY <5>1, <5>2 DEF Recording
        <4>. QED  BY <4>2, <4>3 DEF ContentInv, Printed
      <3>. QED  BY <1>5, <3>1, <3>2
    <2>4. Converged(d)' /\ \A e \in Doc \ {d} : delivered'[e] = delivered[e]
      BY <1>d, <1>0, <1>1, <1>3, <2>1, <2>3, BroughtTo DEF Forwards
    <2>5. Forwarding(p)'
      BY <2>2 DEF Forwarding, Forwards
    <2>6. Printed(d)'
      <3>1. Recording(d) => Recording(d)'
        BY <1>0, <2>2 DEF Recording, Rests
      <3>. QED  BY <1>3, <3>1, StillPrinted
    <2>. QED  BY <1>0, <1>1, <1>3, <2>1, <2>2, <2>4, <2>5, <2>6, CloserWorks DEF side
  <1>. QED  BY <1>4, <1>5

LEMMA SendChangeConverges ==
  ASSUME IInv, IInv', ContentInv, NEW p \in Closer, SendChange(p)
  PROVE  ContentInv'
  <1>d. PICK d \in Doc : d = at[p].doc
    BY CloserFacts
  <1>0. /\ TypeOK /\ TasksOK /\ LocksOK /\ PoolOK /\ p \in Task /\ PcOf(p) = CloserPc /\ at[p].text \in [Doc -> Text]
        /\ DocOK(d) /\ at[p].pc = "send" /\ transition[d] = p /\ at[p].ver \in 1..MaxVersion /\ at[p].proc = handle.proc
        /\ wire[d] # Closed /\ wire[d].version < at[p].ver
    BY <1>d, CloserFacts DEF SendChange, TaskOK, Texts, Sending, IInv, Docs, TypeOK, ContentInv, Forwarding
  <1>1. UNCHANGED <<handle, tracker, connections, editLock, latest, side, purge, delivered>>
    BY DEF SendChange
  <1>p. PICK v \in 1..MaxVersion, t \in Text : v = at[p].ver /\ t = at[p].text[d]
    BY <1>0
  <1>2. ASSUME NEW pc \in {"forward", "record"}, Goto(p, pc)
        PROVE  Rests(p) /\ at'[p].pc = pc /\ Carries(p)
    BY <1>0, <1>2, Goes DEF CloserPc
  <1>3. ASSUME Dropped, Goto(p, "forward"), transition' = [transition EXCEPT ![d] = NoTask]
        PROVE  ContentInv'
    <2>1. wire' = wire /\ \A e \in Doc : transition'[e] \in {transition[e], NoTask}
      BY <1>0, <1>3, FaultsType DEF LocksOK
    <2>2. Rests(p) /\ at'[p].pc = "forward"
      BY <1>2, <1>3
    <2>3. Recording(d) => Recording(d)'
      BY <1>0, <2>2 DEF Recording, Rests
    <2>4. Printed(d)' /\ Converged(d)'
      BY <1>1, <2>1, <2>3, StillPrinted, StillConverged DEF Intact, tracker
    <2>5. Forwarding(p)'
      BY <2>2 DEF Forwarding, Forwards
    <2>. QED  BY <1>0, <1>1, <2>1, <2>2, <2>4, <2>5, CloserWorks DEF tracker, side, Intact
  <1>4. ASSUME Queued(at[p].proc, d, Change(v, t)), Goto(p, "record"), UNCHANGED transition
        PROVE  ContentInv'
    <2>1. wire' = [wire EXCEPT ![d] = Receive(wire[d], Change(v, t))]
      BY <1>0, <1>4, Zenon DEF Queued
    <2>2. Receive(wire[d], Change(v, t)) = [version |-> v, text |-> t]
      BY <1>0, <1>p, ReceiveChange DEF DocOK
    <2>3. wire'[d].text = t /\ \A e \in Doc \ {d} : wire'[e] = wire[e]
      BY <1>0, <2>1, <2>2 DEF PoolOK
    <2>4. Rests(p) /\ at'[p].pc = "record" /\ at'[p].doc = d /\ at'[p].text = at[p].text /\ at'[p].proc = handle.proc
      BY <1>d, <1>0, <1>2, <1>4 DEF Carries
    <2>5. latest[d] = at[p].text[d] /\ delivered[d] = NoText
      BY <1>d, <1>0 DEF ContentInv, Forwarding, Forwards
    <2>6. Forwarding(p)'
      BY <1>p, <1>1, <2>3, <2>4, <2>5 DEF Forwarding, Agrees
    <2>7. Recording(d)' /\ Converged(d)'
      BY <1>0, <1>1, <2>4, <2>5 DEF Recording, Converged
    <2>. QED  BY <1>0, <1>1, <1>4, <2>3, <2>4, <2>6, <2>7, CloserWorks DEF tracker, side, Intact, Printed
  <1>. QED  BY <1>d, <1>p, <1>3, <1>4, Zenon DEF SendChange

LEMMA RecordChangeConverges ==
  ASSUME IInv, IInv', ContentInv, NEW p \in Closer, RecordChange(p)
  PROVE  ContentInv'
  <1>d. PICK d \in Doc : d = at[p].doc
    BY CloserFacts
  <1>0. TypeOK /\ TasksOK /\ TrackerOK /\ LocksOK /\ p \in Task /\ PcOf(p) = CloserPc /\ at[p].pc = "record"
    BY CloserFacts DEF RecordChange, TypeOK
  <1>1. /\ fingerprints' = [fingerprints EXCEPT ![d] = at[p].text[d]]
        /\ transition' = [transition EXCEPT ![d] = NoTask]
        /\ Goto(p, "forward") /\ Forwarded(p)
        /\ UNCHANGED <<handle, connections, editLock, latest, side, purge, wire>>
    BY <1>d DEF RecordChange
  <1>2. Rests(p) /\ at'[p].pc = "forward"
    BY <1>0, <1>1, Goes DEF CloserPc
  <1>3. Agrees(d, at[p].text[d])
    BY <1>d, <1>0 DEF ContentInv, Forwarding
  <1>4. /\ fingerprints'[d] = at[p].text[d] /\ \A e \in Doc \ {d} : fingerprints'[e] = fingerprints[e]
        /\ \A e \in Doc : transition'[e] \in {transition[e], NoTask}
    BY <1>0, <1>1 DEF TrackerOK, LocksOK
  <1>5. Printed(d)'
    BY <1>1, <1>3, <1>4 DEF Printed, Agrees
  <1>6. Converged(d)' /\ \A e \in Doc \ {d} : delivered'[e] = delivered[e]
    BY <1>d, <1>0, <1>1, <1>3, BroughtTo DEF Forwards, Intact
  <1>7. Forwarding(p)'
    BY <1>2 DEF Forwarding, Forwards
  <1>. QED  BY <1>d, <1>0, <1>1, <1>2, <1>4, <1>5, <1>6, <1>7, CloserWorks DEF side, Intact

(* A closer forgets texts: the next opens carry their own.                 *)
LEMMA Forgets ==
  ASSUME IInv, ContentInv, NEW c \in Closer, Rests(c), at[c].pc # "record", at'[c].pc \notin Forwards,
         editLock \in {c, NoTask}, editLock' = c,
         UNCHANGED <<handle, fingerprints, connections, transition, promoting, purge, wire>>,
         \A d \in Doc : \/ latest'[d] = latest[d] /\ delivered'[d] = delivered[d]
                        \/ delivered'[d] = NoText
  PROVE  ContentInv'
  <1>1. c \in Task /\ c \notin Opener /\ at[c].pc # "sent"
    BY CloserFacts DEF CloserPc
  <1>2. Steady({c})
    BY DEF Steady, Rests
  <1>3. Editing(c)' /\ Forwarding(c)'
    BY DEF Editing, Forwarding, Forwards
  <1>4. ASSUME NEW d \in Doc PROVE Printed(d)' /\ Converged(d)'
    <2>1. Recording(d) => Recording(d)'
      BY <1>1 DEF Recording, Rests
    <2>2. Intact' <=> Intact
      BY DEF Intact
    <2>. QED  BY <2>1, <2>2, StillPrinted, StillConverged DEF Converged
  <1>. QED  BY <1>1, <1>2, <1>3, <1>4, Joined

LEMMA BeginPassConverges ==
  ASSUME IInv, IInv', ContentInv, NEW p \in Closer, NEW S \in SUBSET Doc, NEW why \in {"deselected", "replaced", "invalidated"},
         BeginPass(p, S, why)
  PROVE  ContentInv'
  <1>0. TypeOK /\ TasksOK /\ HostOK /\ p \in Task /\ at[p] \in TaskState
    BY CloserFacts DEF TypeOK
  <1>1. PICK l, g, x, i, a : at' = [at EXCEPT ![p] = [at[p] EXCEPT !.pc = "closing", !.left = l, !.gens = g,
                                                          !.text = x, !.inc = i, !.live = a]]
    BY Zenon DEF BeginPass
  <1>2. [at[p] EXCEPT !.pc = "closing", !.left = l, !.gens = g, !.text = x, !.inc = i, !.live = a].pc = "closing"
    BY <1>0 DEF TaskState
  <1>3. Rests(p) /\ at'[p].pc = "closing"
    BY <1>0, <1>1, <1>2, GoesTo
  <1>4. PICK gone : /\ latest' = [d \in Doc |-> IF d \in gone THEN NoText ELSE latest[d]]
                    /\ delivered' = [d \in Doc |-> IF d \in gone THEN NoText ELSE delivered[d]]
    BY Zenon DEF BeginPass
  <1>5. \A d \in Doc : \/ latest'[d] = latest[d] /\ delivered'[d] = delivered[d]
                       \/ delivered'[d] = NoText
    BY <1>4
  <1>6. /\ at[p].pc = "idle" /\ editLock = NoTask /\ editLock' = p
        /\ UNCHANGED <<handle, fingerprints, connections, transition, promoting, purge, wire>>
    BY DEF BeginPass, Take
  <1>. QED  BY <1>3, <1>5, <1>6, Forgets DEF Forwards

LEMMA EndLifetimeConverges ==
  ASSUME IInv, IInv', ContentInv, NEW c \in Closer, EndLifetime(c)
  PROVE  ContentInv'
  <1>1. Rests(c) /\ at'[c].pc = "ended"
    BY CloserFacts, Goes DEF EndLifetime, CloserPc
  <1>2. at[c].pc = "ending" /\ UNCHANGED <<handle, tracker, locks, side, purge, wire>> /\ delivered' = [d \in Doc |-> NoText]
    BY DEF EndLifetime
  <1>3. editLock = c
    BY <1>2 DEF ContentInv, Editing
  <1>. QED  BY <1>1, <1>2, <1>3, Forgets DEF Forwards, tracker, locks, side

LEMMA ClosersConverge ==
  ASSUME IInv, IInv', ContentInv, NEW c \in Closer, CloserSteps(c)
  PROVE  ContentInv'
  BY BeginPassConverges, BeginCloseConverges, EndLifetimeConverges, ClosersGoOn, CloseDocumentConverges, InvalidateConverges,
     RecordLatestConverges, ListConnectionsConverges, PinHandleConverges, PrepareChangeConverges, SendChangeConverges,
     RecordChangeConverges, EndPassConverges
  DEF CloserSteps

-----------------------------------------------------------------------------
(* The process                                                             *)

(* Nobody moves.                                                           *)
LEMMA PoolMild ==
  ASSUME IInv, ContentInv, UNCHANGED <<at, editLock, latest, delivered, promoting, transition>>,
         handle'.proc = handle.proc \/ \A d \in Doc : transition[d] = NoTask,
         \A d \in Doc : /\ fingerprints'[d] \in {fingerprints[d], NoText} /\ wire'[d] \in {wire[d], Closed}
                        /\ (Intact' => Intact) \/ wire'[d] = Closed
  PROVE  ContentInv'
  <1>1. Mild({})
    BY DEF Mild
  <1>. QED  BY <1>1, MildKeeps

LEMMA Spawning ==
  ASSUME IInv, ContentInv, UNCHANGED <<at, editLock, latest, delivered, promoting, transition, fingerprints>>,
         wire' = [d \in Doc |-> Closed], \A d \in Doc : transition[d] = NoTask
  PROVE  ContentInv'
  <1>1. \A d \in Doc : wire'[d] = Closed
    OBVIOUS
  <1>. QED  BY <1>1, PoolMild

LEMMA PoolConverges ==
  ASSUME IInv, IInv', ContentInv, PoolSteps
  PROVE  ContentInv'
  <1>0. PoolOK /\ TrackerOK /\ Global
    BY DEF IInv, TypeOK
  <1>1. CASE Crash
    <2>1. handle'.proc = handle.proc /\ (Intact' => Intact)
      BY <1>0, <1>1 DEF Crash, PoolOK, HandleState, Intact, locks
    <2>. QED  BY <1>1, <2>1, PoolMild DEF Crash, tracker, locks, side
  <1>2. CASE Handshake
    <2>1. handle'.proc = handle.proc /\ (Intact' => Intact)
      BY <1>0, <1>2 DEF Handshake, PoolOK, HandleState, Intact, locks
    <2>. QED  BY <1>2, <2>1, PoolMild DEF Handshake, tracker, locks, side
  <1>3. CASE Replace
    <2>1. ~Intact'
      BY <1>3 DEF Replace, PurgeBegins, Intact
    <2>. QED  BY <1>3, <2>1, PoolMild DEF Replace, PurgeBegins, side
  <1>4. CASE PurgeVersions
    <2>1. ~Intact'
      BY <1>0, <1>4 DEF PurgeVersions, PoolOK, PurgeState, Intact
    <2>. QED  BY <1>4, <2>1, PoolMild DEF PurgeVersions, locks, side
  <1>5. CASE PurgeIndex
    <2>1. ~Intact' /\ \A d \in Doc : fingerprints'[d] = NoText
      BY <1>0, <1>5 DEF PurgeIndex, PoolOK, PurgeState, Intact
    <2>. QED  BY <1>5, <2>1, PoolMild DEF PurgeIndex, locks, side
  <1>6. CASE PurgeRest
    <2>1. ~Intact'
      BY <1>0, <1>6 DEF PurgeRest, PoolOK, PurgeState, Intact
    <2>. QED  BY <1>6, <2>1, PoolMild DEF PurgeRest, locks, side
  <1>7. CASE \E d \in Doc : PurgeWaits(d)
    <2>1. ~Intact'
      BY <1>0, <1>7 DEF PurgeWaits, PoolOK, PurgeState, Intact
    <2>. QED  BY <1>7, <2>1, PoolMild DEF PurgeWaits, locks, side, tracker
  <1>8. CASE AbortReplace
    <2>1. ~Intact'
      BY <1>0, <1>8, Kinds DEF AbortReplace, Global, Intact
    <2>. QED  BY <1>8, <2>1, PoolMild DEF AbortReplace, side, tracker
  <1>9. CASE SpawnFirst
    <2>1. \A d \in Doc : transition[d] = NoTask
      BY <1>9 DEF SpawnFirst, IInv, Docs, DocOK, Purged
    <2>. QED  BY <1>9, <2>1, Spawning DEF SpawnFirst, tracker, locks, side
  <1>10. CASE PurgeEnds /\ connections = Acquirer
    <2>1. \A d \in Doc : transition[d] = NoTask
      BY <1>10, Emptied DEF PurgeEnds
    <2>2. UNCHANGED <<at, editLock, latest, delivered, promoting, transition, fingerprints>> /\ wire' = [d \in Doc |-> Closed]
      BY <1>10 DEF PurgeEnds, tracker, side
    <2>. QED  BY <2>1, <2>2, Spawning
  <1>11. CASE PurgeEnds /\ connections # Acquirer
    BY <1>11, RetireConverges
  <1>. QED  BY <1>1, <1>2, <1>3, <1>4, <1>5, <1>6, <1>7, <1>8, <1>9, <1>10, <1>11 DEF PoolSteps

-----------------------------------------------------------------------------
(* The texts agree                                                         *)

LEMMA ContentBegins == Init => ContentInv
  <1>. SUFFICES ASSUME Init PROVE ContentInv
    OBVIOUS
  <1>1. \A t \in Task : at[t].pc = "idle"
    BY GoneType DEF Init
  <1>2. \A d \in Doc : wire[d] = Closed /\ delivered[d] = NoText
    BY DEF Init
  <1>3. ASSUME NEW c \in Closer PROVE Editing(c) /\ Forwarding(c)
    BY <1>1 DEF Editing, Forwarding, Forwards, Task
  <1>4. ASSUME NEW o \in Opener PROVE Sent(o)
    BY <1>1 DEF Sent, Task
  <1>5. ASSUME NEW d \in Doc PROVE Printed(d) /\ Converged(d)
    BY <1>2 DEF Printed, Converged, Agrees
  <1>. QED  BY <1>3, <1>4, <1>5 DEF ContentInv

LEMMA NextConverges ==
  ASSUME IInv, IInv', ContentInv, [Next]_vars, FreshAborts
  PROVE  ContentInv'
  <1>1. ASSUME NEW o \in Opener, OpenerSteps(o) PROVE ContentInv'
    BY <1>1, OpenersConverge
  <1>2. ASSUME NEW c \in Closer, CloserSteps(c) PROVE ContentInv'
    BY <1>2, ClosersConverge
  <1>3. ASSUME PoolSteps PROVE ContentInv'
    BY <1>3, PoolConverges
  <1>4. ASSUME Edit \/ Reopen \/ Over \/ UNCHANGED vars PROVE ContentInv'
    <2>1. UNCHANGED <<handle, connections, purge, at, editLock, latest, delivered, promoting, transition, fingerprints, wire>>
      BY <1>4 DEF Edit, Reopen, Over, vars, tracker, locks, side
    <2>. QED  BY <2>1, PoolMild DEF Intact
  <1>. QED  BY <1>1, <1>2, <1>3, <1>4 DEF Next

(* What the last pass brought a document to is what the process has, for   *)
(* any number of passes, respawns and aborts, as long as no opener is      *)
(* aborted between its didOpen and its record and leaves the fingerprint   *)
(* of another text: only such an abort lets                                *)
(* increment_version_if_content_changed of document_tracker.rs, which      *)
(* trusts the fingerprint, skip a text the process does not have.  Nothing *)
(* is claimed between a repair that sends and the next pass.               *)
THEOREM ContentIsKept == Spec /\ [][FreshAborts]_vars => []ContentConverges
  <1>1. IInv /\ ContentInv => ContentConverges
    <2>. SUFFICES ASSUME IInv, ContentInv, NEW d \in Doc,
                         Settled, delivered[d] # NoText, wire[d] # Closed, transition[d] = NoTask
                  PROVE  wire[d].text = delivered[d]
      BY DEF ContentConverges
    <2>1. Intact
      BY DEF Settled, Intact, NoPurge
    <2>. QED  BY <2>1 DEF ContentInv, Converged, Agrees
  <1>2. IInv /\ ContentInv /\ [Next]_vars /\ [FreshAborts]_vars => IInv' /\ ContentInv'
    <2>1. CASE UNCHANGED vars
      <3>1. UNCHANGED <<handle, connections, purge, at, editLock, latest, delivered, promoting, transition, fingerprints, wire>>
        BY <2>1 DEF vars, tracker, locks, side
      <3>. QED  BY <2>1, <3>1, NextKeeps, PoolMild DEF Intact
    <2>2. CASE ~UNCHANGED vars
      BY <2>2, NextKeeps, NextConverges
    <2>. QED  BY <2>1, <2>2
  <1>. QED  BY <1>1, <1>2, Begins, ContentBegins, PTL DEF Spec
=============================================================================
