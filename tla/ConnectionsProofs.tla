--------------------------- MODULE ConnectionsProofs ---------------------------
(***************************************************************************)
(* The safety properties of Connections, for any documents, commands and   *)
(* numbers of processes, claims and faults.                                *)
(*                                                                         *)
(* The argument: the lock of the map separates a process from its          *)
(* successor.  While it is held nothing is opened downstream, a mapped     *)
(* process whose entry is to go is never Ready again, and the debt it      *)
(* leaves is either still recorded or was claimed by somebody else's       *)
(* handshake (usurped).  So what a command finds when it looks at the      *)
(* registry is never older than the process it is for.                     *)
(***************************************************************************)
EXTENDS Connections, WellFoundedInduction, TLAPS

Born == {h \in Handle : state[h] # "unborn"}

(* Barriers are used in the order of their numbers; what refers to one     *)
(* refers to one that was claimed.                                         *)
Numbered ==
  /\ \A b, c \in Barrier : b <= c /\ c \in Claimed => b \in Claimed
  /\ inFlight # None => inFlight \in Claimed
  /\ \A b \in Barrier : /\ barrier[b].done => barrier[b].sender = "dropped"
                        /\ b \notin Claimed => barrier[b].handle = None
  /\ \A h \in Handle : promise[h] # None => promise[h] \in Claimed

(* The map's entry is there while its lock is held over it.                *)
Mapping ==
  /\ mapped # None => mapped \in Born
  /\ lock.step # "free" => mapped # None
  /\ lock.step = "free" => lock.by = "none"
  /\ lock.by = "acquire" => Unborn # {}
  /\ teardown \subseteq Born
  /\ shutdown.handle # None => shutdown.handle \in Born

(* How far a handshake is, and what its handle can be then.                *)
Processes ==
  \A h \in Handle :
    /\ h \notin Born => promise[h] = None /\ held[h] = {} /\ ~running[h]
    /\ h \in Born <=> handshake[h].step # "none"
    /\ handshake[h].done # None => /\ handshake[h].step \in {"claimed", "published"}
                                   /\ barrier[handshake[h].done].sender = "handshake"
    /\ state[h] = "Initializing" => handshake[h].step \notin {"published", "ended"}
    /\ state[h] = "Ready" => handshake[h].step \in {"published", "ended"}

(* What a command found is there, and what it heard was said.              *)
Waiters ==
  \A c \in Command :
    /\ command[c].step # "idle" => /\ command[c].handle \in Born
                                   /\ handshake[command[c].handle].step \in {"published", "ended"}
    /\ command[c].step \in {"waiting", "settled"} => command[c].barrier \in Claimed
    /\ command[c].step = "settled" => barrier[command[c].barrier].sender = "dropped"
    /\ command[c].settled => /\ command[c].step \in {"settled", "clear"}
                             /\ command[c].barrier \in Claimed
                             /\ barrier[command[c].barrier].done

Structure == Numbered /\ Mapping /\ Processes /\ Waiters

(* A shutdown that looked at the map has no acquisition after it.          *)
Refused ==
  /\ shutdown.step # "none" => shuttingDown
  /\ shutdown.step \notin {"none", "flagged"} => lock.by # "acquire"

(* The debt is recorded, or on its way to a sweep.                         *)
Debt ==
  \/ armed
  \/ /\ Claimed # {}
     /\ \/ barrier[LastClaim].sender = "handshake"
        \/ barrier[LastClaim].handle # None

(* A process was in the map before the one there is or will be.            *)
Succeeds == lock.step = "armed" \/ (mapped # 1 /\ Born # {})

DebtInv ==
  /\ Succeeds => Debt
  /\ Claimed # {} /\ ~armed /\ barrier[LastClaim].sender = "handshake" => inFlight = LastClaim

(* Nobody else claimed: the successor finds the debt and claims it itself. *)
ClaimInv ==
  ~usurped =>
    /\ lock.step = "armed" \/ (mapped = None /\ Born # {}) => armed
    /\ mapped \notin {None, 1} =>
         /\ handshake[mapped].step = "running" => armed
         /\ handshake[mapped].step = "claimed" => handshake[mapped].done # None
         /\ state[mapped] = "Ready" => promise[mapped] # None

(* What was claimed as b, or as a later barrier in its place, is over.     *)
Over(b) == \E c \in Barrier : c >= b /\ barrier[c].sender = "dropped"

CoverInv ==
  ~usurped /\ mapped # None =>
    /\ handshake[mapped].step = "claimed" /\ handshake[mapped].done # None
         => inFlight = handshake[mapped].done
    /\ forwarding /\ promise[mapped] # None =>
         /\ inFlight >= promise[mapped] \/ Over(promise[mapped])
         /\ \A c \in Command : command[c].handle = mapped =>
              /\ command[c].step \in {"waiting", "settled"} =>
                   command[c].barrier >= promise[mapped] \/ Over(promise[mapped])
              /\ command[c].step = "clear" => Over(promise[mapped])

(* Unless a re-open of b failed, the documents that are not still to come  *)
(* or exempt are in S.                                                     *)
Swept(b, S) ==
  /\ barrier[b].sender = "sweeping" /\ barrier[b].repaired =>
       Doc \subseteq barrier[b].todo \cup barrier[b].exempt \cup S
  /\ barrier[b].sender = "dropped" /\ barrier[b].done => Doc \subseteq barrier[b].exempt \cup S

(* Re-opened on the mapped process, if it still runs.                      *)
Fresh(b) == running[mapped] => Swept(b, held[mapped])

FreshInv ==
  /\ lock.step = "armed" \/ mapped = None => armed \/ inFlight = None \/ Swept(inFlight, {})
  /\ mapped # None =>
       /\ state[mapped] \in {"Initializing", "Ready"} /\ handshake[mapped].step # "failed" =>
            \/ handshake[mapped].step = "running" /\ armed
            \/ inFlight = None \/ Fresh(inFlight)
       /\ state[mapped] = "Ready" =>
            \A c \in Command :
              /\ command[c].handle = mapped
              /\ command[c].step \in {"waiting", "settled"} \/ command[c].settled
              => Fresh(command[c].barrier)

IInv == TypeOK /\ Structure /\ Refused /\ DebtInv /\ ClaimInv /\ CoverInv /\ FreshInv
-----------------------------------------------------------------------------
(* Numbers                                                                 *)

LEMMA LeastNumber ==
  ASSUME NEW S, S \subseteq Nat, S # {}
  PROVE  \E n \in S : \A m \in S : n <= m
  <1>. DEFINE R == OpToRel(<, Nat)
  <1>1. PICK n \in S : \A m \in S : <<m, n>> \notin R
    <2>1. IsWellFoundedOn(R, Nat)
      BY NatLessThanWellFounded
    <2>. HIDE DEF R
    <2>. QED  BY <2>1, WFMin
  <1>2. \A m, k \in Nat : m < k => <<m, k>> \in R
    <2>1. R = {ss \in Nat \X Nat : ss[1] < ss[2]}
      BY Zenon DEF OpToRel
    <2>. HIDE DEF R
    <2>2. ASSUME NEW m \in Nat, NEW k \in Nat, m < k PROVE <<m, k>> \in R
      <3>. DEFINE p == <<m, k>>
      <3>1. p \in Nat \X Nat /\ p[1] = m /\ p[2] = k
        OBVIOUS
      <3>. HIDE DEF p
      <3>2. p[1] < p[2]
        BY <2>2, <3>1
      <3>3. p \in R
        BY <2>1, <3>1, <3>2, Zenon
      <3>. QED  BY <3>3 DEF p
    <2>. QED  BY <2>2
  <1>. HIDE DEF R
  <1>3. ASSUME NEW m \in S PROVE n <= m
    <2>1. ~(m < n)
      BY <1>1, <1>2
    <2>. QED  BY <2>1
  <1>. QED  BY <1>3

LEMMA NextBarrierFacts ==
  ASSUME Unused # {}
  PROVE  NextBarrier \in Unused /\ \A c \in Unused : NextBarrier <= c
  <1>1. \E b \in Unused : \A c \in Unused : b <= c
    BY LeastNumber, Unused \subseteq Nat DEF Unused, Barrier
  <1>. QED  BY <1>1 DEF NextBarrier

LEMMA NextHandleFacts ==
  ASSUME Unborn # {}
  PROVE  NextHandle \in Unborn /\ \A c \in Unborn : NextHandle <= c
  <1>1. \E b \in Unborn : \A c \in Unborn : b <= c
    BY LeastNumber, Unborn \subseteq Nat DEF Unborn, Handle
  <1>. QED  BY <1>1 DEF NextHandle

LEMMA LastClaimFacts ==
  ASSUME Claimed # {}
  PROVE  LastClaim \in Claimed /\ \A c \in Claimed : c <= LastClaim
  <1>1. \E b \in Claimed : \A c \in Claimed : c <= b
    <2>. DEFINE S == {n \in Nat : \E b \in Claimed : n = MaxBarriers - b}
    <2>1. MaxBarriers \in Nat /\ \A b \in Claimed : b \in Nat /\ b <= MaxBarriers /\ MaxBarriers - b \in Nat
      BY ConnectionsAssumption DEF Claimed, Barrier
    <2>2. S \subseteq Nat /\ S # {}
      BY <2>1
    <2>3. PICK n \in S : \A m \in S : n <= m
      <3>. HIDE DEF S
      <3>. QED  BY <2>2, LeastNumber
    <2>4. PICK b \in Claimed : n = MaxBarriers - b
      OBVIOUS
    <2>5. ASSUME NEW c \in Claimed PROVE c <= b
      <3>1. MaxBarriers - c \in S
        BY <2>1
      <3>. QED  BY <2>1, <2>3, <2>4, <3>1
    <2>. QED  BY <2>5
  <1>. QED  BY <1>1 DEF LastClaim

-----------------------------------------------------------------------------
(* Types                                                                   *)

(* Which steps change a variable.                                          *)
LEMMA Frames ==
  ASSUME [Next]_vars
  PROVE  /\ UNCHANGED handshake \/ SpawnFirst \/ Replace \/ \E h \in Handle : Shakes(h)
         /\ UNCHANGED <<mapped, lock>> \/ Acquire \/ Invalidate
         /\ UNCHANGED <<shutdown, shuttingDown>> \/ Shutdown
         /\ UNCHANGED teardown \/ Acquire \/ Invalidate \/ \E h \in Handle : EndTeardown(h)
         /\ UNCHANGED registry \/ PurgeArms \/ Recover \/ StopForwarding \/ (\E h \in Handle : Shakes(h))
              \/ (\E b \in Barrier : Sweep(b)) \/ \E c \in Command : RetireBarrier(c)
         /\ UNCHANGED command \/ \E c \in Command : Commands(c)
         /\ UNCHANGED <<promise, usurped>> \/ \E h \in Handle : Shakes(h)
  <1>. USE DEF pool, handles, ending, demand, quiet, history
  <1>1. CASE Acquire
    BY <1>1 DEF Acquire, SpawnFirst, Replace, SpawnFails, BeginReplace
  <1>2. CASE Invalidate
    BY <1>2 DEF Invalidate, BeginRetire, BeginInvalidate, PurgeArms, AbortPurge, Remove
  <1>3. CASE Recover
    BY <1>3 DEF Recover, ArmForDivert, HandOffReady, DivertFails
  <1>4. CASE Shutdown
    BY <1>4 DEF Shutdown, BeginShutdownAll, Snapshot, ShutdownTimesOut, KillAll, EndGraceful, StopForwarding
  <1>5. ASSUME NEW h \in Handle, Shakes(h) PROVE UNCHANGED <<pool, ending, demand>>
    BY <1>5 DEF Shakes, Answered, Publish, HandOff, ClaimLate, HandshakeFails, StoreFailed, HandshakeTimesOut
  <1>6. ASSUME NEW h \in Handle, Crash(h) \/ WriterWedges(h) \/ EndTeardown(h)
        PROVE  UNCHANGED <<pool, handshake, shutdown, shuttingDown, registry, demand, history>> /\ (UNCHANGED teardown \/ EndTeardown(h))
    BY <1>6 DEF Crash, WriterWedges, EndTeardown
  <1>7. ASSUME NEW b \in Barrier, Sweep(b) PROVE UNCHANGED <<pool, handshake, ending, demand, history>>
    BY <1>7 DEF Sweep, BeginSweep, SweepStops, SweepReports, SweepPanics, SweepOpens, SweepMisses
  <1>8. ASSUME NEW c \in Command, Commands(c) PROVE UNCHANGED <<pool, handshake, ending, history>> /\ (UNCHANGED registry \/ RetireBarrier(c))
    BY <1>8 DEF Commands, FindConnection, LookForBarrier, HearBarrier, RetireBarrier, WaitTimesOut, SendCommand
  <1>9. CASE UNCHANGED vars
    BY <1>9 DEF vars
  <1>. QED  BY <1>1, <1>2, <1>3, <1>4, <1>5, <1>6, <1>7, <1>8, <1>9, Zenon DEF Next

LEMMA HandshakeType ==
  ASSUME Types, Structure, [Next]_vars
  PROVE  handshake' \in [Handle -> HandshakeState]
  <1>. handshake \in [Handle -> HandshakeState]
    BY DEF Types
  <1>1. CASE UNCHANGED handshake
    BY <1>1
  <1>2. ASSUME NEW h \in Handle, NEW to \in {"running", "claimed", "published", "failed", "ended"},
               handshake' = [handshake EXCEPT ![h].step = to]
        PROVE  handshake' \in [Handle -> HandshakeState]
    BY <1>2 DEF HandshakeState
  <1>3. ASSUME NEW h \in Handle, NEW r \in HandshakeState, handshake' = [handshake EXCEPT ![h] = r]
        PROVE  handshake' \in [Handle -> HandshakeState]
    BY <1>3
  <1>4. CASE Spawned /\ Unborn # {}
    BY <1>2, <1>4, NextHandleFacts, Zenon DEF Spawned, Unborn
  <1>5. ASSUME NEW h \in Handle, Shakes(h)
        PROVE  handshake' \in [Handle -> HandshakeState]
    <2>1. [step |-> "ended", done |-> None] \in HandshakeState
      BY DEF HandshakeState
    <2>2. CASE Answered(h)
      <3>1. CASE armed
        <4>1. [step |-> "claimed", done |-> NextBarrier] \in HandshakeState
          BY <2>2, <3>1, NextBarrierFacts DEF Answered, Claim, HandshakeState, Unused
        <4>. QED  BY <1>3, <2>2, <3>1, <4>1, Zenon DEF Answered
      <3>2. CASE ~armed
        BY <1>2, <2>2, <3>2, Zenon DEF Answered, Step
      <3>. QED  BY <3>1, <3>2
    <2>3. CASE Publish(h)
      BY <1>2, <1>3, <2>1, <2>3, Zenon DEF Publish, Step
    <2>4. CASE HandOff(h)
      BY <1>3, <2>1, <2>4, Zenon DEF HandOff
    <2>5. CASE ClaimLate(h)
      BY <2>5, NextBarrierFacts DEF ClaimLate, Claim, HandshakeState, Unused
    <2>6. CASE HandshakeFails(h) \/ StoreFailed(h) \/ HandshakeTimesOut(h)
      BY <1>2, <2>6, Zenon DEF HandshakeFails, StoreFailed, HandshakeTimesOut, Step
    <2>. QED  BY <1>5, <2>2, <2>3, <2>4, <2>5, <2>6 DEF Shakes
  <1>6. ASSUME SpawnFirst \/ Replace
        PROVE  Spawned /\ Unborn # {}
    BY <1>6 DEF SpawnFirst, Replace, Structure, Mapping
  <1>. QED  BY <1>1, <1>4, <1>5, <1>6, Frames

LEMMA BarrierType ==
  ASSUME Types, Structure, [Next]_vars
  PROVE  barrier' \in [Barrier -> BarrierState] /\ armed' \in BOOLEAN /\ inFlight' \in Barrier \cup {None}
  <1>. DEFINE Goal == barrier' \in [Barrier -> BarrierState] /\ armed' \in BOOLEAN /\ inFlight' \in Barrier \cup {None}
  <1>. SUFFICES Goal
    OBVIOUS
  <1>0. barrier \in [Barrier -> BarrierState] /\ armed \in BOOLEAN /\ inFlight \in Barrier \cup {None}
        /\ mapped \in Handle \cup {None}
    BY DEF Types
  <1>1. CASE UNCHANGED registry
    BY <1>0, <1>1 DEF registry
  <1>2. ASSUME NEW holder \in {"handshake", "queued"}, NEW h \in Handle \cup {None}, Claim(holder, h)
        PROVE  Goal
    <2>1. NextBarrier \in Barrier
      BY <1>2, NextBarrierFacts DEF Claim, Unused
    <2>2. [barrier[NextBarrier] EXCEPT !.sender = holder, !.handle = h] \in BarrierState
      BY <1>0, <2>1 DEF BarrierState
    <2>3. barrier' = [barrier EXCEPT ![NextBarrier] = [barrier[NextBarrier] EXCEPT !.sender = holder, !.handle = h]]
          /\ armed' = FALSE /\ inFlight' = NextBarrier
      BY <1>2, Zenon DEF Claim
    <2>. QED  BY <1>0, <2>1, <2>2, <2>3
  <1>3. ASSUME NEW h \in Handle, handshake[h].done # None, Rearm(handshake[h].done)
        PROVE  Goal
    <2>. DEFINE b == handshake[h].done
    <2>1. b \in Barrier
      BY <1>3 DEF Types, HandshakeState
    <2>2. barrier' = [barrier EXCEPT ![b].sender = "dropped"]
      BY <1>3, Zenon DEF Rearm
    <2>3. armed' \in BOOLEAN /\ inFlight' \in Barrier \cup {None}
      BY <1>0, <1>3 DEF Rearm
    <2>. HIDE DEF b
    <2>4. barrier' \in [Barrier -> BarrierState]
      BY <1>0, <2>1, <2>2 DEF BarrierState
    <2>. QED  BY <2>3, <2>4
  <1>4. ASSUME NEW h \in Handle, handshake[h].done # None, SendReopen(handshake[h].done, h)
        PROVE  Goal
    <2>. DEFINE b == handshake[h].done
    <2>1. b \in Barrier
      BY <1>4 DEF Types, HandshakeState
    <2>2. CASE forwarding
      <3>1. barrier' = [barrier EXCEPT ![b] = [barrier[b] EXCEPT !.sender = "queued", !.handle = h]]
            /\ armed' = armed /\ inFlight' = inFlight
        BY <1>4, <2>2, Zenon DEF SendReopen
      <3>. HIDE DEF b
      <3>2. [barrier[b] EXCEPT !.sender = "queued", !.handle = h] \in BarrierState
        BY <1>0, <2>1 DEF BarrierState
      <3>. QED  BY <1>0, <2>1, <3>1, <3>2
    <2>3. CASE ~forwarding
      BY <1>3, <1>4, <2>3 DEF SendReopen
    <2>. QED  BY <2>2, <2>3
  <1>5. CASE PurgeArms \/ Recover
    <2>1. CASE PurgeArms \/ ArmForDivert \/ DivertFails
      BY <1>0, <2>1 DEF PurgeArms, ArmForDivert, DivertFails, registry
    <2>2. CASE HandOffReady
      BY <1>0, <1>1, <1>2, <2>2 DEF HandOffReady
    <2>. QED  BY <1>5, <2>1, <2>2 DEF Recover
  <1>6. ASSUME NEW h \in Handle, Shakes(h) PROVE Goal
    <2>1. CASE Answered(h)
      BY <1>1, <1>2, <2>1 DEF Answered
    <2>2. CASE Publish(h)
      BY <1>1, <1>3, <2>2 DEF Publish
    <2>3. CASE HandOff(h)
      BY <1>1, <1>4, <2>3 DEF HandOff
    <2>4. CASE ClaimLate(h)
      BY <1>2, <2>4 DEF ClaimLate
    <2>5. CASE HandshakeFails(h) \/ StoreFailed(h) \/ HandshakeTimesOut(h)
      BY <1>1, <2>5 DEF HandshakeFails, StoreFailed, HandshakeTimesOut
    <2>. QED  BY <1>6, <2>1, <2>2, <2>3, <2>4, <2>5 DEF Shakes
  <1>7. CASE StopForwarding
    <2>1. barrier' = [b \in Barrier |-> IF barrier[b].sender = "queued"
                                     THEN [barrier[b] EXCEPT !.sender = "dropped"]
                                     ELSE barrier[b]] /\ UNCHANGED <<armed, inFlight>>
      BY <1>7, Zenon DEF StopForwarding
    <2>2. \A b \in Barrier : [barrier[b] EXCEPT !.sender = "dropped"] \in BarrierState
      BY <1>0 DEF BarrierState
    <2>. QED  BY <1>0, <2>1, <2>2
  <1>8. ASSUME NEW b \in Barrier, Sweep(b) PROVE Goal
    <2>0. UNCHANGED <<armed, inFlight>>
      BY <1>8 DEF Sweep, BeginSweep, SweepStops, SweepReports, SweepPanics, SweepOpens, SweepMisses
    <2>a. ASSUME NEW r \in BarrierState, barrier' = [barrier EXCEPT ![b] = r] PROVE Goal
      BY <1>0, <2>0, <2>a
    <2>1. CASE BeginSweep(b)
      <3>1. [barrier[b] EXCEPT !.sender = "sweeping", !.todo = Doc] \in BarrierState
        BY <1>0 DEF BarrierState
      <3>. QED  BY <2>1, <2>a, <3>1, Zenon DEF BeginSweep
    <2>2. CASE SweepStops(b) \/ SweepPanics(b)
      <3>1. [barrier[b] EXCEPT !.sender = "dropped", !.todo = {}, !.exempt = {}, !.repaired = TRUE] \in BarrierState
        BY <1>0 DEF BarrierState
      <3>. QED  BY <2>2, <2>a, <3>1, Zenon DEF SweepStops, SweepPanics, Drop
    <2>3. CASE SweepReports(b)
      <3>. DEFINE reported == barrier[b].repaired /\ Heard(b)
      <3>1. reported \in BOOLEAN
        OBVIOUS
      <3>. HIDE DEF reported
      <3>2. [barrier[b] EXCEPT !.sender = "dropped", !.repaired = TRUE, !.done = reported] \in BarrierState
        BY <1>0, <3>1 DEF BarrierState
      <3>3. barrier' = [barrier EXCEPT ![b] = [barrier[b] EXCEPT !.sender = "dropped", !.repaired = TRUE, !.done = reported]]
        BY <2>3, Zenon DEF SweepReports, reported
      <3>. QED  BY <2>a, <3>2, <3>3
    <2>4. ASSUME NEW d \in Doc, SweepOpens(b, d) PROVE Goal
      <3>1. barrier' = [barrier EXCEPT ![b].todo = @ \ {d}]
        BY <2>4, Zenon DEF SweepOpens
      <3>. QED  BY <1>0, <2>0, <3>1 DEF BarrierState
    <2>5. ASSUME NEW d \in Doc, NEW owed \in BOOLEAN, SweepMisses(b, d, owed) PROVE Goal
      <3>1. \/ barrier' = [barrier EXCEPT ![b].todo = @ \ {d}, ![b].repaired = FALSE]
            \/ barrier' = [barrier EXCEPT ![b].todo = @ \ {d}, ![b].exempt = @ \cup {d}]
        BY <2>5, Zenon DEF SweepMisses
      <3>. QED  BY <1>0, <2>0, <3>1 DEF BarrierState
    <2>. HIDE DEF Goal
    <2>. QED  BY <1>8, <2>1, <2>2, <2>3, <2>4, <2>5 DEF Sweep
  <1>9. ASSUME NEW c \in Command, RetireBarrier(c) PROVE Goal
    BY <1>0, <1>9 DEF RetireBarrier
  <1>. HIDE DEF Goal
  <1>. QED  BY <1>1, <1>5, <1>6, <1>7, <1>8, <1>9, Frames, Zenon

LEMMA CommandType ==
  ASSUME Types, Structure, [Next]_vars
  PROVE  command' \in [Command -> CommandState]
  <1>0. command \in [Command -> CommandState] /\ Idle \in CommandState
    BY DEF Types, Idle, CommandState
  <1>1. ASSUME NEW c \in Command, Commands(c) PROVE command' \in [Command -> CommandState]
    <2>1. ASSUME NEW r \in CommandState, command' = [command EXCEPT ![c] = r]
          PROVE  command' \in [Command -> CommandState]
      BY <1>0, <2>1
    <2>2. CASE FindConnection(c)
      <3>1. [command[c] EXCEPT !.step = "found", !.handle = mapped] \in CommandState
        BY <1>0 DEF CommandState, Types
      <3>. QED  BY <2>1, <2>2, <3>1, Zenon DEF FindConnection
    <2>3. CASE LookForBarrier(c)
      <3>1. [command[c] EXCEPT !.step = "clear"] \in CommandState
            /\ [command[c] EXCEPT !.step = "waiting", !.barrier = inFlight] \in CommandState
        BY <1>0 DEF CommandState, Types
      <3>. QED  BY <2>1, <2>3, <3>1, Zenon DEF LookForBarrier
    <2>4. CASE HearBarrier(c)
      <3>. DEFINE heard == barrier[command[c].barrier].done
      <3>1. heard \in BOOLEAN
        BY <1>0, <2>4 DEF Structure, Waiters, HearBarrier, Types, BarrierState, Claimed
      <3>. HIDE DEF heard
      <3>2. [command[c] EXCEPT !.step = "settled", !.settled = heard] \in CommandState
        BY <1>0, <3>1 DEF CommandState
      <3>3. command' = [command EXCEPT ![c] = [command[c] EXCEPT !.step = "settled", !.settled = heard]]
        BY <2>4, Zenon DEF HearBarrier, heard
      <3>. QED  BY <2>1, <3>2, <3>3
    <2>5. CASE RetireBarrier(c)
      <3>1. [command[c] EXCEPT !.step = "clear"] \in CommandState
        BY <1>0 DEF CommandState
      <3>. QED  BY <1>0, <2>1, <2>5, <3>1, Zenon DEF RetireBarrier
    <2>6. CASE WaitTimesOut(c) \/ SendCommand(c)
      BY <1>0, <2>1, <2>6, Zenon DEF WaitTimesOut, SendCommand
    <2>. QED  BY <1>1, <2>2, <2>3, <2>4, <2>5, <2>6 DEF Commands
  <1>. QED  BY <1>0, <1>1, Frames

LEMMA TypesNext ==
  ASSUME Types, Structure, [Next]_vars
  PROVE  Types'
  <1>. USE DEF pool, handles, ending, registry, demand, quiet, history, None
  <1>0. Unborn # {} => NextHandle \in Handle
    BY NextHandleFacts DEF Unborn
  <1>1. lock.step # "free" => mapped \in Handle
    BY DEF Structure, Mapping, Types
  <1>2. mapped' \in Handle \cup {None} /\ lock' \in LockState
    <2>1. mapped \in Handle \cup {None} /\ lock \in LockState
      BY DEF Types
    <2>0. Free \in LockState
      BY DEF Free, LockState
    <2>2. CASE SpawnFirst \/ Replace
      <3>1. mapped' = NextHandle /\ (lock' = lock \/ lock' = Free)
        BY <2>2, Zenon DEF SpawnFirst, Replace, Spawned
      <3>2. Unborn # {}
        BY <2>2, Zenon DEF SpawnFirst, Replace, Structure, Mapping
      <3>. QED  BY <1>0, <2>0, <2>1, <3>1, <3>2
    <2>3. ASSUME NEW changed \in BOOLEAN, BeginReplace(changed) PROVE mapped' \in Handle \cup {None} /\ lock' \in LockState
      BY <2>1, <2>3 DEF BeginReplace, LockState
    <2>4. CASE SpawnFails \/ Invalidate
      <3>1. /\ mapped' = mapped \/ mapped' = None
            /\ \/ lock' = Free \/ lock' = [lock EXCEPT !.step = "armed"]
               \/ lock' = [step |-> "purging", by |-> "retire", changed |-> TRUE]
               \/ lock' = [step |-> "purging", by |-> "invalidate", changed |-> FALSE]
        BY <2>4, Zenon DEF SpawnFails, Invalidate, BeginRetire, BeginInvalidate, PurgeArms, AbortPurge, Remove
      <3>2. /\ [lock EXCEPT !.step = "armed"] \in LockState
            /\ [step |-> "purging", by |-> "retire", changed |-> TRUE] \in LockState
            /\ [step |-> "purging", by |-> "invalidate", changed |-> FALSE] \in LockState
        BY <2>1 DEF LockState
      <3>. QED  BY <2>0, <2>1, <3>1, <3>2
    <2>. QED  BY <2>1, <2>2, <2>3, <2>4, Frames DEF Acquire
  <1>3. teardown' \in SUBSET Handle /\ shutdown' \in ShutdownState /\ shuttingDown' \in BOOLEAN
    <2>1. mapped \in Handle \cup {None} /\ teardown \in SUBSET Handle /\ shutdown \in ShutdownState /\ shuttingDown \in BOOLEAN
      BY DEF Types
    <2>2. CASE Acquire
      BY <1>1, <2>1, <2>2 DEF Acquire, SpawnFirst, Replace, SpawnFails, BeginReplace, TornDown
    <2>3. CASE Invalidate
      BY <1>1, <2>1, <2>3 DEF Invalidate, BeginRetire, BeginInvalidate, PurgeArms, AbortPurge, Remove, TornDown
    <2>4. CASE Shutdown
      <3>1. /\ shuttingDown' = shuttingDown \/ shuttingDown' = TRUE
            /\ UNCHANGED teardown
            /\ \/ UNCHANGED shutdown \/ shutdown' = Ended
               \/ shutdown' = [shutdown EXCEPT !.step = "flagged"]
               \/ shutdown' = [step |-> "expired", handle |-> None]
               \/ shutdown' = [step |-> "waiting", handle |-> mapped]
               \/ shutdown' = [step |-> "killing", handle |-> mapped]
        BY <2>4, Zenon DEF Shutdown, BeginShutdownAll, Snapshot, ShutdownTimesOut, KillAll, EndGraceful, StopForwarding, Graceful
      <3>2. /\ [shutdown EXCEPT !.step = "flagged"] \in ShutdownState
            /\ [step |-> "expired", handle |-> None] \in ShutdownState
            /\ [step |-> "waiting", handle |-> mapped] \in ShutdownState
            /\ [step |-> "killing", handle |-> mapped] \in ShutdownState
            /\ Ended \in ShutdownState
        BY <2>1 DEF Ended, ShutdownState
      <3>. QED  BY <2>1, <3>1, <3>2
    <2>5. ASSUME NEW h \in Handle, EndTeardown(h) PROVE teardown' \in SUBSET Handle
      BY <2>1, <2>5 DEF EndTeardown
    <2>. QED  BY <2>1, <2>2, <2>3, <2>4, <2>5, Frames
  <1>4. state' \in [Handle -> {"unborn", "Initializing", "Ready", "Failed", "Closing", "Closed"}]
        /\ running' \in [Handle -> BOOLEAN] /\ held' \in [Handle -> SUBSET Doc]
    <2>1. /\ mapped \in Handle \cup {None}
          /\ state \in [Handle -> {"unborn", "Initializing", "Ready", "Failed", "Closing", "Closed"}]
          /\ running \in [Handle -> BOOLEAN] /\ held \in [Handle -> SUBSET Doc]
      BY DEF Types
    <2>. USE DEF BegunShutdown, Dies
    <2>2. CASE Acquire
      BY <1>0, <2>1, <2>2 DEF Acquire, SpawnFirst, Replace, SpawnFails, BeginReplace, Spawned
    <2>3. CASE Invalidate
      BY <2>1, <2>3 DEF Invalidate, BeginRetire, BeginInvalidate, PurgeArms, AbortPurge, Remove
    <2>4. CASE Shutdown
      BY <2>1, <2>4 DEF Shutdown, BeginShutdownAll, Snapshot, ShutdownTimesOut, KillAll, EndGraceful, StopForwarding, Graceful
    <2>5. ASSUME NEW h \in Handle, Shakes(h) \/ Crash(h) \/ WriterWedges(h) \/ EndTeardown(h)
          PROVE  /\ state' \in [Handle -> {"unborn", "Initializing", "Ready", "Failed", "Closing", "Closed"}]
                 /\ running' \in [Handle -> BOOLEAN] /\ held' \in [Handle -> SUBSET Doc]
      BY <2>1, <2>5 DEF Shakes, Answered, Publish, HandOff, ClaimLate, HandshakeFails, StoreFailed, HandshakeTimesOut, Crash, WriterWedges, EndTeardown
    <2>6. ASSUME NEW b \in Barrier, Sweep(b)
          PROVE  UNCHANGED <<state, running>> /\ held' \in [Handle -> SUBSET Doc]
      <3>1. UNCHANGED <<state, running>> /\ (UNCHANGED held \/ \E d \in Doc : held' = [held EXCEPT ![mapped] = @ \cup {d}])
        BY <2>6, Zenon DEF Sweep, BeginSweep, SweepStops, SweepReports, SweepPanics, SweepOpens, SweepMisses
      <3>. QED  BY <2>1, <3>1
    <2>7. ASSUME NEW c \in Command, Commands(c) PROVE UNCHANGED handles
      BY <2>7 DEF Commands, FindConnection, LookForBarrier, HearBarrier, RetireBarrier, WaitTimesOut, SendCommand
    <2>8. CASE Recover \/ UNCHANGED vars
      BY <2>1, <2>8 DEF Recover, ArmForDivert, HandOffReady, DivertFails, vars
    <2>. QED  BY <2>1, <2>2, <2>3, <2>4, <2>5, <2>6, <2>7, <2>8 DEF Next
  <1>5. recovery' \in BOOLEAN /\ forwarding' \in BOOLEAN
        /\ promise' \in [Handle -> Barrier \cup {None}] /\ usurped' \in BOOLEAN
    <2>1. /\ recovery \in BOOLEAN /\ forwarding \in BOOLEAN /\ handshake \in [Handle -> HandshakeState]
          /\ promise \in [Handle -> Barrier \cup {None}] /\ usurped \in BOOLEAN
      BY DEF Types
    <2>2. CASE Acquire \/ Invalidate \/ UNCHANGED vars
      BY <2>1, <2>2 DEF Acquire, SpawnFirst, Replace, SpawnFails, BeginReplace, Invalidate, BeginRetire, BeginInvalidate,
        PurgeArms, AbortPurge, Remove, vars
    <2>3. CASE Recover \/ Shutdown
      BY <2>1, <2>3 DEF Recover, ArmForDivert, HandOffReady, DivertFails, Shutdown, BeginShutdownAll, Snapshot,
        ShutdownTimesOut, KillAll, EndGraceful, StopForwarding
    <2>4. ASSUME NEW h \in Handle, Shakes(h)
          PROVE  /\ UNCHANGED <<recovery, forwarding>> /\ usurped' \in BOOLEAN
                 /\ promise' \in [Handle -> Barrier \cup {None}]
      <3>1. handshake[h].done \in Barrier \cup {None}
        BY <2>1 DEF HandshakeState
      <3>. QED  BY <2>1, <2>4, <3>1 DEF Shakes, Answered, Publish, HandOff, ClaimLate, HandshakeFails, StoreFailed,
                  HandshakeTimesOut
    <2>5. ASSUME NEW h \in Handle, Crash(h) \/ WriterWedges(h) \/ EndTeardown(h)
          PROVE  UNCHANGED <<recovery, forwarding, promise, usurped>>
      BY <2>5 DEF Crash, WriterWedges, EndTeardown
    <2>6. ASSUME NEW b \in Barrier, Sweep(b) PROVE UNCHANGED <<recovery, forwarding, promise, usurped>>
      BY <2>6 DEF Sweep, BeginSweep, SweepStops, SweepReports, SweepPanics, SweepOpens, SweepMisses
    <2>7. ASSUME NEW c \in Command, Commands(c) PROVE UNCHANGED <<recovery, forwarding, promise, usurped>>
      BY <2>7 DEF Commands, FindConnection, LookForBarrier, HearBarrier, RetireBarrier, WaitTimesOut, SendCommand
    <2>. QED  BY <2>1, <2>2, <2>3, <2>4, <2>5, <2>6, <2>7 DEF Next
  <1>6. faults' \in 0..MaxFaults
    <2>. USE DEF Disturb
    <2>1. faults \in 0..MaxFaults /\ MaxFaults \in Nat
      BY ConnectionsAssumption DEF Types
    <2>2. CASE Acquire \/ Invalidate \/ UNCHANGED vars
      BY <2>1, <2>2 DEF Acquire, SpawnFirst, Replace, SpawnFails, BeginReplace, Invalidate, BeginRetire, BeginInvalidate,
        PurgeArms, AbortPurge, Remove, vars
    <2>3. CASE Recover \/ Shutdown
      BY <2>1, <2>3 DEF Recover, ArmForDivert, HandOffReady, DivertFails, Shutdown, BeginShutdownAll, Snapshot,
        ShutdownTimesOut, KillAll, EndGraceful, StopForwarding
    <2>4. ASSUME NEW h \in Handle, Shakes(h) \/ Crash(h) \/ WriterWedges(h) \/ EndTeardown(h) PROVE faults' \in 0..MaxFaults
      BY <2>1, <2>4 DEF Shakes, Answered, Publish, HandOff, ClaimLate, HandshakeFails, StoreFailed,
                  HandshakeTimesOut, Crash, WriterWedges, EndTeardown
    <2>5. ASSUME NEW b \in Barrier, Sweep(b) PROVE faults' \in 0..MaxFaults
      <3>1. UNCHANGED faults \/ Disturb
        BY <2>5, Zenon DEF Sweep, BeginSweep, SweepStops, SweepReports, SweepPanics, SweepOpens, SweepMisses
      <3>. QED  BY <2>1, <3>1
    <2>6. ASSUME NEW c \in Command, Commands(c) PROVE UNCHANGED faults
      BY <2>6 DEF Commands, FindConnection, LookForBarrier, HearBarrier, RetireBarrier, WaitTimesOut, SendCommand
    <2>. QED  BY <2>1, <2>2, <2>3, <2>4, <2>5, <2>6 DEF Next
  <1>. QED  BY <1>2, <1>3, <1>4, <1>5, <1>6, HandshakeType, BarrierType, CommandType DEF Types

-----------------------------------------------------------------------------
(* What a step does to one handle, one barrier, one command                *)

Spawns(h) == (SpawnFirst \/ Replace) /\ h = NextHandle /\ h \notin Born

LEMMA Numbers ==
  None \notin Handle /\ None \notin Barrier /\ Handle \subseteq Nat /\ Barrier \subseteq Nat
  BY ConnectionsAssumption DEF None, Handle, Barrier

LEMMA SpawnEffect ==
  ASSUME Types, Structure, SpawnFirst \/ Replace
  PROVE  /\ NextHandle \in Handle /\ NextHandle \notin Born /\ Spawned
         /\ \A g \in Unborn : NextHandle <= g
  <1>1. Spawned
    BY Zenon DEF SpawnFirst, Replace
  <1>2. Unborn # {}
    BY Zenon DEF SpawnFirst, Replace, Structure, Mapping
  <1>. QED  BY <1>1, <1>2, NextHandleFacts DEF Unborn, Born

LEMMA StateMoves ==
  ASSUME Types, Structure, [Next]_vars, NEW h \in Handle
  PROVE  \/ state'[h] = state[h]
         \/ h \in Born /\ state'[h] \in {"Failed", "Closing", "Closed"}
         \/ Spawns(h) /\ state'[h] = "Initializing"
         \/ Publish(h) /\ state[h] = "Initializing" /\ state'[h] = "Ready"
  <1>. USE DEF handles
  <1>1. state \in [Handle -> {"unborn", "Initializing", "Ready", "Failed", "Closing", "Closed"}]
    BY DEF Types
  <1>. DEFINE Ends == state'[h] = state[h] \/ (h \in Born /\ state'[h] \in {"Failed", "Closing", "Closed"})
  <1>2. ASSUME NEW g, g \in Born \/ g = None, NEW to \in {"Failed", "Closing", "Closed"}, state' = [state EXCEPT ![g] = to]
        PROVE  Ends
    BY <1>1, <1>2, Numbers
  <1>3. ASSUME NEW g, g \in Born \/ g = None, state' = [state EXCEPT ![g] = BegunShutdown(g)]
        PROVE  Ends
    <2>1. state'[h] = IF h = g THEN BegunShutdown(h) ELSE state[h]
      BY <1>1, <1>3
    <2>2. BegunShutdown(h) = state[h] \/ BegunShutdown(h) = "Closing"
      BY DEF BegunShutdown
    <2>. QED  BY <1>3, <2>1, <2>2, Numbers
  <1>4. mapped \in Born \/ mapped = None
    BY DEF Structure, Mapping
  <1>. HIDE DEF Ends
  <1>5. CASE SpawnFirst \/ Replace
    BY <1>1, <1>5, SpawnEffect DEF Spawns, Spawned
  <1>6. CASE SpawnFails \/ \E changed \in BOOLEAN : BeginReplace(changed)
    <2>1. UNCHANGED state \/ state' = [state EXCEPT ![mapped] = BegunShutdown(mapped)]
      BY <1>6, Zenon DEF SpawnFails, BeginReplace
    <2>. QED  BY <1>3, <1>4, <2>1 DEF Ends
  <1>7. CASE Invalidate
    <2>1. \/ UNCHANGED state
          \/ state' = [state EXCEPT ![mapped] = BegunShutdown(mapped)]
          \/ state' = [state EXCEPT ![mapped] = "Failed"]
      BY <1>7, Zenon DEF Invalidate, BeginRetire, BeginInvalidate, PurgeArms, AbortPurge, Remove
    <2>. QED  BY <1>2, <1>3, <1>4, <2>1 DEF Ends
  <1>8. CASE Shutdown
    <2>1. \/ UNCHANGED state
          \/ state' = [state EXCEPT ![mapped] = BegunShutdown(mapped)]
          \/ state' = [state EXCEPT ![mapped] = "Closed"]
          \/ state' = [state EXCEPT ![shutdown.handle] = "Closed"]
      BY <1>8, Zenon DEF Shutdown, BeginShutdownAll, Snapshot, ShutdownTimesOut, KillAll, EndGraceful, StopForwarding, Graceful
    <2>2. shutdown.handle \in Born \/ shutdown.handle = None
      BY DEF Structure, Mapping
    <2>. QED  BY <1>2, <1>3, <1>4, <2>1, <2>2 DEF Ends
  <1>9. ASSUME NEW g \in Handle, Shakes(g)
        PROVE  Ends \/ (Publish(h) /\ state[h] = "Initializing" /\ state'[h] = "Ready")
    <2>1. CASE Publish(g)
      BY <1>1, <2>1 DEF Publish, Ends
    <2>2. CASE StoreFailed(g) \/ HandshakeTimesOut(g)
      <3>1. g \in Born
        BY <2>2 DEF StoreFailed, HandshakeTimesOut, Structure, Processes
      <3>. QED  BY <1>2, <2>2, <3>1 DEF StoreFailed, HandshakeTimesOut
    <2>3. CASE Answered(g) \/ HandOff(g) \/ ClaimLate(g) \/ HandshakeFails(g)
      BY <2>3 DEF Answered, HandOff, ClaimLate, HandshakeFails, Ends
    <2>. QED  BY <1>9, <2>1, <2>2, <2>3 DEF Shakes
  <1>10. ASSUME NEW g \in Handle, Crash(g) \/ WriterWedges(g) \/ EndTeardown(g)
         PROVE  Ends
    <2>1. \/ UNCHANGED state
          \/ state' = [state EXCEPT ![g] = "Failed"] /\ state[g] = "Ready"
          \/ state' = [state EXCEPT ![g] = "Closed"] /\ g \in teardown
      BY <1>10, Zenon DEF Crash, WriterWedges, EndTeardown
    <2>. QED  BY <1>2, <2>1 DEF Ends, Structure, Mapping, Born
  <1>11. CASE Recover \/ (\E b \in Barrier : Sweep(b)) \/ (\E c \in Command : Commands(c)) \/ UNCHANGED vars
    <2>1. UNCHANGED state
      BY <1>11, Zenon DEF Recover, ArmForDivert, HandOffReady, DivertFails, Sweep, BeginSweep, SweepStops, SweepReports,
        SweepPanics, SweepOpens, SweepMisses, Commands, FindConnection, LookForBarrier, HearBarrier, RetireBarrier,
        WaitTimesOut, SendCommand, vars
    <2>. QED  BY <2>1
  <1>. QED  BY <1>5, <1>6, <1>7, <1>8, <1>9, <1>10, <1>11 DEF Next, Acquire, Ends

LEMMA ProcessMoves ==
  ASSUME Types, Structure, [Next]_vars, NEW h \in Handle
  PROVE  \/ running'[h] = running[h] /\ held'[h] = held[h]
         \/ running'[h] = FALSE /\ held'[h] = {}
         \/ Spawns(h) /\ running'[h] = TRUE /\ held'[h] = held[h]
         \/ /\ h = mapped /\ h \in Born /\ running'[h] = running[h]
            /\ \E b \in Barrier, d \in Doc : SweepOpens(b, d) /\ held'[h] = held[h] \cup {d}
  <1>. USE DEF handles
  <1>1. running \in [Handle -> BOOLEAN] /\ held \in [Handle -> SUBSET Doc]
    BY DEF Types
  <1>2. ASSUME NEW g, Dies(g)
        PROVE  \/ running'[h] = running[h] /\ held'[h] = held[h]
               \/ running'[h] = FALSE /\ held'[h] = {}
    BY <1>1, <1>2 DEF Dies
  <1>3. CASE SpawnFirst \/ Replace
    <2>1. running' = [running EXCEPT ![NextHandle] = TRUE] /\ UNCHANGED held
      BY <1>3, Zenon DEF SpawnFirst, Replace, Spawned
    <2>. QED  BY <1>1, <1>3, <2>1, SpawnEffect DEF Spawns
  <1>4. ASSUME NEW b \in Barrier, NEW d \in Doc, SweepOpens(b, d)
        PROVE  \/ running'[h] = running[h] /\ held'[h] = held[h]
               \/ /\ h = mapped /\ h \in Born /\ running'[h] = running[h]
                  /\ held'[h] = held[h] \cup {d}
    <2>1. running' = running /\ held' = [held EXCEPT ![mapped] = @ \cup {d}] /\ mapped # None
      BY <1>4, Zenon DEF SweepOpens
    <2>. QED  BY <1>1, <2>1 DEF Structure, Mapping
  <1>5. \/ UNCHANGED <<running, held>>
        \/ (\E g : Dies(g)) \/ SpawnFirst \/ Replace
        \/ \E b \in Barrier, d \in Doc : SweepOpens(b, d)
    <2>1. CASE Acquire
      BY <2>1 DEF Acquire, SpawnFails, BeginReplace
    <2>2. CASE Invalidate
      BY <2>2 DEF Invalidate, BeginRetire, BeginInvalidate, PurgeArms, AbortPurge, Remove
    <2>3. CASE Shutdown
      BY <2>3, Zenon DEF Shutdown, BeginShutdownAll, Snapshot, ShutdownTimesOut, KillAll, EndGraceful, StopForwarding
    <2>4. ASSUME NEW g \in Handle, Shakes(g) PROVE UNCHANGED <<running, held>>
      BY <2>4 DEF Shakes, Answered, Publish, HandOff, ClaimLate, HandshakeFails, StoreFailed, HandshakeTimesOut
    <2>5. ASSUME NEW g \in Handle, Crash(g) \/ WriterWedges(g) \/ EndTeardown(g) PROVE UNCHANGED <<running, held>> \/ Dies(g)
      BY <2>5, Zenon DEF Crash, WriterWedges, EndTeardown
    <2>6. ASSUME NEW b \in Barrier, Sweep(b) PROVE UNCHANGED <<running, held>> \/ \E d \in Doc : SweepOpens(b, d)
      BY <2>6, Zenon DEF Sweep, BeginSweep, SweepStops, SweepReports, SweepPanics, SweepMisses
    <2>7. CASE Recover \/ (\E c \in Command : Commands(c)) \/ UNCHANGED vars
      BY <2>7, Zenon DEF Recover, ArmForDivert, HandOffReady, DivertFails, Commands, FindConnection, LookForBarrier,
        HearBarrier, RetireBarrier, WaitTimesOut, SendCommand, vars
    <2>. QED  BY <2>1, <2>2, <2>3, <2>4, <2>5, <2>6, <2>7, Zenon DEF Next
  <1>. QED  BY <1>2, <1>3, <1>4, <1>5

(* One step of a handshake task, of its own handle only.                   *)
Shaken(h) ==
  \/ /\ Answered(h) /\ handshake[h].step = "running" /\ handshake'[h].step = "claimed"
     /\ handshake'[h].done = IF armed THEN NextBarrier ELSE handshake[h].done
  \/ /\ Publish(h) /\ handshake[h].step = "claimed" /\ state[h] = "Initializing"
     /\ handshake'[h].step = "published" /\ handshake'[h].done = handshake[h].done /\ state'[h] = "Ready"
  \/ /\ Publish(h) /\ handshake[h].step = "claimed" /\ state[h] # "Initializing"
     /\ handshake'[h].step = "ended" /\ handshake'[h].done = None
  \/ /\ HandOff(h) /\ handshake[h].step = "published"
     /\ handshake'[h].step = "ended" /\ handshake'[h].done = None
  \/ /\ ClaimLate(h) /\ handshake[h].step = "published" /\ handshake[h].done = None
     /\ handshake'[h].step = "published" /\ handshake'[h].done = NextBarrier
  \/ /\ HandshakeFails(h) /\ handshake[h].step = "running" /\ handshake'[h].done = handshake[h].done
     /\ handshake'[h].step = IF State(h) \in {"Closing", "Closed"} THEN "ended" ELSE "failed"
  \/ /\ StoreFailed(h) /\ handshake[h].step = "failed" /\ state'[h] = "Failed"
     /\ handshake'[h].step = "ended" /\ handshake'[h].done = handshake[h].done
  \/ /\ HandshakeTimesOut(h) /\ handshake[h].step = "running" /\ state'[h] = "Failed"
     /\ handshake'[h].step = "ended" /\ handshake'[h].done = handshake[h].done

LEMMA ShakesEffect ==
  ASSUME Types, NEW h \in Handle, Shakes(h)
  PROVE  Shaken(h) /\ \A g \in Handle \ {h} : handshake'[g] = handshake[g]
  <1>1. handshake \in [Handle -> HandshakeState]
        /\ state \in [Handle -> {"unborn", "Initializing", "Ready", "Failed", "Closing", "Closed"}]
    BY DEF Types
  <1>2. ASSUME NEW r, handshake' = [handshake EXCEPT ![h] = r]
        PROVE  handshake'[h] = r /\ \A g \in Handle \ {h} : handshake'[g] = handshake[g]
    BY <1>1, <1>2
  <1>3. ASSUME NEW to, Step(h, to)
        PROVE  /\ handshake'[h].step = to /\ handshake'[h].done = handshake[h].done
               /\ \A g \in Handle \ {h} : handshake'[g] = handshake[g]
    BY <1>1, <1>3 DEF Step, HandshakeState
  <1>4. CASE Answered(h)
    <2>1. CASE armed
      <3>1. handshake' = [handshake EXCEPT ![h] = [step |-> "claimed", done |-> NextBarrier]] /\ handshake[h].step = "running"
        BY <1>4, <2>1, Zenon DEF Answered
      <3>. QED  BY <1>2, <1>4, <2>1, <3>1 DEF Shaken
    <2>2. CASE ~armed
      BY <1>3, <1>4, <2>2, Zenon DEF Answered, Shaken
    <2>. QED  BY <2>1, <2>2
  <1>5. CASE Publish(h)
    <2>1. CASE state[h] = "Initializing"
      <3>1. Step(h, "published") /\ state' = [state EXCEPT ![h] = "Ready"] /\ handshake[h].step = "claimed"
        BY <1>5, <2>1, Zenon DEF Publish
      <3>2. state'[h] = "Ready"
        BY <1>1, <3>1
      <3>. QED  BY <1>3, <1>5, <2>1, <3>1, <3>2, Zenon DEF Shaken
    <2>2. CASE state[h] # "Initializing"
      <3>1. handshake' = [handshake EXCEPT ![h] = [step |-> "ended", done |-> None]] /\ handshake[h].step = "claimed"
        BY <1>5, <2>2, Zenon DEF Publish
      <3>. QED  BY <1>2, <1>5, <2>2, <3>1 DEF Shaken
    <2>. QED  BY <2>1, <2>2
  <1>6. CASE HandOff(h)
    <2>1. handshake' = [handshake EXCEPT ![h] = [step |-> "ended", done |-> None]] /\ handshake[h].step = "published"
      BY <1>6, Zenon DEF HandOff
    <2>. QED  BY <1>2, <1>6, <2>1 DEF Shaken
  <1>7. CASE ClaimLate(h)
    <2>1. /\ handshake' = [handshake EXCEPT ![h].done = NextBarrier] /\ handshake[h].step = "published"
          /\ handshake[h].done = None
      BY <1>7, Zenon DEF ClaimLate, LateClaim
    <2>2. /\ handshake'[h].done = NextBarrier /\ handshake'[h].step = handshake[h].step
          /\ \A g \in Handle \ {h} : handshake'[g] = handshake[g]
      BY <1>1, <2>1 DEF HandshakeState
    <2>. QED  BY <1>7, <2>1, <2>2 DEF Shaken
  <1>8. CASE HandshakeFails(h)
    BY <1>3, <1>8, Zenon DEF HandshakeFails, Shaken
  <1>9. CASE StoreFailed(h) \/ HandshakeTimesOut(h)
    <2>1. state' = [state EXCEPT ![h] = "Failed"] /\ Step(h, "ended")
      BY <1>9, Zenon DEF StoreFailed, HandshakeTimesOut
    <2>2. state'[h] = "Failed"
      BY <1>1, <2>1
    <2>3. handshake[h].step = IF StoreFailed(h) THEN "failed" ELSE "running"
      BY <1>9, Zenon DEF StoreFailed, HandshakeTimesOut
    <2>. QED  BY <1>3, <1>9, <2>1, <2>2, <2>3 DEF Shaken
  <1>. QED  BY <1>4, <1>5, <1>6, <1>7, <1>8, <1>9 DEF Shakes

LEMMA HandshakeMoves ==
  ASSUME Types, Structure, [Next]_vars, NEW h \in Handle
  PROVE  \/ handshake'[h] = handshake[h]
         \/ Spawns(h) /\ handshake'[h].step = "running" /\ handshake'[h].done = handshake[h].done
         \/ Shakes(h) /\ Shaken(h)
  <1>1. CASE SpawnFirst \/ Replace
    <2>1. handshake' = [handshake EXCEPT ![NextHandle].step = "running"] /\ NextHandle \in Handle
      BY <1>1, SpawnEffect DEF Spawned
    <2>2. handshake \in [Handle -> HandshakeState]
      BY DEF Types
    <2>. QED  BY <1>1, <2>1, <2>2, SpawnEffect DEF Spawns, HandshakeState
  <1>2. ASSUME NEW g \in Handle, Shakes(g)
        PROVE  handshake'[h] = handshake[h] \/ (Shakes(h) /\ Shaken(h))
    BY <1>2, ShakesEffect
  <1>. QED  BY <1>1, <1>2, Frames

(* Claims                                                                  *)

LEMMA ClaimEffect ==
  ASSUME Types, Structure, NEW holder \in {"handshake", "queued"}, NEW h \in Handle \cup {None}, Claim(holder, h)
  PROVE  /\ NextBarrier \in Barrier /\ NextBarrier \notin Claimed
         /\ armed' = FALSE /\ inFlight' = NextBarrier
         /\ barrier'[NextBarrier].sender = holder /\ barrier'[NextBarrier].handle = h
         /\ barrier'[NextBarrier].done = barrier[NextBarrier].done
         /\ \A b \in Barrier : b # NextBarrier => barrier'[b] = barrier[b]
         /\ Claimed' = Claimed \cup {NextBarrier}
         /\ \A b \in Claimed : b < NextBarrier
         /\ LastClaim' = NextBarrier
  <1>1. barrier \in [Barrier -> BarrierState]
    BY DEF Types
  <1>2. NextBarrier \in Barrier /\ NextBarrier \notin Claimed /\ \A c \in Unused : NextBarrier <= c
    BY NextBarrierFacts DEF Claim, Unused, Claimed
  <1>3. /\ armed' = FALSE /\ inFlight' = NextBarrier
        /\ barrier' = [barrier EXCEPT ![NextBarrier] = [@ EXCEPT !.sender = holder, !.handle = h]]
    BY Zenon DEF Claim
  <1>4. /\ barrier'[NextBarrier].sender = holder /\ barrier'[NextBarrier].handle = h
        /\ barrier'[NextBarrier].done = barrier[NextBarrier].done
        /\ \A b \in Barrier : b # NextBarrier => barrier'[b] = barrier[b]
    BY <1>1, <1>2, <1>3 DEF BarrierState
  <1>5. Claimed' = Claimed \cup {NextBarrier}
    BY <1>2, <1>4 DEF Claimed
  <1>6. \A b \in Claimed : b < NextBarrier
    BY <1>2, Numbers DEF Structure, Numbered, Claimed
  <1>7. LastClaim' = NextBarrier
    <2>1. NextBarrier \in Claimed' /\ \A c \in Claimed' : c <= NextBarrier
      BY <1>2, <1>5, <1>6, Numbers DEF Claimed
    <2>2. LastClaim' \in Claimed' /\ \A c \in Claimed' : c <= LastClaim'
      BY <2>1 DEF LastClaim
    <2>3. Claimed' \subseteq Nat
      BY Numbers DEF Claimed
    <2>. QED  BY <2>1, <2>2, <2>3
  <1>. QED  BY <1>2, <1>3, <1>4, <1>5, <1>6, <1>7

(* A debt is claimed.                                                      *)
Claims == (\E h \in Handle : (Answered(h) /\ armed) \/ ClaimLate(h)) \/ (HandOffReady /\ armed /\ forwarding)

LEMMA ClaimsEffect ==
  ASSUME Types, Structure, Claims
  PROVE  /\ NextBarrier \in Barrier /\ NextBarrier \notin Claimed
         /\ armed /\ armed' = FALSE /\ inFlight' = NextBarrier
         /\ \/ barrier'[NextBarrier].sender = "handshake" /\ barrier'[NextBarrier].handle = None
            \/ barrier'[NextBarrier].sender = "queued" /\ barrier'[NextBarrier].handle = mapped /\ mapped # None /\ HandOffReady
         /\ barrier'[NextBarrier].done = barrier[NextBarrier].done
         /\ \A b \in Barrier : b # NextBarrier => barrier'[b] = barrier[b]
         /\ Claimed' = Claimed \cup {NextBarrier}
         /\ \A b \in Claimed : b < NextBarrier
         /\ LastClaim' = NextBarrier
  <1>1. CASE \E h \in Handle : (Answered(h) /\ armed) \/ ClaimLate(h)
    <2>1. Claim("handshake", None) /\ armed
      BY <1>1, Zenon DEF Answered, ClaimLate, LateClaim
    <2>2. "handshake" \in {"handshake", "queued"} /\ None \in Handle \cup {None}
      OBVIOUS
    <2>. QED  BY <2>1, <2>2, ClaimEffect, Zenon
  <1>2. CASE HandOffReady /\ armed /\ forwarding
    <2>1. Claim("queued", mapped) /\ armed /\ mapped # None
      BY <1>2, Zenon DEF HandOffReady
    <2>2. mapped \in Handle \cup {None}
      BY DEF Types
    <2>. QED  BY <1>2, <2>1, <2>2, ClaimEffect
  <1>. QED  BY <1>1, <1>2 DEF Claims

LEMMA RearmEffect ==
  ASSUME Types, NEW b \in Barrier, Rearm(b)
  PROVE  /\ barrier'[b].sender = "dropped" /\ barrier'[b].handle = barrier[b].handle
         /\ barrier'[b].done = barrier[b].done
         /\ \A c \in Barrier : c # b => barrier'[c] = barrier[c]
         /\ IF inFlight = b THEN armed' = TRUE /\ inFlight' = None ELSE armed' = armed /\ inFlight' = inFlight
  <1>1. barrier \in [Barrier -> BarrierState]
    BY DEF Types
  <1>2. barrier' = [barrier EXCEPT ![b].sender = "dropped"]
    BY Zenon DEF Rearm
  <1>3. /\ barrier'[b].sender = "dropped" /\ barrier'[b].handle = barrier[b].handle
        /\ barrier'[b].done = barrier[b].done
        /\ \A c \in Barrier : c # b => barrier'[c] = barrier[c]
    BY <1>1, <1>2 DEF BarrierState
  <1>4. IF inFlight = b THEN armed' = TRUE /\ inFlight' = None ELSE armed' = armed /\ inFlight' = inFlight
    BY Zenon DEF Rearm
  <1>. QED  BY <1>3, <1>4

LEMMA SendReopenEffect ==
  ASSUME Types, NEW b \in Barrier, NEW h \in Handle, SendReopen(b, h), forwarding
  PROVE  /\ barrier'[b].sender = "queued" /\ barrier'[b].handle = h
         /\ barrier'[b].done = barrier[b].done
         /\ \A c \in Barrier : c # b => barrier'[c] = barrier[c]
         /\ UNCHANGED <<armed, inFlight>>
  <1>1. barrier \in [Barrier -> BarrierState]
    BY DEF Types
  <1>2. barrier' = [barrier EXCEPT ![b] = [@ EXCEPT !.sender = "queued", !.handle = h]] /\ UNCHANGED <<armed, inFlight>>
    BY Zenon DEF SendReopen
  <1>3. /\ barrier'[b].sender = "queued" /\ barrier'[b].handle = h
        /\ barrier'[b].done = barrier[b].done
        /\ \A c \in Barrier : c # b => barrier'[c] = barrier[c]
    BY <1>1, <1>2 DEF BarrierState
  <1>. QED  BY <1>2, <1>3

(* A barrier changes hands.                                                *)
GivenUp(b) == \E h \in Handle : handshake[h].done = b /\ handshake'[h].done = None

Moves(b) ==
  \/ /\ barrier[b].sender = "handshake" /\ GivenUp(b) /\ barrier'[b].done = barrier[b].done
     /\ \/ barrier'[b].sender = "queued" /\ barrier'[b].handle # None
        \/ barrier'[b].sender = "dropped"
  \/ /\ barrier[b].sender = "queued" /\ barrier'[b].sender = "dropped"
     /\ barrier'[b].handle = barrier[b].handle /\ barrier'[b].done = barrier[b].done
  \/ /\ barrier[b].sender = "queued" /\ barrier'[b].sender = "sweeping" /\ Sweep(b)
     /\ barrier'[b].handle = barrier[b].handle /\ barrier'[b].done = barrier[b].done
  \/ /\ barrier[b].sender = "sweeping" /\ barrier'[b].sender = "sweeping" /\ Sweep(b)
     /\ barrier'[b].handle = barrier[b].handle /\ barrier'[b].done = barrier[b].done
  \/ /\ barrier[b].sender = "sweeping" /\ barrier'[b].sender = "dropped" /\ Sweep(b)
     /\ barrier'[b].handle = barrier[b].handle

LEMMA SweepEffect ==
  ASSUME Types, NEW b \in Barrier, Sweep(b)
  PROVE  Moves(b) /\ (\A c \in Barrier : c # b => barrier'[c] = barrier[c]) /\ UNCHANGED <<armed, inFlight>>
  <1>1. barrier \in [Barrier -> BarrierState]
    BY DEF Types
  <1>2. UNCHANGED <<armed, inFlight>>
    BY Zenon DEF Sweep, BeginSweep, SweepStops, SweepReports, SweepPanics, SweepOpens, SweepMisses
  <1>3. CASE BeginSweep(b)
    <2>1. barrier[b].sender = "queued" /\ barrier' = [barrier EXCEPT ![b] = [@ EXCEPT !.sender = "sweeping", !.todo = Doc]]
      BY <1>3, Zenon DEF BeginSweep
    <2>2. /\ barrier'[b].sender = "sweeping" /\ barrier'[b].handle = barrier[b].handle /\ barrier'[b].done = barrier[b].done
          /\ \A c \in Barrier : c # b => barrier'[c] = barrier[c]
      BY <1>1, <2>1 DEF BarrierState
    <2>. QED  BY <1>2, <2>1, <2>2 DEF Moves
  <1>4. CASE SweepStops(b) \/ SweepPanics(b)
    <2>1. /\ barrier[b].sender = "sweeping"
          /\ barrier' = [barrier EXCEPT ![b] = [@ EXCEPT !.sender = "dropped", !.todo = {}, !.exempt = {}, !.repaired = TRUE]]
      BY <1>4, Zenon DEF SweepStops, SweepPanics, Drop
    <2>2. /\ barrier'[b].sender = "dropped" /\ barrier'[b].handle = barrier[b].handle
          /\ \A c \in Barrier : c # b => barrier'[c] = barrier[c]
      BY <1>1, <2>1 DEF BarrierState
    <2>. QED  BY <1>2, <2>1, <2>2 DEF Moves
  <1>5. CASE SweepReports(b)
    <2>. DEFINE reported == barrier[b].repaired /\ Heard(b)
    <2>1. /\ barrier[b].sender = "sweeping"
          /\ barrier' = [barrier EXCEPT ![b] = [@ EXCEPT !.sender = "dropped", !.repaired = TRUE, !.done = reported]]
      BY <1>5, Zenon DEF SweepReports
    <2>. HIDE DEF reported
    <2>2. /\ barrier'[b].sender = "dropped" /\ barrier'[b].handle = barrier[b].handle
          /\ \A c \in Barrier : c # b => barrier'[c] = barrier[c]
      BY <1>1, <2>1 DEF BarrierState
    <2>. QED  BY <1>2, <2>1, <2>2 DEF Moves
  <1>6. ASSUME NEW d \in Doc, SweepOpens(b, d) \/ \E owed \in BOOLEAN : SweepMisses(b, d, owed)
        PROVE  Moves(b) /\ \A c \in Barrier : c # b => barrier'[c] = barrier[c]
    <2>1. /\ barrier[b].sender = "sweeping"
          /\ \/ barrier' = [barrier EXCEPT ![b].todo = @ \ {d}]
             \/ barrier' = [barrier EXCEPT ![b].todo = @ \ {d}, ![b].repaired = FALSE]
             \/ barrier' = [barrier EXCEPT ![b].todo = @ \ {d}, ![b].exempt = @ \cup {d}]
      BY <1>6, Zenon DEF SweepOpens, SweepMisses
    <2>2. /\ barrier'[b].sender = "sweeping" /\ barrier'[b].handle = barrier[b].handle /\ barrier'[b].done = barrier[b].done
          /\ \A c \in Barrier : c # b => barrier'[c] = barrier[c]
      BY <1>1, <2>1 DEF BarrierState
    <2>. QED  BY <2>1, <2>2 DEF Moves
  <1>. QED  BY <1>2, <1>3, <1>4, <1>5, <1>6, Zenon DEF Sweep

(* Any step that is no claim.  The barrier goes from the registry when it  *)
(* is over, or because its debt is recorded again.                         *)
Registers ==
  /\ \A b \in Barrier : barrier'[b] = barrier[b] \/ Moves(b)
  /\ armed' = armed \/ armed' = TRUE
  /\ \A b \in Barrier : b = inFlight /\ barrier[b].sender = "handshake" /\ barrier'[b].sender = "dropped"
       => armed' = TRUE
  /\ \/ inFlight' = inFlight
     \/ /\ inFlight' = None
        /\ armed' = TRUE \/ barrier[inFlight].sender = "dropped"
        /\ (HandOffReady /\ ~forwarding) \/ barrier'[inFlight].sender = "dropped"

LEMMA ShakesRegister ==
  ASSUME Types, Structure, NEW h \in Handle, Shakes(h)
  PROVE  Claims \/ Registers
  <1>0. handshake[h].done \in Barrier \cup {None}
    BY DEF Types, HandshakeState
  <1>1. ASSUME UNCHANGED registry PROVE Registers
    BY <1>1 DEF registry, Registers, Moves
  <1>2. ASSUME handshake[h].done # None, handshake'[h].done = None, Rearm(handshake[h].done) PROVE Registers
    <2>. DEFINE b == handshake[h].done
    <2>1. b \in Barrier /\ barrier[b].sender = "handshake" /\ GivenUp(b)
      BY <1>0, <1>2 DEF Structure, Processes, GivenUp
    <2>2. /\ barrier'[b].sender = "dropped" /\ barrier'[b].handle = barrier[b].handle
          /\ barrier'[b].done = barrier[b].done
          /\ \A c \in Barrier : c # b => barrier'[c] = barrier[c]
          /\ IF inFlight = b THEN armed' = TRUE /\ inFlight' = None ELSE armed' = armed /\ inFlight' = inFlight
      BY <1>2, <2>1, RearmEffect
    <2>. HIDE DEF b
    <2>. QED  BY <2>1, <2>2 DEF Registers, Moves
  <1>3. CASE Answered(h) \/ ClaimLate(h)
    BY <1>1, <1>3 DEF Claims, Answered
  <1>4. CASE Publish(h)
    <2>1. CASE UNCHANGED registry
      BY <1>1, <2>1
    <2>2. CASE ~UNCHANGED registry
      <3>1. state[h] # "Initializing" /\ handshake[h].done # None /\ Rearm(handshake[h].done)
            /\ handshake' = [handshake EXCEPT ![h] = [step |-> "ended", done |-> None]]
        BY <1>4, <2>2, Zenon DEF Publish
      <3>2. handshake'[h].done = None
        BY <3>1 DEF Types
      <3>. QED  BY <1>2, <3>1, <3>2
    <2>. QED  BY <2>1, <2>2
  <1>5. CASE HandOff(h)
    <2>0. handshake'[h].done = None
      <3>1. handshake' = [handshake EXCEPT ![h] = [step |-> "ended", done |-> None]]
        BY <1>5, Zenon DEF HandOff
      <3>. QED  BY <3>1 DEF Types
    <2>1. CASE handshake[h].done = None
      BY <1>1, <1>5, <2>1 DEF HandOff
    <2>2. CASE handshake[h].done # None /\ ~forwarding
      BY <1>2, <1>5, <2>0, <2>2 DEF HandOff, SendReopen
    <2>3. CASE handshake[h].done # None /\ forwarding
      <3>. DEFINE b == handshake[h].done
      <3>1. b \in Barrier /\ barrier[b].sender = "handshake" /\ SendReopen(b, h) /\ GivenUp(b)
        BY <1>0, <1>5, <2>0, <2>3 DEF Structure, Processes, HandOff, GivenUp
      <3>2. /\ barrier'[b].sender = "queued" /\ barrier'[b].handle = h
            /\ barrier'[b].done = barrier[b].done
            /\ \A c \in Barrier : c # b => barrier'[c] = barrier[c]
            /\ UNCHANGED <<armed, inFlight>>
        BY <2>3, <3>1, SendReopenEffect
      <3>. HIDE DEF b
      <3>. QED  BY <3>1, <3>2, Numbers DEF Registers, Moves
    <2>. QED  BY <2>1, <2>2, <2>3
  <1>6. CASE HandshakeFails(h) \/ StoreFailed(h) \/ HandshakeTimesOut(h)
    BY <1>1, <1>6, Zenon DEF HandshakeFails, StoreFailed, HandshakeTimesOut
  <1>. QED  BY <1>3, <1>4, <1>5, <1>6 DEF Shakes

LEMMA RegistryMoves ==
  ASSUME Types, Structure, [Next]_vars
  PROVE  Claims \/ Registers
  <1>1. CASE UNCHANGED registry
    BY <1>1 DEF registry, Registers, Moves
  <1>2. CASE PurgeArms \/ ArmForDivert \/ DivertFails
    BY <1>2 DEF PurgeArms, ArmForDivert, DivertFails, registry, Registers, Moves
  <1>3. CASE HandOffReady
    BY <1>3 DEF HandOffReady, registry, Claims, Registers, Moves
  <1>4. CASE StopForwarding
    <2>1. barrier \in [Barrier -> BarrierState]
      BY DEF Types
    <2>2. UNCHANGED <<armed, inFlight>> /\ barrier' = [b \in Barrier |-> IF barrier[b].sender = "queued"
                                     THEN [barrier[b] EXCEPT !.sender = "dropped"]
                                     ELSE barrier[b]]
      BY <1>4, Zenon DEF StopForwarding
    <2>3. ASSUME NEW b \in Barrier PROVE barrier'[b] = barrier[b] \/ (Moves(b) /\ barrier[b].sender = "queued")
      <3>1. barrier'[b] = IF barrier[b].sender = "queued" THEN [barrier[b] EXCEPT !.sender = "dropped"] ELSE barrier[b]
        BY <2>2
      <3>2. CASE barrier[b].sender = "queued"
        BY <2>1, <3>1, <3>2 DEF BarrierState, Moves
      <3>. QED  BY <3>1, <3>2
    <2>. QED  BY <2>2, <2>3 DEF Registers
  <1>5. ASSUME NEW b \in Barrier, Sweep(b) PROVE Registers
    <2>1. Moves(b) /\ (\A c \in Barrier : c # b => barrier'[c] = barrier[c]) /\ UNCHANGED <<armed, inFlight>>
      BY <1>5, SweepEffect
    <2>2. barrier[b].sender # "handshake"
      BY <1>5 DEF Sweep, BeginSweep, SweepStops, SweepReports, SweepPanics, SweepOpens, SweepMisses
    <2>. QED  BY <2>1, <2>2 DEF Registers
  <1>6. ASSUME NEW c \in Command, RetireBarrier(c) PROVE Registers
    BY <1>6 DEF RetireBarrier, Registers, Moves, Structure, Waiters
  <1>. QED  BY <1>1, <1>2, <1>3, <1>4, <1>5, <1>6, ShakesRegister, Frames DEF Recover

LEMMA RegistersKeep ==
  ASSUME Registers
  PROVE  Claimed' = Claimed /\ LastClaim' = LastClaim
  <1>1. Claimed' = Claimed
    BY DEF Registers, Moves, Claimed
  <1>. QED  BY <1>1 DEF LastClaim

LEMMA PromiseMoves ==
  ASSUME Types, [Next]_vars, NEW h \in Handle
  PROVE  \/ promise'[h] = promise[h]
         \/ /\ Publish(h) /\ handshake[h].step = "claimed" /\ state[h] = "Initializing"
            /\ promise'[h] = handshake[h].done
  <1>1. promise \in [Handle -> Barrier \cup {None}]
    BY DEF Types
  <1>2. ASSUME NEW g \in Handle, Shakes(g)
        PROVE  \/ promise' = promise
               \/ /\ Publish(g) /\ handshake[g].step = "claimed" /\ state[g] = "Initializing"
                  /\ promise' = [promise EXCEPT ![g] = handshake[g].done]
    BY <1>2, Zenon DEF Shakes, Answered, Publish, HandOff, ClaimLate, HandshakeFails, StoreFailed, HandshakeTimesOut,
      history, quiet
  <1>3. promise' = promise \/ \E g \in Handle : Shakes(g)
    BY Frames
  <1>. QED  BY <1>1, <1>2, <1>3

LEMMA UsurpedMoves ==
  ASSUME Types, [Next]_vars
  PROVE  \/ usurped' = usurped
         \/ \E h \in Handle : /\ (Answered(h) /\ armed) \/ ClaimLate(h)
                              /\ usurped' = (usurped \/ Usurps(h))
  <1>1. ASSUME NEW h \in Handle, Shakes(h)
        PROVE  \/ usurped' = usurped
               \/ Answered(h) /\ usurped' = (usurped \/ (armed /\ Usurps(h)))
               \/ ClaimLate(h) /\ usurped' = (usurped \/ Usurps(h))
    BY <1>1, Zenon DEF Shakes, Answered, Publish, HandOff, ClaimLate, HandshakeFails, StoreFailed, HandshakeTimesOut,
      history, quiet
  <1>2. usurped' = usurped \/ \E h \in Handle : Shakes(h)
    BY Frames
  <1>3. usurped \in BOOLEAN /\ armed \in BOOLEAN
    BY DEF Types
  <1>. QED  BY <1>1, <1>2, <1>3

(* A step of one command.                                                  *)
Asked(c) ==
  \/ /\ FindConnection(c) /\ lock.step = "free" /\ mapped # None /\ State(mapped) = "Ready"
     /\ command[c].step = "idle" /\ command'[c].step = "found" /\ command'[c].handle = mapped
     /\ command'[c].settled = command[c].settled
  \/ /\ LookForBarrier(c) /\ command[c].step = "found" /\ command'[c].handle = command[c].handle
     /\ command'[c].settled = command[c].settled
     /\ \/ inFlight = None /\ command'[c].step = "clear"
        \/ inFlight # None /\ command'[c].step = "waiting" /\ command'[c].barrier = inFlight
  \/ /\ HearBarrier(c) /\ command[c].step = "waiting" /\ command'[c].step = "settled"
     /\ command'[c].handle = command[c].handle /\ command'[c].barrier = command[c].barrier
     /\ barrier[command[c].barrier].done \/ barrier[command[c].barrier].sender = "dropped"
     /\ command'[c].settled = barrier[command[c].barrier].done
  \/ /\ RetireBarrier(c) /\ command[c].step = "settled" /\ command[c].settled /\ command'[c].step = "clear"
     /\ command'[c].handle = command[c].handle /\ command'[c].barrier = command[c].barrier
     /\ command'[c].settled = command[c].settled
  \/ command'[c] = Idle

LEMMA CommandMoves ==
  ASSUME Types, [Next]_vars, NEW c \in Command
  PROVE  command'[c] = command[c] \/ (Commands(c) /\ Asked(c))
  <1>1. command \in [Command -> CommandState]
    BY DEF Types
  <1>2. ASSUME NEW x \in Command, Commands(x)
        PROVE  (\A y \in Command : y # x => command'[y] = command[y]) /\ Asked(x)
    <2>1. CASE FindConnection(x)
      <3>1. /\ command[x].step = "idle" /\ lock.step = "free" /\ mapped # None /\ State(mapped) = "Ready"
            /\ command' = [command EXCEPT ![x] = [command[x] EXCEPT !.step = "found", !.handle = mapped]]
        BY <2>1, Zenon DEF FindConnection
      <3>2. /\ command'[x].step = "found" /\ command'[x].handle = mapped
            /\ command'[x].settled = command[x].settled
            /\ \A y \in Command : y # x => command'[y] = command[y]
        BY <1>1, <3>1 DEF CommandState
      <3>. QED  BY <2>1, <3>1, <3>2 DEF Asked
    <2>2. CASE LookForBarrier(x)
      <3>1. /\ command[x].step = "found"
            /\ \/ inFlight = None /\ command' = [command EXCEPT ![x] = [command[x] EXCEPT !.step = "clear"]]
               \/ /\ inFlight # None
                  /\ command' = [command EXCEPT ![x] = [command[x] EXCEPT !.step = "waiting", !.barrier = inFlight]]
        BY <2>2, Zenon DEF LookForBarrier
      <3>2. CASE inFlight = None
        <4>1. /\ command'[x].step = "clear" /\ command'[x].handle = command[x].handle
              /\ command'[x].settled = command[x].settled
              /\ \A y \in Command : y # x => command'[y] = command[y]
          BY <1>1, <3>1, <3>2 DEF CommandState
        <4>. QED  BY <2>2, <3>1, <3>2, <4>1 DEF Asked
      <3>3. CASE inFlight # None
        <4>1. /\ command'[x].step = "waiting" /\ command'[x].handle = command[x].handle
              /\ command'[x].settled = command[x].settled /\ command'[x].barrier = inFlight
              /\ \A y \in Command : y # x => command'[y] = command[y]
          BY <1>1, <3>1, <3>3 DEF CommandState
        <4>. QED  BY <2>2, <3>1, <3>3, <4>1 DEF Asked
      <3>. QED  BY <3>2, <3>3
    <2>3. CASE HearBarrier(x)
      <3>. DEFINE heard == barrier[command[x].barrier].done
      <3>2. /\ command[x].step = "waiting"
            /\ barrier[command[x].barrier].done \/ barrier[command[x].barrier].sender = "dropped"
        BY <2>3, Zenon DEF HearBarrier
      <3>3. command' = [command EXCEPT ![x] = [command[x] EXCEPT !.step = "settled", !.settled = heard]]
        BY <2>3, Zenon DEF HearBarrier
      <3>. HIDE DEF heard
      <3>4. /\ command'[x].step = "settled" /\ command'[x].settled = heard
            /\ command'[x].handle = command[x].handle /\ command'[x].barrier = command[x].barrier
            /\ \A y \in Command : y # x => command'[y] = command[y]
        BY <1>1, <3>3 DEF CommandState
      <3>. QED  BY <2>3, <3>2, <3>4, Zenon DEF Asked, heard
    <2>4. CASE RetireBarrier(x)
      <3>1. /\ command[x].step = "settled"
            /\ \/ command[x].settled /\ command' = [command EXCEPT ![x] = [command[x] EXCEPT !.step = "clear"]]
               \/ command' = [command EXCEPT ![x] = Idle]
        BY <2>4, Zenon DEF RetireBarrier
      <3>2. CASE command[x].settled /\ command' = [command EXCEPT ![x] = [command[x] EXCEPT !.step = "clear"]]
        <4>1. /\ command'[x].step = "clear" /\ command'[x].settled = command[x].settled
              /\ command'[x].handle = command[x].handle /\ command'[x].barrier = command[x].barrier
              /\ \A y \in Command : y # x => command'[y] = command[y]
          BY <1>1, <3>2 DEF CommandState
        <4>. QED  BY <2>4, <3>1, <3>2, <4>1 DEF Asked
      <3>3. CASE command' = [command EXCEPT ![x] = Idle]
        BY <1>1, <3>3 DEF Asked
      <3>. QED  BY <3>1, <3>2, <3>3
    <2>5. CASE WaitTimesOut(x) \/ SendCommand(x)
      <3>1. command' = [command EXCEPT ![x] = Idle]
        BY <2>5, Zenon DEF WaitTimesOut, SendCommand
      <3>. QED  BY <1>1, <3>1 DEF Asked
    <2>. QED  BY <1>2, <2>1, <2>2, <2>3, <2>4, <2>5 DEF Commands
  <1>. QED  BY <1>2, Frames

-----------------------------------------------------------------------------
(* The structure is kept                                                   *)

LEMMA NumberedNext ==
  ASSUME Types, Structure, [Next]_vars
  PROVE  Numbered'
  <1>1. \A h \in Handle : promise'[h] # None => promise'[h] \in Claimed
    <2>. SUFFICES ASSUME NEW h \in Handle, promise'[h] # None PROVE promise'[h] \in Claimed
      OBVIOUS
    <2>1. CASE promise'[h] = promise[h]
      BY <2>1 DEF Structure, Numbered
    <2>2. CASE promise'[h] = handshake[h].done
      BY <2>2 DEF Structure, Processes, Types, HandshakeState, Claimed
    <2>. QED  BY <2>1, <2>2, PromiseMoves
  <1>2. CASE Claims
    <2>1. inFlight' \in Claimed' /\ Claimed \subseteq Claimed'
      BY <1>2, ClaimsEffect
    <2>2. ASSUME NEW b \in Barrier, NEW c \in Barrier, b <= c, c \in Claimed' PROVE b \in Claimed'
      <3>1. b = NextBarrier \/ b \notin Unused
        <4>1. NextBarrier \in Unused /\ (c = NextBarrier \/ c \in Claimed)
          BY <1>2, <2>2, ClaimsEffect DEF Unused, Claimed
        <4>2. \A a \in Unused : NextBarrier <= a
          BY <4>1, NextBarrierFacts
        <4>3. c \in Claimed => b \in Claimed
          BY <2>2 DEF Structure, Numbered
        <4>4. b <= NextBarrier /\ b \in Unused => b = NextBarrier
          BY <4>1, <4>2, Numbers DEF Unused
        <4>. QED  BY <2>2, <4>1, <4>3, <4>4 DEF Unused, Claimed
      <3>. QED  BY <1>2, <3>1, ClaimsEffect DEF Unused, Claimed
    <2>3. ASSUME NEW b \in Barrier
          PROVE  (barrier'[b].done => barrier'[b].sender = "dropped") /\ (b \notin Claimed' => barrier'[b].handle = None)
      <3>1. CASE b = NextBarrier
        BY <1>2, <3>1, ClaimsEffect DEF Structure, Numbered, Claimed
      <3>2. CASE b # NextBarrier
        BY <1>2, <3>2, ClaimsEffect DEF Structure, Numbered
      <3>. QED  BY <3>1, <3>2
    <2>. QED  BY <1>1, <2>1, <2>2, <2>3 DEF Numbered
  <1>3. CASE Registers
    <2>1. Claimed' = Claimed
      BY <1>3, RegistersKeep
    <2>2. inFlight' # None => inFlight' \in Claimed
      BY <1>3 DEF Registers, Structure, Numbered
    <2>3. ASSUME NEW b \in Barrier
          PROVE  (barrier'[b].done => barrier'[b].sender = "dropped") /\ (b \notin Claimed => barrier'[b].handle = None)
      BY <1>3 DEF Registers, Moves, Structure, Numbered, Claimed
    <2>. QED  BY <1>1, <2>1, <2>2, <2>3 DEF Numbered, Structure
  <1>. QED  BY <1>2, <1>3, RegistryMoves

LEMMA BornMoves ==
  ASSUME Types, Structure, [Next]_vars
  PROVE  /\ Born \subseteq Born'
         /\ \A h \in Born' : h \in Born \/ Spawns(h)
         /\ ~(SpawnFirst \/ Replace) => Born' = Born /\ Unborn' = Unborn
  <1>1. ASSUME NEW h \in Handle PROVE (h \in Born => h \in Born') /\ (h \in Born' => h \in Born \/ Spawns(h))
    BY StateMoves DEF Born
  <1>2. \A h \in Handle : h \in Unborn' <=> h \notin Born'
    BY DEF Born, Unborn
  <1>3. Born \subseteq Handle /\ Born' \subseteq Handle /\ Unborn = Handle \ Born /\ Unborn' = Handle \ Born'
    BY DEF Born, Unborn
  <1>4. ~(SpawnFirst \/ Replace) => Born' \subseteq Born
    BY <1>1, <1>3 DEF Spawns
  <1>. QED  BY <1>1, <1>3, <1>4

LEMMA MappingNext ==
  ASSUME Types, Structure, [Next]_vars
  PROVE  Mapping'
  <1>1. Mapping /\ Born \subseteq Born' /\ lock \in LockState /\ shutdown \in ShutdownState
    BY BornMoves DEF Structure, Types
  <1>2. CASE SpawnFirst \/ Replace
    <2>1. Spawned /\ NextHandle \in Born'
      BY <1>2, SpawnEffect DEF Spawned, Born, Types
    <2>2. mapped' = NextHandle
      BY <2>1, Zenon DEF Spawned
    <2>3. (lock' = lock /\ lock.step = "free") \/ lock' = Free
      BY <1>2, Zenon DEF SpawnFirst, Replace
    <2>4. lock'.step = "free" /\ lock'.by = "none"
      BY <1>1, <2>3 DEF Free, Mapping
    <2>5. UNCHANGED shutdown /\ (UNCHANGED teardown \/ (lock.step # "free" /\ TornDown(mapped)))
      BY <1>2 DEF SpawnFirst, Replace, ending
    <2>. QED  BY <1>1, <2>1, <2>2, <2>4, <2>5 DEF Mapping, TornDown
  <1>3. CASE ~(SpawnFirst \/ Replace)
    <2>1. Born' = Born /\ Unborn' = Unborn
      BY <1>3, BornMoves
    <2>. DEFINE Map == /\ mapped' # None => mapped' \in Born
                       /\ lock'.step # "free" => mapped' # None
                       /\ lock'.step = "free" => lock'.by = "none"
                       /\ lock'.by = "acquire" => Unborn # {}
                Tear == teardown' \subseteq Born
                Shut == shutdown'.handle # None => shutdown'.handle \in Born
    <2>2. UNCHANGED <<mapped, lock>> => Map
      BY <1>1 DEF Mapping
    <2>3. UNCHANGED <<shutdown, shuttingDown>> => Shut
      BY <1>1 DEF Mapping
    <2>4. ASSUME Acquire PROVE Map /\ Tear
      <3>1. ASSUME SpawnFails PROVE Map /\ Tear
        <4>1. mapped' = None /\ lock' = Free /\ (UNCHANGED teardown \/ TornDown(mapped)) /\ lock.step = "armed"
          BY <3>1, Zenon DEF SpawnFails
        <4>. QED  BY <1>1, <4>1 DEF Free, TornDown, Mapping
      <3>2. ASSUME NEW changed \in BOOLEAN, BeginReplace(changed) PROVE Map /\ Tear
        <4>1. /\ mapped' = mapped /\ lock' = [step |-> "purging", by |-> "acquire", changed |-> changed] /\ mapped # None
              /\ Unborn # {} /\ UNCHANGED teardown
          BY <3>2, Zenon DEF BeginReplace, ending
        <4>2. lock'.step = "purging"
          BY <4>1
        <4>. QED  BY <1>1, <4>1, <4>2 DEF Mapping
      <3>. QED  BY <1>3, <2>4, <3>1, <3>2 DEF Acquire
    <2>5. ASSUME Invalidate PROVE Map /\ Tear
      <3>1. ASSUME BeginRetire \/ BeginInvalidate PROVE Map /\ Tear
        <4>1. /\ mapped' = mapped /\ mapped # None /\ (UNCHANGED teardown \/ TornDown(mapped))
              /\ \/ lock' = [step |-> "purging", by |-> "retire", changed |-> TRUE]
                 \/ lock' = [step |-> "purging", by |-> "invalidate", changed |-> FALSE]
          BY <3>1, Zenon DEF BeginRetire, BeginInvalidate, ending
        <4>. QED  BY <1>1, <4>1 DEF TornDown, Mapping
      <3>2. ASSUME PurgeArms PROVE Map /\ Tear
        <4>1. mapped' = mapped /\ lock' = [lock EXCEPT !.step = "armed"] /\ UNCHANGED teardown /\ lock.step = "purging"
          BY <3>2, Zenon DEF PurgeArms, ending
        <4>2. lock'.step = "armed" /\ lock'.by = lock.by
          BY <1>1, <4>1 DEF LockState
        <4>. QED  BY <1>1, <4>1, <4>2 DEF Mapping
      <3>3. ASSUME AbortPurge \/ Remove PROVE Map /\ Tear
        <4>1. /\ mapped' = mapped \/ mapped' = None
              /\ lock' = Free /\ (UNCHANGED teardown \/ (TornDown(mapped) /\ lock.step = "armed"))
          BY <3>3, Zenon DEF AbortPurge, Remove, ending
        <4>. QED  BY <1>1, <4>1 DEF Free, TornDown, Mapping
      <3>. QED  BY <2>5, <3>1, <3>2, <3>3 DEF Invalidate
    <2>6. ASSUME Shutdown PROVE Shut
      <3>1. \/ UNCHANGED shutdown \/ shutdown' = Ended
            \/ shutdown' = [shutdown EXCEPT !.step = "flagged"]
            \/ shutdown' = [step |-> "expired", handle |-> None]
            \/ shutdown' = [step |-> "waiting", handle |-> mapped]
            \/ shutdown' = [step |-> "killing", handle |-> mapped]
        BY <2>6, Zenon DEF Shutdown, BeginShutdownAll, Snapshot, ShutdownTimesOut, KillAll, EndGraceful, StopForwarding,
          Graceful, ending
      <3>2. shutdown'.handle \in {None, mapped, shutdown.handle}
        BY <1>1, <3>1 DEF Ended, ShutdownState
      <3>. QED  BY <1>1, <3>2 DEF Mapping
    <2>7. ASSUME NEW h \in Handle, EndTeardown(h) PROVE Tear
      BY <1>1, <2>7 DEF EndTeardown, Mapping
    <2>8. Map
      BY <2>2, <2>4, <2>5, Frames
    <2>9. Tear
      BY <1>1, <2>4, <2>5, <2>7, Frames DEF Mapping
    <2>10. Shut
      BY <2>3, <2>6, Frames
    <2>. QED  BY <2>1, <2>8, <2>9, <2>10 DEF Mapping
  <1>. QED  BY <1>2, <1>3

LEMMA SpawnSets ==
  ASSUME Types, Structure, [Next]_vars, NEW h \in Handle, Spawns(h)
  PROVE  state'[h] = "Initializing" /\ handshake'[h].step = "running" /\ handshake'[h].done = handshake[h].done
         /\ mapped' = h /\ UNCHANGED <<held, registry, command, history, forwarding, shutdown, shuttingDown>>
  <1>1. /\ mapped' = h /\ state' = [state EXCEPT ![h] = "Initializing"]
        /\ handshake' = [handshake EXCEPT ![h].step = "running"]
    BY Zenon DEF Spawns, SpawnFirst, Replace, Spawned
  <1>2. state'[h] = "Initializing"
    BY <1>1 DEF Types
  <1>3. handshake'[h].step = "running" /\ handshake'[h].done = handshake[h].done
    BY <1>1 DEF Types, HandshakeState
  <1>4. UNCHANGED <<held, registry, command, history, forwarding, shutdown, shuttingDown>>
    BY Zenon DEF Spawns, SpawnFirst, Replace, demand, quiet, ending
  <1>. QED  BY <1>1, <1>2, <1>3, <1>4

(* A barrier that is over stays as it is.                                  *)
LEMMA DroppedStays ==
  ASSUME Types, Structure, [Next]_vars, NEW b \in Barrier, barrier[b].sender = "dropped"
  PROVE  barrier'[b] = barrier[b]
  <1>1. CASE Claims
    BY <1>1, ClaimsEffect DEF Claimed
  <1>2. CASE Registers
    BY <1>2 DEF Registers, Moves
  <1>. QED  BY <1>1, <1>2, RegistryMoves

LEMMA ClaimedStays ==
  ASSUME Types, Structure, [Next]_vars
  PROVE  Claimed \subseteq Claimed'
  <1>1. CASE Claims
    BY <1>1, ClaimsEffect
  <1>. QED  BY <1>1, RegistersKeep, RegistryMoves

(* Its sender leaves a handshake exactly when the handshake gives it up.   *)
LEMMA OwnerKeeps ==
  ASSUME Types, Structure, [Next]_vars, NEW b \in Barrier, barrier[b].sender = "handshake"
  PROVE  barrier'[b].sender = "handshake" \/ GivenUp(b)
  <1>1. CASE Claims
    BY <1>1, ClaimsEffect DEF Claimed
  <1>2. CASE Registers
    BY <1>2 DEF Registers, Moves
  <1>. QED  BY <1>1, <1>2, RegistryMoves

LEMMA OwnerGives ==
  ASSUME Types, Structure, [Next]_vars, NEW h \in Handle, handshake[h].done # None, handshake'[h].done # handshake[h].done
  PROVE  handshake'[h].done = None /\ barrier'[handshake[h].done].sender # "handshake"
  <1>. DEFINE b == handshake[h].done
  <1>1. b \in Barrier /\ handshake[h].step \in {"claimed", "published"}
    BY DEF Types, HandshakeState, Structure, Processes
  <1>2. Shakes(h) /\ Shaken(h)
    BY HandshakeMoves
  <1>3. handshake'[h].done = None /\ (HandOff(h) \/ (Publish(h) /\ state[h] # "Initializing"))
    BY <1>1, <1>2 DEF Shaken
  <1>4. Rearm(b) \/ (SendReopen(b, h) /\ forwarding)
    BY <1>3, Zenon DEF HandOff, Publish, SendReopen
  <1>5. barrier'[b].sender # "handshake"
    <2>. HIDE DEF b
    <2>. QED  BY <1>1, <1>4, RearmEffect, SendReopenEffect
  <1>. QED  BY <1>3, <1>5

LEMMA ProcessesNext ==
  ASSUME TypeOK, Structure, [Next]_vars
  PROVE  Processes'
  <1>. SUFFICES ASSUME NEW h \in Handle
       PROVE  /\ h \notin Born' => promise'[h] = None /\ held'[h] = {} /\ ~running'[h]
              /\ h \in Born' <=> handshake'[h].step # "none"
              /\ handshake'[h].done # None => /\ handshake'[h].step \in {"claimed", "published"}
                                              /\ barrier'[handshake'[h].done].sender = "handshake"
              /\ state'[h] = "Initializing" => handshake'[h].step \notin {"published", "ended"}
              /\ state'[h] = "Ready" => handshake'[h].step \in {"published", "ended"}
    BY DEF Processes
  <1>. USE DEF TypeOK
  <1>0. /\ h \notin Born => promise[h] = None /\ held[h] = {} /\ ~running[h]
        /\ h \in Born <=> handshake[h].step # "none"
        /\ handshake[h].done # None => /\ handshake[h].step \in {"claimed", "published"}
                                       /\ barrier[handshake[h].done].sender = "handshake"
        /\ state[h] = "Initializing" => handshake[h].step \notin {"published", "ended"}
        /\ state[h] = "Ready" => handshake[h].step \in {"published", "ended"}
    BY DEF Structure, Processes
  <1>1. h \in Born' <=> h \in Born \/ Spawns(h)
    BY BornMoves, SpawnSets DEF Born
  <1>2. h \notin Born' => promise'[h] = None /\ held'[h] = {} /\ ~running'[h]
    BY <1>0, <1>1, PromiseMoves, ProcessMoves DEF Born
  <1>3. h \in Born' <=> handshake'[h].step # "none"
    BY <1>0, <1>1, HandshakeMoves, SpawnSets DEF Shaken
  <1>4. ASSUME handshake'[h].done # None
        PROVE  handshake'[h].step \in {"claimed", "published"} /\ barrier'[handshake'[h].done].sender = "handshake"
    <2>1. CASE handshake'[h].done = handshake[h].done
      <3>. DEFINE b == handshake[h].done
      <3>1. b \in Barrier /\ barrier[b].sender = "handshake" /\ handshake[h].step \in {"claimed", "published"}
        BY <1>0, <1>4, <2>1 DEF Types, HandshakeState
      <3>2. ~GivenUp(b)
        BY <1>4, <2>1, <3>1 DEF OneOwner, GivenUp
      <3>3. barrier'[b].sender = "handshake"
        BY <3>1, <3>2, OwnerKeeps
      <3>4. handshake'[h].step \in {"claimed", "published"}
        BY <1>4, <2>1, <3>1, HandshakeMoves DEF Shaken, Spawns, Structure, Processes
      <3>. QED  BY <2>1, <3>3, <3>4
    <2>2. CASE handshake'[h].done # handshake[h].done
      <3>1. handshake[h].done = None
        BY <1>4, <2>2, OwnerGives
      <3>2. /\ (Answered(h) /\ armed) \/ ClaimLate(h)
            /\ handshake'[h].done = NextBarrier /\ handshake'[h].step \in {"claimed", "published"}
        BY <1>4, <2>2, <3>1, HandshakeMoves DEF Shaken
      <3>3. Claim("handshake", None)
        BY <3>2, Zenon DEF Answered, ClaimLate
      <3>4. "handshake" \in {"handshake", "queued"} /\ None \in Handle \cup {None}
        OBVIOUS
      <3>5. barrier'[NextBarrier].sender = "handshake"
        BY <3>3, <3>4, ClaimEffect, Zenon
      <3>. QED  BY <3>2, <3>5
    <2>. QED  BY <2>1, <2>2
  <1>5. state'[h] = "Initializing" => handshake'[h].step \notin {"published", "ended"}
    <2>1. CASE Spawns(h)
      BY <2>1, SpawnSets
    <2>2. CASE ~Spawns(h)
      <3>. SUFFICES ASSUME state'[h] = "Initializing" PROVE handshake'[h].step \notin {"published", "ended"}
        OBVIOUS
      <3>1. state[h] = "Initializing"
        BY <2>2, StateMoves
      <3>2. State(h) \notin {"Closing", "Closed"}
        BY <3>1 DEF State
      <3>3. handshake[h].step \notin {"published", "ended"}
        BY <1>0, <3>1
      <3>4. ASSUME Shaken(h) PROVE handshake'[h].step \notin {"published", "ended"}
        BY <3>1, <3>2, <3>3, <3>4 DEF Shaken
      <3>. QED  BY <2>2, <3>3, <3>4, HandshakeMoves
    <2>. QED  BY <2>1, <2>2
  <1>6. state'[h] = "Ready" => handshake'[h].step \in {"published", "ended"}
    <2>1. CASE Publish(h) /\ state[h] = "Initializing"
      <3>1. handshake[h].step = "claimed" /\ Shakes(h)
        BY <2>1, Zenon DEF Publish, Shakes
      <3>. QED  BY <2>1, <3>1, ShakesEffect DEF Shaken
    <2>2. CASE state'[h] = state[h]
      BY <1>0, <2>2, HandshakeMoves DEF Shaken, Spawns, Born
    <2>. QED  BY <2>1, <2>2, StateMoves
  <1>. QED  BY <1>2, <1>3, <1>4, <1>5, <1>6

(* A handshake that published or ended did so for good.                    *)
LEMMA EndedStays ==
  ASSUME Types, Structure, [Next]_vars, NEW h \in Handle, handshake[h].step \in {"published", "ended"}
  PROVE  handshake'[h].step \in {"published", "ended"}
  BY HandshakeMoves DEF Shaken, Spawns, Structure, Processes

LEMMA WaitersNext ==
  ASSUME Types, Structure, [Next]_vars
  PROVE  Waiters'
  <1>. SUFFICES ASSUME NEW c \in Command
       PROVE  /\ command'[c].step # "idle" =>
                   /\ command'[c].handle \in Born'
                   /\ handshake'[command'[c].handle].step \in {"published", "ended"}
              /\ command'[c].step \in {"waiting", "settled"} => command'[c].barrier \in Claimed'
              /\ command'[c].step = "settled" => barrier'[command'[c].barrier].sender = "dropped"
              /\ command'[c].settled => /\ command'[c].step \in {"settled", "clear"}
                                        /\ command'[c].barrier \in Claimed'
                                        /\ barrier'[command'[c].barrier].done
    BY DEF Waiters
  <1>1. /\ command[c].step # "idle" => /\ command[c].handle \in Born
                                       /\ handshake[command[c].handle].step \in {"published", "ended"}
        /\ command[c].step \in {"waiting", "settled"} => command[c].barrier \in Claimed
        /\ command[c].step = "settled" => barrier[command[c].barrier].sender = "dropped"
        /\ command[c].settled => /\ command[c].step \in {"settled", "clear"}
                                 /\ command[c].barrier \in Claimed
                                 /\ barrier[command[c].barrier].done
    BY DEF Structure, Waiters
  <1>2. Claimed \subseteq Claimed' /\ Born \subseteq Born' /\ Claimed \subseteq Barrier /\ Born \subseteq Handle
    BY ClaimedStays, BornMoves DEF Claimed, Born
  <1>3. \A b \in Claimed : /\ barrier[b].sender = "dropped" => barrier'[b] = barrier[b]
                           /\ barrier[b].done => barrier[b].sender = "dropped"
    BY <1>2, DroppedStays DEF Structure, Numbered
  <1>4. \A h \in Born : handshake[h].step \in {"published", "ended"} => handshake'[h].step \in {"published", "ended"}
    BY <1>2, EndedStays
  <1>5. CASE command'[c] = command[c]
    BY <1>1, <1>2, <1>3, <1>4, <1>5
  <1>6. CASE command'[c] = Idle
    BY <1>6 DEF Idle
  <1>7. CASE FindConnection(c) /\ mapped # None /\ State(mapped) = "Ready" /\ command[c].step = "idle"
             /\ command'[c].step = "found" /\ command'[c].handle = mapped /\ command'[c].settled = command[c].settled
    <2>1. mapped \in Born /\ state[mapped] = "Ready"
      BY <1>7 DEF Structure, Mapping, State
    <2>2. handshake[mapped].step \in {"published", "ended"}
      BY <1>2, <2>1 DEF Structure, Processes
    <2>. QED  BY <1>1, <1>2, <1>4, <1>7, <2>1, <2>2
  <1>8. CASE /\ command[c].step = "found" /\ command'[c].handle = command[c].handle
             /\ command'[c].settled = command[c].settled
             /\ \/ inFlight = None /\ command'[c].step = "clear"
                \/ inFlight # None /\ command'[c].step = "waiting" /\ command'[c].barrier = inFlight
    <2>1. inFlight # None => inFlight \in Claimed
      BY DEF Structure, Numbered
    <2>. QED  BY <1>1, <1>2, <1>4, <1>8, <2>1
  <1>9. CASE /\ command[c].step = "waiting" /\ command'[c].step = "settled"
             /\ command'[c].handle = command[c].handle /\ command'[c].barrier = command[c].barrier
             /\ barrier[command[c].barrier].done \/ barrier[command[c].barrier].sender = "dropped"
             /\ command'[c].settled = barrier[command[c].barrier].done
    BY <1>1, <1>2, <1>3, <1>4, <1>9
  <1>10. CASE /\ command[c].step = "settled" /\ command[c].settled /\ command'[c].step = "clear"
              /\ command'[c].handle = command[c].handle /\ command'[c].barrier = command[c].barrier
              /\ command'[c].settled = command[c].settled
    BY <1>1, <1>2, <1>3, <1>4, <1>10
  <1>. QED  BY <1>5, <1>6, <1>7, <1>8, <1>9, <1>10, CommandMoves DEF Asked

LEMMA OneOwnerNext ==
  ASSUME TypeOK, Structure, [Next]_vars
  PROVE  OneOwner'
  <1>. USE DEF TypeOK
  <1>. SUFFICES ASSUME NEW b \in Barrier
       PROVE  barrier'[b].sender = "handshake" <=>
                \E h \in Handle : /\ handshake'[h].done = b
                                  /\ \A g \in Handle \ {h} : handshake'[g].done # b
    BY DEF OneOwner
  <1>1. Processes'
    BY ProcessesNext
  <1>2. ASSUME NEW h \in Handle, handshake'[h].done = b PROVE barrier'[b].sender = "handshake"
    BY <1>1, <1>2, Numbers DEF Processes
  <1>3. ASSUME barrier'[b].sender = "handshake"
        PROVE  \E h \in Handle : handshake'[h].done = b /\ \A g \in Handle \ {h} : handshake'[g].done # b
    <2>1. CASE barrier[b].sender = "handshake"
      <3>1. PICK h \in Handle : handshake[h].done = b /\ \A g \in Handle \ {h} : handshake[g].done # b
        BY <2>1 DEF OneOwner
      <3>2. handshake'[h].done = b
        BY <1>3, <3>1, OwnerGives, Numbers
      <3>3. ASSUME NEW g \in Handle \ {h}, handshake'[g].done = b PROVE FALSE
        <4>1. handshake'[g].done # handshake[g].done
          BY <3>1, <3>3
        <4>2. handshake[g].done = None
          BY <3>3, <4>1, OwnerGives, Numbers
        <4>3. (Answered(g) /\ armed) \/ ClaimLate(g)
          BY <3>3, <4>1, HandshakeMoves, Numbers DEF Shaken
        <4>4. Claims
          BY <4>3 DEF Claims
        <4>5. handshake'[g].done = NextBarrier
          BY <3>3, <4>1, HandshakeMoves, Numbers DEF Shaken
        <4>. QED  BY <2>1, <3>3, <4>4, <4>5, ClaimsEffect DEF Claimed
      <3>. QED  BY <3>2, <3>3
    <2>2. CASE barrier[b].sender # "handshake"
      <3>1. Claims /\ b = NextBarrier
        BY <1>3, <2>2, RegistryMoves, ClaimsEffect DEF Registers, Moves
      <3>2. PICK h \in Handle : (Answered(h) /\ armed) \/ ClaimLate(h)
        <4>1. ASSUME HandOffReady, armed, forwarding PROVE FALSE
          <5>1. Claim("queued", mapped) /\ mapped # None
            BY <4>1, Zenon DEF HandOffReady
          <5>2. "queued" \in {"handshake", "queued"} /\ mapped \in Handle \cup {None}
            BY DEF Types
          <5>3. barrier'[NextBarrier].sender = "queued"
            BY <5>1, <5>2, ClaimEffect, Zenon
          <5>. QED  BY <1>3, <3>1, <5>3
        <4>. QED  BY <3>1, <4>1 DEF Claims
      <3>3. handshake'[h].done = b
        <4>1. ASSUME Answered(h), armed PROVE handshake'[h].done = NextBarrier
          <5>1. handshake' = [handshake EXCEPT ![h] = [step |-> "claimed", done |-> NextBarrier]]
            BY <4>1, Zenon DEF Answered
          <5>. QED  BY <5>1 DEF Types
        <4>2. ASSUME ClaimLate(h) PROVE handshake'[h].done = NextBarrier
          <5>1. handshake' = [handshake EXCEPT ![h].done = NextBarrier]
            BY <4>2, Zenon DEF ClaimLate
          <5>. QED  BY <5>1 DEF Types, HandshakeState
        <4>. QED  BY <3>1, <3>2, <4>1, <4>2
      <3>4. ASSUME NEW g \in Handle \ {h} PROVE handshake'[g].done # b
        <4>1. handshake'[g].done = handshake[g].done
          BY <3>2, ShakesEffect DEF Shakes
        <4>2. handshake[g].done # b
          BY <2>2, Numbers DEF Structure, Processes
        <4>. QED  BY <4>1, <4>2
      <3>. QED  BY <3>3, <3>4
    <2>. QED  BY <2>1, <2>2
  <1>. QED  BY <1>2, <1>3

LEMMA StructureNext ==
  ASSUME TypeOK, Structure, [Next]_vars
  PROVE  TypeOK' /\ Structure'
  BY TypesNext, OneOwnerNext, NumberedNext, MappingNext, ProcessesNext, WaitersNext DEF TypeOK, Structure

-----------------------------------------------------------------------------
(* No acquisition behind the snapshot                                      *)

LEMMA RefusedNext ==
  ASSUME Types, Structure, Refused, [Next]_vars
  PROVE  Refused'
  <1>1. lock \in LockState /\ shutdown \in ShutdownState /\ shuttingDown \in BOOLEAN
        /\ (lock.step = "free" => lock.by = "none")
    BY DEF Types, Structure, Mapping
  <1>2. CASE UNCHANGED <<lock, shutdown, shuttingDown>>
    BY <1>2 DEF Refused
  <1>3. CASE Acquire
    <2>1. CASE lock' = lock \/ lock' = Free
      <3>1. UNCHANGED <<shutdown, shuttingDown>>
        BY <1>3, Zenon DEF Acquire, SpawnFirst, Replace, SpawnFails, BeginReplace, ending
      <3>. QED  BY <1>1, <2>1, <3>1 DEF Refused, Free
    <2>2. ASSUME NEW changed \in BOOLEAN, BeginReplace(changed) PROVE Refused'
      <3>1. UNCHANGED <<shutdown, shuttingDown>> /\ ~shuttingDown
        BY <2>2, Zenon DEF BeginReplace, ending
      <3>. QED  BY <3>1 DEF Refused
    <2>. QED  BY <1>3, <2>1, <2>2, Zenon DEF Acquire, SpawnFirst, Replace, SpawnFails
  <1>4. CASE Invalidate
    <2>1. /\ UNCHANGED <<shutdown, shuttingDown>>
          /\ \/ lock' = Free \/ lock' = [lock EXCEPT !.step = "armed"]
             \/ lock' = [step |-> "purging", by |-> "retire", changed |-> TRUE]
             \/ lock' = [step |-> "purging", by |-> "invalidate", changed |-> FALSE]
      BY <1>4, Zenon DEF Invalidate, BeginRetire, BeginInvalidate, PurgeArms, AbortPurge, Remove, ending
    <2>2. lock'.by \in {"none", "retire", "invalidate", lock.by}
      BY <1>1, <2>1 DEF LockState, Free
    <2>. QED  BY <2>1, <2>2 DEF Refused
  <1>5. CASE Shutdown
    <2>1. lock' = lock
      BY <1>5, Zenon DEF Shutdown, BeginShutdownAll, Snapshot, ShutdownTimesOut, KillAll, EndGraceful, StopForwarding, pool
    <2>2. CASE BeginShutdownAll
      <3>1. shuttingDown' = TRUE /\ shutdown' = [shutdown EXCEPT !.step = "flagged"]
        BY <2>2, Zenon DEF BeginShutdownAll
      <3>2. shutdown'.step = "flagged"
        BY <1>1, <3>1 DEF ShutdownState
      <3>. QED  BY <3>1, <3>2 DEF Refused
    <2>3. CASE Snapshot
      <3>1. shutdown.step = "flagged" /\ lock.step = "free" /\ UNCHANGED shuttingDown
        BY <2>3, Zenon DEF Snapshot
      <3>. QED  BY <1>1, <2>1, <3>1 DEF Refused
    <2>4. CASE ShutdownTimesOut \/ KillAll \/ EndGraceful("waiting") \/ EndGraceful("killing")
      <3>1. shutdown.step \in {"waiting", "expired", "killing"} /\ UNCHANGED shuttingDown
        BY <2>4 DEF ShutdownTimesOut, KillAll, EndGraceful
      <3>. QED  BY <1>1, <2>1, <3>1 DEF Refused
    <2>. QED  BY <1>2, <1>5, <2>1, <2>2, <2>3, <2>4 DEF Shutdown, StopForwarding, ending
  <1>. QED  BY <1>2, <1>3, <1>4, <1>5, Frames

-----------------------------------------------------------------------------
(* The debt                                                                *)

LEMMA DebtStays ==
  ASSUME Types, Structure, DebtInv, [Next]_vars, Debt
  PROVE  Debt'
  <1>1. CASE Claims
    BY <1>1, ClaimsEffect, Numbers DEF Debt
  <1>2. CASE Registers
    <2>1. Claimed' = Claimed /\ LastClaim' = LastClaim
      BY <1>2, RegistersKeep
    <2>2. CASE armed
      BY <1>2, <2>2 DEF Registers, Debt
    <2>3. CASE ~armed
      <3>1. LastClaim \in Barrier
        BY <2>3, LastClaimFacts DEF Debt, Claimed
      <3>2. barrier'[LastClaim] = barrier[LastClaim] \/ Moves(LastClaim)
        BY <1>2, <3>1 DEF Registers
      <3>3. CASE barrier[LastClaim].sender = "handshake"
        <4>1. inFlight = LastClaim
          BY <2>3, <3>3 DEF DebtInv, Debt, Structure, Numbered, Claimed
        <4>. QED  BY <1>2, <2>1, <2>3, <3>1, <3>2, <3>3, <4>1 DEF Registers, Moves, Debt
      <3>4. CASE barrier[LastClaim].sender # "handshake"
        BY <2>1, <2>3, <3>2, <3>4 DEF Moves, Debt
      <3>. QED  BY <3>3, <3>4
    <2>. QED  BY <2>2, <2>3
  <1>. QED  BY <1>1, <1>2, RegistryMoves

LEMMA SucceedsMoves ==
  ASSUME Types, Structure, [Next]_vars, Succeeds'
  PROVE  Succeeds \/ armed' = TRUE
  <1>. SUFFICES ASSUME ~Succeeds PROVE armed' = TRUE
    OBVIOUS
  <1>1. lock.step # "armed" /\ (mapped = 1 \/ (Born = {} /\ mapped = None))
    BY DEF Succeeds, Structure, Mapping
  <1>2. CASE SpawnFirst
    <2>1. Born = {} /\ lock.step = "free" /\ lock' = lock
      BY <1>1, <1>2 DEF SpawnFirst, None
    <2>2. NextHandle = 1
      <3>1. Unborn = Handle /\ NextHandle \in Handle
        BY <1>2, <2>1, SpawnEffect DEF Born, Unborn
      <3>. QED  BY <1>2, <3>1, SpawnEffect, ConnectionsAssumption DEF Handle
    <2>3. mapped' = 1
      BY <1>2, <2>2, Zenon DEF SpawnFirst, Spawned
    <2>. QED  BY <2>1, <2>3 DEF Succeeds
  <1>3. CASE PurgeArms
    BY <1>3 DEF PurgeArms
  <1>4. CASE ~SpawnFirst /\ ~PurgeArms
    <2>1. mapped' = mapped /\ lock'.step # "armed" /\ ~(SpawnFirst \/ Replace)
      <3>1. CASE UNCHANGED <<mapped, lock>>
        BY <1>1, <1>4, <3>1 DEF Replace
      <3>2. CASE Acquire \/ Invalidate
        <4>1. /\ mapped' = mapped
              /\ \/ \E changed \in BOOLEAN : lock' = [step |-> "purging", by |-> "acquire", changed |-> changed]
                 \/ lock' = [step |-> "purging", by |-> "retire", changed |-> TRUE]
                 \/ lock' = [step |-> "purging", by |-> "invalidate", changed |-> FALSE]
                 \/ lock' = Free
          BY <1>1, <1>4, <3>2, Zenon DEF Acquire, Replace, SpawnFails, BeginReplace, Invalidate, BeginRetire, BeginInvalidate,
            AbortPurge, Remove
        <4>2. ~Replace
          BY <1>1 DEF Replace
        <4>. QED  BY <1>4, <4>1, <4>2 DEF Free
      <3>. QED  BY <3>1, <3>2, Frames
    <2>. QED  BY <1>1, <1>4, <2>1, BornMoves DEF Succeeds
  <1>. QED  BY <1>2, <1>3, <1>4

LEMMA DebtInvNext ==
  ASSUME Types, Structure, DebtInv, [Next]_vars
  PROVE  DebtInv'
  <1>1. Succeeds' => Debt'
    BY DebtStays, SucceedsMoves DEF DebtInv, Debt
  <1>2. ASSUME Claimed' # {}, ~armed', barrier'[LastClaim'].sender = "handshake"
        PROVE  inFlight' = LastClaim'
    <2>1. CASE Claims
      BY <2>1, ClaimsEffect
    <2>2. CASE Registers
      <3>1. Claimed' = Claimed /\ LastClaim' = LastClaim
        BY <2>2, RegistersKeep
      <3>2. LastClaim \in Barrier
        BY <1>2, <3>1, LastClaimFacts DEF Claimed
      <3>3. ~armed /\ barrier[LastClaim].sender = "handshake"
        BY <1>2, <2>2, <3>1, <3>2 DEF Registers, Moves
      <3>. QED  BY <1>2, <2>2, <3>1, <3>3 DEF Registers, DebtInv
    <2>. QED  BY <2>1, <2>2, RegistryMoves
  <1>. QED  BY <1>1, <1>2 DEF DebtInv

-----------------------------------------------------------------------------
(* Who claimed                                                             *)

(* A mapped process is the one of before or a newborn.                     *)
LEMMA MappedMoves ==
  ASSUME Types, Structure, [Next]_vars
  PROVE  \/ UNCHANGED <<mapped, lock>>
         \/ mapped' = mapped /\ lock.step = "free" /\ lock'.step = "purging"
         \/ PurgeArms /\ mapped' = mapped /\ lock'.step = "armed"
         \/ mapped' = mapped /\ AbortPurge /\ lock.step # "free" /\ lock'.step = "free"
         \/ SpawnFirst /\ Spawns(mapped') /\ mapped = None /\ lock' = lock /\ lock.step = "free"
         \/ Replace /\ Spawns(mapped') /\ lock.step = "armed" /\ lock'.step = "free"
         \/ mapped' = None /\ lock.step = "armed" /\ lock'.step = "free"
  <1>1. lock \in LockState
    BY DEF Types
  <1>2. CASE SpawnFirst \/ Replace
    <2>1. mapped' = NextHandle
      BY <1>2, Zenon DEF SpawnFirst, Replace, Spawned
    <2>2. Spawns(mapped')
      BY <1>2, <2>1, SpawnEffect DEF Spawns
    <2>3. \/ SpawnFirst /\ mapped = None /\ lock' = lock /\ lock.step = "free"
          \/ Replace /\ lock.step = "armed" /\ lock' = Free
      BY <1>2, Zenon DEF SpawnFirst, Replace
    <2>. QED  BY <2>2, <2>3 DEF Free
  <1>3. CASE SpawnFails \/ Remove
    <2>1. mapped' = None /\ lock.step = "armed" /\ lock' = Free
      BY <1>3, Zenon DEF SpawnFails, Remove
    <2>. QED  BY <2>1 DEF Free
  <1>4. CASE AbortPurge
    <2>1. mapped' = mapped /\ lock.step \in {"purging", "armed"} /\ lock' = Free
      BY <1>4, Zenon DEF AbortPurge
    <2>. QED  BY <1>4, <2>1 DEF Free
  <1>5. CASE PurgeArms
    <2>1. mapped' = mapped /\ lock' = [lock EXCEPT !.step = "armed"]
      BY <1>5, Zenon DEF PurgeArms
    <2>. QED  BY <1>1, <1>5, <2>1 DEF LockState
  <1>6. CASE BeginRetire \/ BeginInvalidate \/ \E changed \in BOOLEAN : BeginReplace(changed)
    <2>1. /\ mapped' = mapped /\ lock.step = "free"
          /\ \/ \E changed \in BOOLEAN : lock' = [step |-> "purging", by |-> "acquire", changed |-> changed]
             \/ lock' = [step |-> "purging", by |-> "retire", changed |-> TRUE]
             \/ lock' = [step |-> "purging", by |-> "invalidate", changed |-> FALSE]
      BY <1>6, Zenon DEF BeginReplace, BeginRetire, BeginInvalidate
    <2>. QED  BY <2>1
  <1>. QED  BY <1>2, <1>3, <1>4, <1>5, <1>6, Frames DEF Acquire, Invalidate

(* Without usurpers a claim is made for the mapped process, while nobody   *)
(* is about to replace it.                                                 *)
LEMMA ClaimsOwn ==
  ASSUME Types, Structure, [Next]_vars, Claims, ~usurped'
  PROVE  /\ ~usurped /\ mapped # None /\ lock.step # "armed" /\ UNCHANGED pool
         /\ handshake[mapped].step # "claimed"
         /\ handshake'[mapped].step # "running"
  <1>1. usurped \in BOOLEAN /\ armed \in BOOLEAN /\ mapped \in Handle \cup {None}
    BY DEF Types
  <1>2. ASSUME NEW h \in Handle, (Answered(h) /\ armed) \/ ClaimLate(h)
        PROVE  /\ ~usurped /\ mapped = h /\ lock.step # "armed" /\ UNCHANGED pool
               /\ handshake[h].step \in {"running", "published"}
               /\ handshake'[h].step # "running"
    <2>1. usurped' = (usurped \/ Usurps(h)) /\ UNCHANGED pool /\ handshake[h].step \in {"running", "published"}
      BY <1>1, <1>2 DEF Answered, ClaimLate
    <2>2. handshake'[h].step # "running"
      BY <1>2, ShakesEffect DEF Shakes, Shaken
    <2>. QED  BY <1>1, <2>1, <2>2 DEF Usurps
  <1>3. ASSUME HandOffReady
        PROVE  /\ ~usurped /\ mapped # None /\ lock.step # "armed" /\ UNCHANGED pool
               /\ handshake[mapped].step \in {"published", "ended"} /\ UNCHANGED handshake
    <2>1. mapped # None /\ lock.step = "free" /\ State(mapped) = "Ready" /\ UNCHANGED <<pool, handshake, usurped>>
      BY <1>3, Zenon DEF HandOffReady, quiet, history
    <2>2. handshake[mapped].step \in {"published", "ended"}
      BY <1>1, <2>1 DEF State, Structure, Processes
    <2>. QED  BY <2>1, <2>2
  <1>. QED  BY <1>1, <1>2, <1>3, Numbers DEF Claims

(* Who usurps stays known.                                                 *)
LEMMA UsurpedStays ==
  ASSUME Types, [Next]_vars, ~usurped'
  PROVE  ~usurped
  BY UsurpedMoves DEF Types

LEMMA ClaimInvNext ==
  ASSUME Types, Structure, ClaimInv, [Next]_vars
  PROVE  ClaimInv'
  <1>. SUFFICES ASSUME ~usurped'
       PROVE  /\ lock'.step = "armed" \/ (mapped' = None /\ Born' # {}) => armed'
              /\ mapped' \notin {None, 1} =>
                   /\ handshake'[mapped'].step = "running" => armed'
                   /\ handshake'[mapped'].step = "claimed" => handshake'[mapped'].done # None
                   /\ state'[mapped'] = "Ready" => promise'[mapped'] # None
    BY DEF ClaimInv
  <1>1. /\ lock.step = "armed" \/ (mapped = None /\ Born # {}) => armed
        /\ mapped \notin {None, 1} =>
             /\ handshake[mapped].step = "running" => armed
             /\ handshake[mapped].step = "claimed" => handshake[mapped].done # None
             /\ state[mapped] = "Ready" => promise[mapped] # None
    BY UsurpedStays DEF ClaimInv
  <1>2. armed => armed' = TRUE \/ Claims
    BY RegistryMoves DEF Registers, Types
  <1>3. lock'.step = "armed" \/ (mapped' = None /\ Born' # {}) => armed'
    <2>1. CASE Claims
      BY <2>1, ClaimsOwn DEF pool
    <2>2. CASE ~Claims
      <3>1. Born' # {} /\ mapped' = None => Born # {}
        BY BornMoves, SpawnSets, Numbers DEF Born
      <3>2. PurgeArms => armed'
        BY DEF PurgeArms
      <3>3. lock'.step = "armed" => PurgeArms \/ lock.step = "armed"
        BY MappedMoves
      <3>4. mapped' = None => mapped = None \/ lock.step = "armed"
        BY MappedMoves DEF Spawns, Born, Numbers
      <3>. QED  BY <1>1, <1>2, <2>2, <3>1, <3>2, <3>3, <3>4
    <2>. QED  BY <2>1, <2>2
  <1>4. ASSUME mapped' = mapped, mapped \notin {None, 1}
        PROVE  /\ handshake'[mapped].step = "running" => armed'
               /\ handshake'[mapped].step = "claimed" => handshake'[mapped].done # None
               /\ state'[mapped] = "Ready" => promise'[mapped] # None
    <2>1. mapped \in Handle /\ mapped \in Born /\ ~Spawns(mapped)
      BY <1>4 DEF Types, Structure, Mapping, Spawns
    <2>2. handshake'[mapped].step = "running" => handshake[mapped].step = "running" /\ ~Claims
      BY <2>1, HandshakeMoves, ClaimsOwn DEF Shaken
    <2>3. handshake'[mapped].step = "claimed" => handshake'[mapped].done # None
      <3>1. CASE handshake'[mapped] = handshake[mapped]
        BY <1>1, <1>4, <3>1
      <3>2. CASE Shaken(mapped)
        <4>1. armed /\ Answered(mapped) => NextBarrier # None
          BY <2>1, ClaimsEffect, Numbers DEF Claims
        <4>. QED  BY <1>1, <1>4, <3>2, <4>1 DEF Shaken
      <3>. QED  BY <2>1, <3>1, <3>2, HandshakeMoves
    <2>4. state'[mapped] = "Ready" => promise'[mapped] # None
      <3>1. CASE Publish(mapped) /\ state[mapped] = "Initializing"
        <4>1. handshake[mapped].step = "claimed" /\ promise' = [promise EXCEPT ![mapped] = handshake[mapped].done]
          BY <3>1, Zenon DEF Publish
        <4>. QED  BY <1>1, <1>4, <2>1, <4>1 DEF Types
      <3>2. CASE state'[mapped] = state[mapped]
        <4>1. promise'[mapped] = promise[mapped] \/ state[mapped] = "Initializing"
          BY <2>1, PromiseMoves
        <4>. QED  BY <1>1, <1>4, <3>2, <4>1
      <3>. QED  BY <2>1, <3>1, <3>2, StateMoves
    <2>. QED  BY <1>1, <1>2, <1>4, <2>2, <2>3, <2>4
  <1>5. ASSUME mapped' # mapped, mapped' \notin {None, 1}
        PROVE  armed' /\ handshake'[mapped'].step = "running" /\ state'[mapped'] = "Initializing"
    <2>1. Spawns(mapped') /\ (lock.step = "armed" \/ (SpawnFirst /\ mapped = None))
      BY <1>5, MappedMoves
    <2>2. mapped' \in Handle
      BY <2>1, SpawnEffect DEF Spawns
    <2>3. /\ handshake'[mapped'].step = "running" /\ state'[mapped'] = "Initializing"
          /\ UNCHANGED registry
      BY <2>1, <2>2, SpawnSets
    <2>4. mapped = None /\ SpawnFirst => Born # {}
      <3>. SUFFICES ASSUME Born = {} PROVE mapped' = 1
        BY <1>5
      <3>1. mapped' = NextHandle /\ Unborn = Handle
        BY <2>1 DEF Spawns, Born, Unborn
      <3>. QED  BY <2>1, <2>2, <3>1, SpawnEffect, ConnectionsAssumption DEF Handle, Spawns
    <2>. QED  BY <1>1, <2>1, <2>3, <2>4 DEF registry
  <1>. QED  BY <1>3, <1>4, <1>5

-----------------------------------------------------------------------------
(* What a command waits for                                                *)

LEMMA OverStays ==
  ASSUME Types, Structure, [Next]_vars, NEW p \in Barrier, Over(p)
  PROVE  \E c \in Barrier : c >= p /\ barrier'[c].sender = "dropped"
  BY DroppedStays DEF Over

LEMMA ForwardingStops ==
  ASSUME [Next]_vars, forwarding'
  PROVE  forwarding
  <1>1. CASE Acquire \/ Invalidate \/ UNCHANGED vars
    BY <1>1, Zenon DEF Acquire, SpawnFirst, Replace, SpawnFails, BeginReplace, Invalidate, BeginRetire, BeginInvalidate,
      PurgeArms, AbortPurge, Remove, vars, demand
  <1>2. CASE Recover
    BY <1>2, Zenon DEF Recover, ArmForDivert, HandOffReady, DivertFails
  <1>3. CASE Shutdown
    BY <1>3, Zenon DEF Shutdown, BeginShutdownAll, Snapshot, ShutdownTimesOut, KillAll, EndGraceful, StopForwarding, demand
  <1>4. ASSUME NEW h \in Handle, Shakes(h) \/ Crash(h) \/ WriterWedges(h) \/ EndTeardown(h) PROVE UNCHANGED forwarding
    BY <1>4, Zenon DEF Shakes, Answered, Publish, HandOff, ClaimLate, HandshakeFails, StoreFailed, HandshakeTimesOut,
      Crash, WriterWedges, EndTeardown, demand
  <1>5. ASSUME NEW b \in Barrier, Sweep(b) PROVE UNCHANGED forwarding
    BY <1>5, Zenon DEF Sweep, BeginSweep, SweepStops, SweepReports, SweepPanics, SweepOpens, SweepMisses, demand
  <1>6. ASSUME NEW c \in Command, Commands(c) PROVE UNCHANGED forwarding
    BY <1>6, Zenon DEF Commands, FindConnection, LookForBarrier, HearBarrier, RetireBarrier, WaitTimesOut, SendCommand
  <1>. QED  BY <1>1, <1>2, <1>3, <1>4, <1>5, <1>6 DEF Next

LEMMA CoverInvNext ==
  ASSUME TypeOK, Structure, CoverInv, [Next]_vars
  PROVE  CoverInv'
  <1>. USE DEF TypeOK
  <1>. DEFINE m == mapped'
              OverNext(p) == \E c \in Barrier : c >= p /\ barrier'[c].sender = "dropped"
  <1>. SUFFICES ASSUME ~usurped', m # None
       PROVE  /\ handshake'[m].step = "claimed" /\ handshake'[m].done # None => inFlight' = handshake'[m].done
              /\ forwarding' /\ promise'[m] # None =>
                   /\ inFlight' >= promise'[m] \/ OverNext(promise'[m])
                   /\ \A c \in Command : command'[c].handle = m =>
                        /\ command'[c].step \in {"waiting", "settled"} =>
                             command'[c].barrier >= promise'[m] \/ OverNext(promise'[m])
                        /\ command'[c].step = "clear" => OverNext(promise'[m])
    BY DEF CoverInv, Over
  <1>. HIDE DEF m, OverNext
  <1>1. Structure' /\ m \in Handle /\ m = mapped'
    BY StructureNext, TypesNext DEF Types, m
  <1>2. ASSUME m # mapped
        PROVE  handshake'[m].step = "running" /\ promise'[m] = None
    <2>1. Spawns(m)
      BY <1>2, MappedMoves DEF m
    <2>2. handshake'[m].step = "running" /\ promise'[m] = promise[m]
      BY <1>1, <2>1, SpawnSets DEF history
    <2>. QED  BY <1>1, <2>1, <2>2 DEF Spawns, Structure, Processes
  <1>3. ASSUME m = mapped
        PROVE  handshake'[m].step = "claimed" /\ handshake'[m].done # None => inFlight' = handshake'[m].done
    <2>. SUFFICES ASSUME handshake'[m].step = "claimed", handshake'[m].done # None
         PROVE  inFlight' = handshake'[m].done
      OBVIOUS
    <2>1. CASE handshake'[m] = handshake[m]
      <3>. DEFINE b == handshake[m].done
      <3>1. inFlight = b /\ b \in Barrier /\ b # None
        BY <1>1, <1>3, <2>1, UsurpedStays DEF CoverInv, Types, HandshakeState
      <3>2. ~Claims
        BY <1>3, <2>1, ClaimsOwn
      <3>3. Registers
        BY <3>2, RegistryMoves
      <3>4. barrier'[b].sender = "handshake"
        BY <1>1, <2>1 DEF Structure, Processes
      <3>5. ~HandOffReady
        BY <1>1, <1>3, <2>1 DEF HandOffReady, State, Structure, Processes
      <3>. QED  BY <2>1, <3>1, <3>3, <3>4, <3>5 DEF Registers
    <2>2. CASE Shaken(m)
      <3>1. Answered(m) /\ handshake[m].step = "running"
        BY <2>2 DEF Shaken
      <3>2. handshake[m].done = None
        BY <1>1, <3>1 DEF Structure, Processes
      <3>3. armed /\ handshake'[m].done = NextBarrier
        BY <2>2, <3>1, <3>2 DEF Shaken
      <3>. QED  BY <1>1, <3>1, <3>3, ClaimsEffect DEF Claims
    <2>. QED  BY <1>1, <2>1, <2>2, HandshakeMoves
  <1>4. ASSUME m = mapped, forwarding', promise'[m] # None
        PROVE  /\ inFlight' >= promise'[m] \/ OverNext(promise'[m])
               /\ \A c \in Command : command'[c].handle = m =>
                    /\ command'[c].step \in {"waiting", "settled"} =>
                         command'[c].barrier >= promise'[m] \/ OverNext(promise'[m])
                    /\ command'[c].step = "clear" => OverNext(promise'[m])
    <2>1. forwarding /\ ~usurped
      BY <1>4, ForwardingStops, UsurpedStays
    <2>2. CASE promise'[m] = promise[m]
      <3>. DEFINE p == promise[m]
      <3>1. /\ p \in Barrier /\ p \in Claimed
            /\ inFlight >= p \/ Over(p)
            /\ \A c \in Command : command[c].handle = m =>
                 /\ command[c].step \in {"waiting", "settled"} => command[c].barrier >= p \/ Over(p)
                 /\ command[c].step = "clear" => Over(p)
        BY <1>1, <1>4, <2>1, <2>2 DEF CoverInv, Structure, Numbered, Claimed
      <3>2. Over(p) => OverNext(p)
        BY <3>1, OverStays DEF OverNext
      <3>3. inFlight \in Barrier \cup {None} /\ inFlight' \in Barrier \cup {None} /\ p \in Nat /\ p > 0
        BY <3>1, TypesNext, Numbers DEF Types, Barrier
      <3>. HIDE DEF p
      <3>4. inFlight' >= p \/ OverNext(p)
        <4>1. CASE Claims
          BY <3>1, <3>3, <4>1, ClaimsEffect, Numbers
        <4>2. CASE Registers
          <5>1. CASE inFlight' = inFlight
            BY <3>1, <3>2, <5>1
          <5>2. CASE inFlight' = None /\ inFlight # None
            <6>1. inFlight \in Barrier /\ barrier'[inFlight].sender = "dropped"
              BY <2>1, <3>3, <4>2, <5>2 DEF Registers
            <6>. QED  BY <3>1, <3>2, <6>1 DEF OverNext
          <5>. QED  BY <4>2, <5>1, <5>2 DEF Registers
        <4>. QED  BY <4>1, <4>2, RegistryMoves
      <3>5. ASSUME NEW c \in Command, command'[c].handle = m
            PROVE  /\ command'[c].step \in {"waiting", "settled"} => command'[c].barrier >= p \/ OverNext(p)
                   /\ command'[c].step = "clear" => OverNext(p)
        <4>1. CASE command'[c] = command[c]
          BY <3>1, <3>2, <3>5, <4>1
        <4>2. CASE Asked(c) /\ command[c].step = "found"
          <5>1. \/ command'[c].step = "waiting" /\ command'[c].barrier = inFlight
                \/ command'[c].step = "clear" /\ inFlight = None
                \/ command'[c].step = "idle"
            BY <4>2 DEF Asked, Idle
          <5>2. inFlight = None => Over(p)
            BY <3>1, <3>3 DEF None
          <5>. QED  BY <3>1, <3>2, <5>1, <5>2
        <4>3. CASE Asked(c) /\ command[c].step # "found"
          <5>1. \/ command'[c].step \in {"idle", "found"}
                \/ command'[c].step = "settled" /\ command[c].step = "waiting" /\ command'[c].barrier = command[c].barrier
                     /\ command'[c].handle = command[c].handle
                \/ command'[c].step = "clear" /\ command[c].step = "settled" /\ command'[c].handle = command[c].handle
            BY <4>3 DEF Asked, Idle
          <5>2. command[c].step = "settled" => command[c].barrier \in Barrier /\ barrier[command[c].barrier].sender = "dropped"
            BY DEF Structure, Waiters, Claimed
          <5>3. command[c].step = "settled" /\ command[c].handle = m => Over(p)
            BY <3>1, <5>2 DEF Over
          <5>. QED  BY <3>1, <3>2, <3>5, <5>1, <5>3
        <4>. QED  BY <4>1, <4>2, <4>3, CommandMoves
      <3>6. promise'[m] = p
        BY <2>2 DEF p
      <3>. QED  BY <3>4, <3>5, <3>6
    <2>3. CASE /\ Publish(m) /\ handshake[m].step = "claimed" /\ state[m] = "Initializing"
               /\ promise'[m] = handshake[m].done
      <3>1. inFlight = promise'[m]
        BY <1>4, <1>1, <2>1, <2>3 DEF CoverInv
      <3>2. UNCHANGED <<registry, command>>
        BY <2>3, Zenon DEF Publish, demand
      <3>3. inFlight' >= promise'[m]
        BY <3>1, <3>2, TypesNext, Numbers DEF registry, Types, None
      <3>4. \A c \in Command : command'[c].handle = m => command'[c].step = "idle"
        BY <2>3, <3>2 DEF Structure, Waiters
      <3>. QED  BY <3>3, <3>4
    <2>. QED  BY <1>1, <2>2, <2>3, PromiseMoves
  <1>. QED  BY <1>2, <1>3, <1>4

-----------------------------------------------------------------------------
(* What a sweep has opened                                                 *)

(* What a step does to what Swept is about.                                *)
SweptMoves(b) ==
  \/ barrier'[b] = barrier[b]
  \/ barrier'[b].sender \in {"handshake", "queued"}
  \/ barrier'[b].sender = "sweeping" /\ (barrier'[b].todo = Doc \/ barrier'[b].repaired = FALSE)
  \/ \E d \in Doc :
       /\ barrier[b].sender = "sweeping" /\ barrier'[b].sender = "sweeping"
       /\ barrier'[b].repaired = barrier[b].repaired /\ barrier'[b].todo = barrier[b].todo \ {d}
       /\ \/ SweepOpens(b, d) /\ barrier'[b].exempt = barrier[b].exempt
          \/ barrier'[b].exempt = barrier[b].exempt \cup {d}
  \/ barrier'[b].sender = "dropped" /\ barrier'[b].done = FALSE
  \/ /\ barrier[b].sender = "sweeping" /\ barrier[b].repaired /\ barrier[b].todo = {}
     /\ barrier'[b].sender = "dropped" /\ barrier'[b].exempt = barrier[b].exempt

LEMMA SweptMove ==
  ASSUME Types, Structure, [Next]_vars, NEW b \in Barrier
  PROVE  SweptMoves(b)
  <1>0. barrier \in [Barrier -> BarrierState] /\ barrier[b] \in BarrierState
    BY DEF Types
  <1>1. CASE Claims
    BY <1>1, ClaimsEffect DEF SweptMoves
  <1>2. ASSUME ~Claims, ~Sweep(b) PROVE SweptMoves(b)
    <2>1. barrier'[b] = barrier[b] \/ Moves(b)
      BY <1>2, RegistryMoves DEF Registers
    <2>2. barrier[b].sender \in {"handshake", "queued"} => barrier[b].done = FALSE
      BY <1>0 DEF Structure, Numbered, BarrierState
    <2>. QED  BY <1>2, <2>1, <2>2 DEF Moves, SweptMoves
  <1>3. ASSUME Sweep(b) PROVE SweptMoves(b)
    <2>1. CASE BeginSweep(b)
      <3>1. barrier' = [barrier EXCEPT ![b] = [@ EXCEPT !.sender = "sweeping", !.todo = Doc]]
        BY <2>1, Zenon DEF BeginSweep
      <3>2. barrier'[b].sender = "sweeping" /\ barrier'[b].todo = Doc
        BY <1>0, <3>1 DEF BarrierState
      <3>. QED  BY <3>2 DEF SweptMoves
    <2>2. CASE SweepStops(b) \/ SweepPanics(b)
      <3>1. /\ barrier[b].sender = "sweeping"
            /\ barrier' = [barrier EXCEPT ![b] = [@ EXCEPT !.sender = "dropped", !.todo = {}, !.exempt = {}, !.repaired = TRUE]]
        BY <2>2, Zenon DEF SweepStops, SweepPanics, Drop
      <3>2. /\ barrier'[b].sender = "dropped" /\ barrier'[b].done = barrier[b].done
        BY <1>0, <3>1 DEF BarrierState
      <3>3. barrier[b].done = FALSE
        BY <1>0, <3>1 DEF Structure, Numbered, BarrierState
      <3>. QED  BY <3>2, <3>3 DEF SweptMoves
    <2>3. CASE SweepReports(b)
      <3>. DEFINE reported == barrier[b].repaired /\ Heard(b)
      <3>1. /\ barrier[b].sender = "sweeping" /\ barrier[b].todo = {}
            /\ barrier' = [barrier EXCEPT ![b] = [@ EXCEPT !.sender = "dropped", !.repaired = TRUE, !.done = reported]]
        BY <2>3, Zenon DEF SweepReports
      <3>2. reported \in BOOLEAN /\ (reported \/ reported = FALSE) /\ (reported => barrier[b].repaired)
        OBVIOUS
      <3>. HIDE DEF reported
      <3>3. barrier'[b].sender = "dropped" /\ barrier'[b].done = reported /\ barrier'[b].exempt = barrier[b].exempt
        BY <1>0, <3>1 DEF BarrierState
      <3>. QED  BY <3>1, <3>2, <3>3 DEF SweptMoves
    <2>4. ASSUME NEW d \in Doc, SweepOpens(b, d) PROVE SweptMoves(b)
      <3>1. barrier[b].sender = "sweeping" /\ barrier' = [barrier EXCEPT ![b].todo = @ \ {d}]
        BY <2>4, Zenon DEF SweepOpens
      <3>2. /\ barrier'[b].sender = "sweeping" /\ barrier'[b].repaired = barrier[b].repaired
            /\ barrier'[b].todo = barrier[b].todo \ {d} /\ barrier'[b].exempt = barrier[b].exempt
        BY <1>0, <3>1 DEF BarrierState
      <3>. QED  BY <2>4, <3>1, <3>2 DEF SweptMoves
    <2>5. ASSUME NEW d \in Doc, NEW owed \in BOOLEAN, SweepMisses(b, d, owed) PROVE SweptMoves(b)
      <3>1. /\ barrier[b].sender = "sweeping"
            /\ \/ barrier' = [barrier EXCEPT ![b].todo = @ \ {d}, ![b].repaired = FALSE]
               \/ barrier' = [barrier EXCEPT ![b].todo = @ \ {d}, ![b].exempt = @ \cup {d}]
        BY <2>5, Zenon DEF SweepMisses
      <3>2. CASE barrier' = [barrier EXCEPT ![b].todo = @ \ {d}, ![b].repaired = FALSE]
        <4>1. barrier'[b].sender = "sweeping" /\ barrier'[b].repaired = FALSE
          BY <1>0, <3>1, <3>2 DEF BarrierState
        <4>. QED  BY <4>1 DEF SweptMoves
      <3>3. CASE barrier' = [barrier EXCEPT ![b].todo = @ \ {d}, ![b].exempt = @ \cup {d}]
        <4>1. /\ barrier'[b].sender = "sweeping" /\ barrier'[b].repaired = barrier[b].repaired
              /\ barrier'[b].todo = barrier[b].todo \ {d} /\ barrier'[b].exempt = barrier[b].exempt \cup {d}
          BY <1>0, <3>1, <3>3 DEF BarrierState
        <4>. QED  BY <3>1, <4>1 DEF SweptMoves
      <3>. QED  BY <3>1, <3>2, <3>3
    <2>. QED  BY <1>3, <2>1, <2>2, <2>3, <2>4, <2>5 DEF Sweep
  <1>. QED  BY <1>1, <1>2, <1>3

(* Swept, Fresh behind a step.                                             *)
SweptNext(b, S) ==
  /\ barrier'[b].sender = "sweeping" /\ barrier'[b].repaired =>
       Doc \subseteq barrier'[b].todo \cup barrier'[b].exempt \cup S
  /\ barrier'[b].sender = "dropped" /\ barrier'[b].done => Doc \subseteq barrier'[b].exempt \cup S

FreshNext(b) == running'[mapped'] => SweptNext(b, held'[mapped'])

(* What was opened stays opened, on a process that keeps its documents.    *)
LEMMA SweptStays ==
  ASSUME Types, Structure, [Next]_vars, NEW b \in Barrier, NEW S, NEW T, S \subseteq T, Swept(b, S),
         \A d \in Doc : SweepOpens(b, d) => d \in T
  PROVE  SweptNext(b, T)
  <1>0. barrier[b] \in BarrierState
    BY DEF Types
  <1>1. CASE barrier'[b] = barrier[b]
    BY <1>1 DEF Swept, SweptNext
  <1>2. CASE \/ barrier'[b].sender \in {"handshake", "queued"}
             \/ barrier'[b].sender = "sweeping" /\ (barrier'[b].todo = Doc \/ barrier'[b].repaired = FALSE)
             \/ barrier'[b].sender = "dropped" /\ barrier'[b].done = FALSE
    BY <1>2 DEF SweptNext
  <1>3. ASSUME NEW d \in Doc,
               barrier[b].sender = "sweeping", barrier'[b].sender = "sweeping",
               barrier'[b].repaired = barrier[b].repaired, barrier'[b].todo = barrier[b].todo \ {d},
               \/ SweepOpens(b, d) /\ barrier'[b].exempt = barrier[b].exempt
               \/ barrier'[b].exempt = barrier[b].exempt \cup {d}
        PROVE  SweptNext(b, T)
    <2>1. barrier[b].repaired => Doc \subseteq barrier'[b].todo \cup barrier'[b].exempt \cup T
      BY <1>3 DEF Swept
    <2>. QED  BY <1>3, <2>1 DEF SweptNext
  <1>4. CASE /\ barrier[b].sender = "sweeping" /\ barrier[b].repaired /\ barrier[b].todo = {}
             /\ barrier'[b].sender = "dropped" /\ barrier'[b].exempt = barrier[b].exempt
    BY <1>4 DEF Swept, SweptNext
  <1>5. SweptMoves(b)
    BY SweptMove
  <1>. QED  BY <1>1, <1>2, <1>3, <1>4, <1>5 DEF SweptMoves

LEMMA FreshStays ==
  ASSUME Types, Structure, [Next]_vars, mapped # None, mapped' = mapped, NEW b \in Barrier, Fresh(b)
  PROVE  FreshNext(b)
  <1>. SUFFICES ASSUME running'[mapped] PROVE SweptNext(b, held'[mapped])
    BY DEF FreshNext
  <1>1. mapped \in Handle /\ mapped \in Born /\ held \in [Handle -> SUBSET Doc]
    BY DEF Types, Structure, Mapping
  <1>2. running[mapped] /\ held[mapped] \subseteq held'[mapped]
    BY <1>1, ProcessMoves DEF Spawns
  <1>3. ASSUME NEW d \in Doc, SweepOpens(b, d) PROVE d \in held'[mapped]
    <2>1. held' = [held EXCEPT ![mapped] = @ \cup {d}]
      BY <1>3, Zenon DEF SweepOpens
    <2>. QED  BY <1>1, <2>1
  <1>4. Swept(b, held[mapped])
    BY <1>2 DEF Fresh
  <1>. QED  BY <1>2, <1>3, <1>4, SweptStays

(* A claim starts the re-open anew.                                        *)
LEMMA ClaimedAfresh ==
  ASSUME Types, Structure, Claims, NEW S
  PROVE  inFlight' \in Barrier /\ SweptNext(inFlight', S)
  BY ClaimsEffect DEF SweptNext

LEMMA FreshInvNext ==
  ASSUME TypeOK, Structure, FreshInv, [Next]_vars
  PROVE  FreshInv'
  <1>. USE DEF TypeOK
  <1>. DEFINE m == mapped'
  <1>0. /\ inFlight \in Barrier \cup {None} /\ command \in [Command -> CommandState]
        /\ handshake \in [Handle -> HandshakeState] /\ m \in Handle \cup {None} /\ armed' \in BOOLEAN
        /\ (armed => armed' = TRUE \/ Claims)
    BY RegistryMoves, TypesNext DEF Registers, Types
  <1>1. ASSUME lock'.step = "armed" \/ m = None
        PROVE  armed' \/ inFlight' = None \/ SweptNext(inFlight', {})
    <2>1. CASE Claims
      BY <2>1, ClaimedAfresh
    <2>2. CASE PurgeArms
      BY <2>2 DEF PurgeArms
    <2>3. CASE ~Claims /\ ~PurgeArms
      <3>1. Registers
        BY <2>3, RegistryMoves
      <3>2. lock.step = "armed" \/ mapped = None
        BY <1>1, <2>3, MappedMoves, Numbers DEF Spawns
      <3>3. armed \/ inFlight = None \/ Swept(inFlight, {})
        BY <3>2 DEF FreshInv
      <3>4. ASSUME inFlight \in Barrier, Swept(inFlight, {}) PROVE SweptNext(inFlight, {})
        <4>1. \A d \in Doc : ~SweepOpens(inFlight, d)
          BY <3>2 DEF SweepOpens
        <4>. QED  BY <3>4, <4>1, SweptStays
      <3>. QED  BY <1>0, <2>3, <3>1, <3>3, <3>4 DEF Registers
    <2>. QED  BY <2>1, <2>2, <2>3
  <1>2. ASSUME m # None, m # mapped
        PROVE  /\ state'[m] = "Initializing" /\ handshake'[m].step = "running"
               /\ armed' \/ inFlight' = None \/ FreshNext(inFlight')
    <2>1. Spawns(m) /\ (lock.step = "armed" \/ mapped = None)
      BY <1>2, MappedMoves
    <2>2. m \in Handle /\ state'[m] = "Initializing" /\ handshake'[m].step = "running" /\ UNCHANGED registry
      BY <1>0, <1>2, <2>1, SpawnSets
    <2>3. armed \/ inFlight = None \/ Swept(inFlight, {})
      BY <2>1 DEF FreshInv
    <2>4. Swept(inFlight, {}) => FreshNext(inFlight')
      BY <2>2 DEF Swept, FreshNext, SweptNext, registry
    <2>. QED  BY <2>2, <2>3, <2>4 DEF registry
  <1>3. ASSUME m # None, m = mapped, state'[m] \in {"Initializing", "Ready"}, handshake'[m].step # "failed"
        PROVE  \/ handshake'[m].step = "running" /\ armed'
               \/ inFlight' = None \/ FreshNext(inFlight')
    <2>1. CASE Claims
      BY <2>1, ClaimedAfresh DEF FreshNext
    <2>2. CASE ~Claims
      <3>1. Registers /\ mapped \in Handle /\ mapped \in Born
        BY <1>3, <2>2, RegistryMoves DEF Types, Structure, Mapping
      <3>2. state[mapped] \in {"Initializing", "Ready"}
        BY <1>3, <3>1, StateMoves DEF Spawns
      <3>3. handshake[mapped].step # "failed"
        BY <1>3, <3>1, HandshakeMoves DEF Spawns, Shaken
      <3>4. \/ handshake[mapped].step = "running" /\ armed
            \/ inFlight = None \/ Fresh(inFlight)
        BY <1>3, <3>2, <3>3 DEF FreshInv
      <3>5. CASE handshake[mapped].step = "running" /\ armed
        <4>1. State(mapped) \notin {"Closing", "Closed"}
          BY <3>2 DEF State
        <4>2. ~Answered(mapped)
          BY <2>2, <3>1, <3>5 DEF Claims
        <4>3. handshake'[mapped].step = "running"
          BY <1>3, <3>1, <3>5, <4>1, <4>2, HandshakeMoves DEF Spawns, Shaken
        <4>. QED  BY <1>0, <1>3, <2>2, <3>5, <4>3
      <3>6. CASE inFlight = None \/ Fresh(inFlight)
        <4>1. inFlight # None => inFlight' = None \/ FreshNext(inFlight')
          <5>1. inFlight' = inFlight \/ inFlight' = None
            BY <3>1 DEF Registers
          <5>. QED  BY <1>0, <1>3, <3>6, <5>1, FreshStays
        <4>. QED  BY <3>1, <4>1 DEF Registers
      <3>. QED  BY <3>4, <3>5, <3>6
    <2>. QED  BY <2>1, <2>2
  <1>4. ASSUME m # None, state'[m] = "Ready", NEW c \in Command, command'[c].handle = m,
               command'[c].step \in {"waiting", "settled"} \/ command'[c].settled
        PROVE  FreshNext(command'[c].barrier)
    <2>1. m = mapped /\ mapped # None
      BY <1>2, <1>4
    <2>2. mapped \in Handle /\ mapped \in Born
      BY <2>1 DEF Types, Structure, Mapping
    <2>3. state[mapped] = "Ready"
      <3>1. CASE Publish(mapped)
        <4>1. UNCHANGED command /\ handshake[mapped].step = "claimed"
          BY <3>1, Zenon DEF Publish, demand
        <4>2. command[c].step = "idle" /\ ~command[c].settled
          BY <1>4, <2>1, <4>1 DEF Structure, Waiters
        <4>. QED  BY <1>4, <4>1, <4>2
      <3>. QED  BY <1>4, <2>1, <2>2, <3>1, StateMoves DEF Spawns
    <2>4. ASSUME command[c].handle = mapped, command[c].step \in {"waiting", "settled"} \/ command[c].settled
          PROVE  FreshNext(command[c].barrier)
      <3>1. Fresh(command[c].barrier)
        BY <2>1, <2>3, <2>4 DEF FreshInv
      <3>2. command[c].barrier \in Barrier
        BY <2>4 DEF Structure, Waiters, Claimed
      <3>. QED  BY <2>1, <3>1, <3>2, FreshStays
    <2>5. inFlight # None => FreshNext(inFlight)
      <3>1. handshake[mapped].step \in {"published", "ended"}
        BY <2>2, <2>3 DEF Structure, Processes
      <3>2. inFlight = None \/ Fresh(inFlight)
        BY <2>1, <2>3, <3>1 DEF FreshInv
      <3>. QED  BY <1>0, <2>1, <3>2, FreshStays
    <2>6. command[c].settled => command[c].step \in {"settled", "clear"}
      BY DEF Structure, Waiters
    <2>7. CASE command'[c] = command[c]
      BY <1>4, <2>1, <2>4, <2>7
    <2>8. CASE Asked(c)
      <3>1. command'[c] # Idle
        BY <1>4 DEF Idle
      <3>2. \/ /\ command[c].step = "found" /\ inFlight # None /\ command'[c].barrier = inFlight
            \/ /\ command[c].step \in {"waiting", "settled"}
               /\ command'[c].handle = command[c].handle /\ command'[c].barrier = command[c].barrier
        BY <1>4, <2>6, <2>8, <3>1 DEF Asked
      <3>. QED  BY <1>4, <2>1, <2>4, <2>5, <3>2
    <2>. QED  BY <2>7, <2>8, CommandMoves
  <1>. QED  BY <1>1, <1>2, <1>3, <1>4 DEF FreshInv, Fresh, Swept, FreshNext, SweptNext

-----------------------------------------------------------------------------
(* The invariant                                                           *)

LEMMA InitTypes ==
  ASSUME Init
  PROVE  Types
  <1>1. /\ mapped = None /\ lock = [step |-> "free", by |-> "none", changed |-> FALSE]
        /\ state = [h \in Handle |-> "unborn"] /\ running = [h \in Handle |-> FALSE]
        /\ held = [h \in Handle |-> {}] /\ handshake = [h \in Handle |-> [step |-> "none", done |-> None]]
        /\ teardown = {} /\ shutdown = [step |-> "none", handle |-> None] /\ shuttingDown = FALSE
        /\ armed = FALSE /\ inFlight = None
        /\ recovery = FALSE /\ forwarding = TRUE /\ promise = [h \in Handle |-> None] /\ usurped = FALSE /\ faults = 0
    BY Zenon DEF Init
  <1>2. /\ barrier = [b \in Barrier |-> [sender |-> "unused", handle |-> None, done |-> FALSE,
                                         todo |-> {}, exempt |-> {}, repaired |-> TRUE]]
        /\ command = [c \in Command |-> Idle]
    BY Zenon DEF Init
  <1>3. barrier \in [Barrier -> BarrierState] /\ command \in [Command -> CommandState]
    BY <1>2 DEF BarrierState, CommandState, Idle
  <1>4. lock \in LockState /\ handshake \in [Handle -> HandshakeState] /\ shutdown \in ShutdownState
    BY <1>1 DEF LockState, HandshakeState, ShutdownState
  <1>5. /\ state \in [Handle -> {"unborn", "Initializing", "Ready", "Failed", "Closing", "Closed"}]
        /\ running \in [Handle -> BOOLEAN] /\ held \in [Handle -> SUBSET Doc]
        /\ promise \in [Handle -> Barrier \cup {None}] /\ teardown \in SUBSET Handle
    BY <1>1
  <1>6. faults \in 0..MaxFaults
    BY <1>1, ConnectionsAssumption
  <1>7. /\ shuttingDown \in BOOLEAN /\ armed \in BOOLEAN /\ recovery \in BOOLEAN /\ forwarding \in BOOLEAN
        /\ usurped \in BOOLEAN /\ mapped \in Handle \cup {None} /\ inFlight \in Barrier \cup {None}
    BY <1>1
  <1>. QED  BY <1>3, <1>4, <1>5, <1>6, <1>7, Zenon DEF Types

LEMMA InitInvariant ==
  ASSUME Init
  PROVE  IInv
  <1>1. /\ mapped = None /\ lock = [step |-> "free", by |-> "none", changed |-> FALSE]
        /\ state = [h \in Handle |-> "unborn"] /\ running = [h \in Handle |-> FALSE]
        /\ held = [h \in Handle |-> {}] /\ handshake = [h \in Handle |-> [step |-> "none", done |-> None]]
        /\ teardown = {} /\ shutdown = [step |-> "none", handle |-> None]
        /\ armed = FALSE /\ inFlight = None /\ promise = [h \in Handle |-> None]
    BY Zenon DEF Init
  <1>2. \A b \in Barrier : barrier[b].sender = "unused" /\ barrier[b].handle = None /\ barrier[b].done = FALSE
    <2>1. barrier = [b \in Barrier |-> [sender |-> "unused", handle |-> None, done |-> FALSE,
                                        todo |-> {}, exempt |-> {}, repaired |-> TRUE]]
      BY Zenon DEF Init
    <2>. QED  BY <2>1
  <1>3. \A c \in Command : command[c].step = "idle" /\ command[c].settled = FALSE
    <2>1. command = [c \in Command |-> Idle]
      BY Zenon DEF Init
    <2>. QED  BY <2>1 DEF Idle
  <1>4. Claimed = {} /\ Born = {}
    BY <1>1, <1>2 DEF Claimed, Born
  <1>5. TypeOK
    BY <1>1, <1>2, InitTypes, Numbers DEF TypeOK, OneOwner
  <1>6. Structure
    BY <1>1, <1>2, <1>3, <1>4 DEF Structure, Numbered, Mapping, Processes, Waiters
  <1>7. Refused /\ DebtInv /\ ClaimInv /\ CoverInv /\ FreshInv
    BY <1>1, <1>4 DEF Refused, DebtInv, Succeeds, ClaimInv, CoverInv, FreshInv
  <1>. QED  BY <1>5, <1>6, <1>7 DEF IInv

LEMMA NextInvariant ==
  ASSUME IInv, [Next]_vars
  PROVE  IInv'
  BY StructureNext, RefusedNext, DebtInvNext, ClaimInvNext, CoverInvNext, FreshInvNext DEF IInv, TypeOK

THEOREM Inductive ==
  Spec => []IInv
  BY InitInvariant, NextInvariant, PTL DEF Spec

(* A claim has one sender, which its handshake holds until the sweep gets  *)
(* it or it is dropped (the oneshot of ReopenClaim).                       *)
THEOREM TypeCorrect ==
  Spec => []TypeOK
  BY Inductive, PTL DEF IInv

(* take_pending_reopen and rearm hand the debt of a replaced process over  *)
(* without ever losing it.                                                 *)
THEOREM DebtKept ==
  Spec => []DebtIsKept
  <1>1. IInv => DebtIsKept
    <2>. SUFFICES ASSUME IInv, mapped \notin {None, 1}
         PROVE  Debt /\ (state[mapped] = "Ready" /\ ~usurped => promise[mapped] # None)
      BY Zenon DEF DebtIsKept, Debt
    <2>1. Succeeds
      BY DEF IInv, Structure, Mapping, Succeeds
    <2>. QED  BY <2>1 DEF IInv, DebtInv, ClaimInv
  <1>. QED  BY <1>1, Inductive, PTL

(* shutdown_all: the flag is up before the snapshot, and an acquisition    *)
(* that passed it holds the lock the snapshot waits for.                   *)
THEOREM NoSpawnMissed ==
  Spec => NoSpawnAfterSnapshot
  <1>1. ASSUME IInv, [Next]_vars, shutdown.step \notin {"none", "flagged"}
        PROVE  mapped' \in {mapped, None}
    <2>1. shuttingDown /\ lock.by # "acquire"
      BY <1>1 DEF IInv, Refused
    <2>2. ~SpawnFirst /\ ~Replace
      BY <2>1 DEF SpawnFirst, Replace
    <2>. QED  BY <1>1, <2>2, MappedMoves DEF IInv, TypeOK
  <1>2. IInv /\ [Next]_vars => [shutdown.step \notin {"none", "flagged"} => mapped' \in {mapped, None}]_vars
    BY <1>1
  <1>. QED  BY <1>2, Inductive, PTL DEF Spec, NoSpawnAfterSnapshot

(* wait_for_reopen and the map's lock: no command overtakes the didOpens   *)
(* its process was promised, unless another handshake usurped the debt or  *)
(* the loop that starts the sweeps has ended.                              *)
THEOREM CommandsWait ==
  Spec => CommandFollowsReopen
  <1>1. ASSUME IInv, [Next]_vars, NEW c \in Command, IsSent(c),
               promise[command[c].handle] # None, forwarding, ~usurped
        PROVE  \E b \in Barrier : b >= promise[command[c].handle] /\ barrier[b].sender = "dropped"
    <2>1. command[c].step = "clear" /\ mapped = command[c].handle
      BY <1>1 DEF IsSent, Sends
    <2>2. mapped # None
      BY <1>1, <2>1, Numbers DEF IInv, Structure, Waiters, Born
    <2>. QED  BY <1>1, <2>1, <2>2 DEF IInv, CoverInv, Over
  <1>. DEFINE A == \A c \in Command : IsSent(c) =>
                     LET own == promise[command[c].handle] IN
                       own # None /\ forwarding /\ ~usurped =>
                         \E b \in Barrier : b >= own /\ barrier[b].sender = "dropped"
  <1>2. IInv /\ [Next]_vars => A
    BY <1>1
  <1>3. IInv /\ [Next]_vars => [A]_vars
    BY <1>2
  <1>. QED  BY <1>3, Inductive, PTL DEF Spec, CommandFollowsReopen

(* done.send(true): what the sweep reports as repaired is open on the      *)
(* process that gets the command, not on the one before it.                *)
THEOREM RepairsHold ==
  Spec => RepairedMeansHeld
  <1>1. ASSUME IInv, [Next]_vars, NEW c \in Command, IsSent(c), command[c].settled
        PROVE  Doc \subseteq held[command[c].handle] \cup barrier[command[c].barrier].exempt
    <2>. DEFINE b == command[c].barrier
    <2>1. command[c].step = "clear" /\ mapped = command[c].handle /\ State(mapped) = "Ready"
      BY <1>1 DEF IsSent, Sends
    <2>2. mapped # None /\ state[mapped] = "Ready" /\ running[mapped]
      BY <1>1, <2>1, Numbers DEF IInv, Structure, Waiters, Born, State
    <2>3. Fresh(b)
      BY <1>1, <2>1, <2>2 DEF IInv, FreshInv
    <2>4. b \in Barrier /\ barrier[b].done /\ barrier[b].sender = "dropped"
      BY <1>1 DEF IInv, Structure, Waiters, Numbered, Claimed
    <2>. QED  BY <2>1, <2>2, <2>3, <2>4 DEF Fresh, Swept
  <1>. DEFINE A == \A c \in Command : IsSent(c) /\ command[c].settled =>
                     Doc \subseteq held[command[c].handle] \cup barrier[command[c].barrier].exempt
  <1>2. IInv /\ [Next]_vars => [A]_vars
    BY <1>1
  <1>. QED  BY <1>2, Inductive, PTL DEF Spec, RepairedMeansHeld
=============================================================================
