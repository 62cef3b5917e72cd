------------------------ MODULE SnapshotReadsProofs ------------------------
(***************************************************************************)
(* Proofs about SnapshotReads, for any number of passes, languages,        *)
(* lifetimes, versions and reloads: no reader waits for what is there      *)
(* already, or for a pass that nobody runs.                                *)
(*                                                                         *)
(* The argument: until the cell has changed, a reader that subscribed      *)
(* looks at the lifetime it subscribed to, and the snapshot it parks on is *)
(* the one it saw; what the reader then waits for comes from the store's   *)
(* own invariant, FirstParseOwed in it.                                    *)
(***************************************************************************)
EXTENDS SnapshotReads, DocumentStoreProofs

(* The inductive invariant: the store's, and the reader's part. *)
ReaderInv ==
  /\ reader.pc \in {"away", "subscribed", "parked"}
  /\ reader.pc = "subscribed" =>
       /\ reader = [pc |-> "subscribed", inc |-> reader.inc, changed |-> reader.changed]
       /\ reader.changed \in BOOLEAN
       /\ ~reader.changed => IsOpen /\ doc.inc = reader.inc
  /\ reader.pc = "parked" =>
       /\ IsOpen /\ doc.inc = reader.inc
       /\ reader.trailing \in BOOLEAN
       /\ IF reader.trailing THEN HasSnap /\ doc.snap.ver # doc.ver ELSE ~HasSnap

RInv == StoreInv /\ ReaderInv

-----------------------------------------------------------------------------
(* The versions of an open document and of its snapshot.                   *)
LEMMA OpenVersions ==
  ASSUME StoreInv, IsOpen
  PROVE  /\ doc.inc \in 1..opens /\ doc.ver \in Nat /\ opens \in Nat
         /\ HasSnap => /\ doc.snap.inc = doc.inc
                       /\ doc.snap.ver \in Nat /\ doc.snap.ver <= doc.ver
  BY DEF StoreInv, DocOK, IsOpen, HasSnap, Closed, SnapOK, Faithful

(* A reader subscribes.                                                    *)
LEMMA SubscribeOK == ASSUME RInv, Subscribe PROVE ReaderInv'
  <1>1. /\ reader' = [pc |-> "subscribed", inc |-> doc.inc, changed |-> FALSE]
        /\ doc' = doc /\ IsOpen
    BY DEF Subscribe, vars
  <1>. QED  BY <1>1 DEF ReaderInv, IsOpen

(* A reader looks at the cell.                                             *)
LEMMA LookOK == ASSUME RInv, Look PROVE ReaderInv'
  <1>1. reader.pc = "subscribed" /\ doc' = doc
    BY DEF Look, vars
  <1>2. CASE reader' = Away
    BY <1>2 DEF ReaderInv, Away
  <1>3. CASE /\ IsOpen /\ ~(Latest # NoSnap /\ Latest.ver = doc.ver)
             /\ ~reader.changed
             /\ reader' = [pc |-> "parked", inc |-> reader.inc, trailing |-> Latest # NoSnap]
    <2>1. doc.inc = reader.inc
      BY <1>1, <1>3 DEF RInv, ReaderInv
    <2>2. HasSnap => Latest = doc.snap
      BY <1>3, OpenVersions DEF RInv, Latest
    <2>3. ~HasSnap => Latest = NoSnap
      BY DEF Latest
    <2>4. /\ reader'.pc = "parked" /\ reader'.inc = reader.inc
          /\ reader'.trailing \in BOOLEAN /\ (reader'.trailing <=> HasSnap)
      BY <1>3, <2>2, <2>3 DEF HasSnap
    <2>5. HasSnap => doc.snap.ver # doc.ver
      BY <1>3, <2>2 DEF HasSnap
    <2>. QED  BY <1>1, <1>3, <2>1, <2>4, <2>5 DEF ReaderInv, IsOpen, HasSnap
  <1>. QED  BY <1>2, <1>3 DEF Look, Parks

(* A reader's deadline passes.                                             *)
LEMMA TimesOutOK == ASSUME RInv, TimesOut PROVE ReaderInv'
  BY DEF TimesOut, Away, ReaderInv

(* A step of the store either notifies the reader, or leaves its lifetime  *)

(* and its snapshot as they are.                                           *)
LEMMA HearsOK ==
  ASSUME RInv, [Next]_vars, reader' = Hears
  PROVE  ReaderInv'
  <1>1. StoreInv /\ Keeps(doc, opens, loaded, doc', opens', loaded')
    BY NextOK DEF RInv
  <1>2. CASE reader.pc = "away"
    <2>1. reader' = reader
      BY <1>2 DEF Hears
    <2>. QED  BY <1>2, <2>1 DEF ReaderInv
  <1>3. CASE reader.pc = "subscribed"
    <2>1. reader' = [reader EXCEPT !.changed = @ \/ Notifies]
      BY <1>3 DEF Hears
    <2>2. reader = [pc |-> "subscribed", inc |-> reader.inc, changed |-> reader.changed]
      BY <1>3 DEF RInv, ReaderInv
    <2>3. /\ reader' = [pc |-> "subscribed", inc |-> reader'.inc, changed |-> reader'.changed]
          /\ reader'.inc = reader.inc
          /\ reader'.changed \in BOOLEAN
          /\ ~reader'.changed => ~reader.changed /\ ~Notifies
      BY <1>3, <2>1, <2>2 DEF RInv, ReaderInv
    <2>4. ~reader'.changed => doc'.inc = reader.inc /\ doc'.inc # 0
      BY <1>3, <2>3 DEF RInv, ReaderInv, Notifies, IsOpen
    <2>. QED  BY <2>3, <2>4 DEF ReaderInv, IsOpen
  <1>4. CASE reader.pc = "parked"
    <2>1. CASE Notifies
      <3>1. reader' = Away
        BY <1>4, <2>1 DEF Hears
      <3>. QED  BY <3>1 DEF ReaderInv, Away
    <2>2. CASE ~Notifies
      <3>1. reader' = reader
        BY <1>4, <2>2 DEF Hears
      <3>2. doc.inc = reader.inc /\ IsOpen
        BY <1>4 DEF RInv, ReaderInv
      <3>3. doc'.inc = doc.inc /\ doc'.snap = doc.snap
        BY <2>2, <3>2 DEF Notifies
      <3>4. HasSnap /\ doc.snap.ver # doc.ver => doc.snap.ver # doc'.ver
        <4>1. doc.inc \in 1..opens /\ doc.ver \in Nat
          BY <1>1, <3>2, OpenVersions
        <4>2. doc'.ver \in Nat /\ doc.ver <= doc'.ver
          BY <1>1, <3>3, <4>1 DEF Keeps
        <4>. QED  BY <1>1, <3>2, <4>1, <4>2, OpenVersions
      <3>. QED  BY <1>4, <3>1, <3>2, <3>3, <3>4 DEF RInv, ReaderInv, IsOpen, HasSnap
    <2>. QED  BY <2>1, <2>2
  <1>. QED  BY <1>2, <1>3, <1>4 DEF RInv, ReaderInv

(* What parked readers wait for is as the store has it throughout.         *)
THEOREM ReadInvariant == ReadSpec => []RInv
  <1>1. ReadInit => RInv
    BY InitOK DEF ReadInit, RInv, ReaderInv, Away
  <1>2. ASSUME RInv, [ReadNext]_<<vars, reader>> PROVE RInv'
    <2>1. CASE Subscribe \/ Look \/ TimesOut
      <3>1. UNCHANGED vars
        BY <2>1 DEF Subscribe, Look, TimesOut
      <3>2. StoreInv'
        BY <1>2, <3>1, NextOK DEF RInv
      <3>. QED  BY <1>2, <2>1, <3>2, SubscribeOK, LookOK, TimesOutOK DEF RInv
    <2>2. CASE Next /\ reader' = Hears
      BY <1>2, <2>2, NextOK, HearsOK DEF RInv
    <2>3. CASE UNCHANGED <<vars, reader>>
      <3>1. UNCHANGED vars /\ reader' = reader /\ doc' = doc
        BY <2>3 DEF vars
      <3>2. StoreInv'
        BY <1>2, <3>1, NextOK DEF RInv
      <3>. QED  BY <1>2, <3>1, <3>2 DEF RInv, ReaderInv, IsOpen, HasSnap
    <2>. QED  BY <1>2, <2>1, <2>2, <2>3 DEF ReadNext
  <1>. QED  BY <1>1, <1>2, PTL DEF ReadSpec

(* A parked reader waits on the open document's cell, for a version that   *)

(* is not there; one that waits for the first parse is owed it by a pass.  *)
THEOREM ParkedReaderIsOwedHolds == ReadSpec => []ParkedReaderIsOwed
  <1>1. RInv => ParkedReaderIsOwed
    BY DEF RInv, ReaderInv, StoreInv, ParkedReaderIsOwed
  <1>. QED  BY <1>1, ReadInvariant, PTL
=============================================================================
