---------------------------- MODULE SnapshotReads ----------------------------
(***************************************************************************)
(* A reader of the parse snapshots of DocumentStore: the waits of          *)
(* lsp_impl/snapshot_read.rs and snapshot_for_tokens.  Requests never      *)
(* parse; they take what is published, and those that cannot use it park   *)
(* on the snapshot cell until a pass publishes.  A reader subscribes to    *)
(* the cell and looks at the document in two steps, with edits, a close,   *)
(* a reopen and the passes in between.                                     *)
(*                                                                         *)
(* One reader at a time: readers share nothing, and one that is answered   *)
(* is another one next.                                                    *)
(***************************************************************************)
EXTENDS DocumentStore

VARIABLE
  reader    \* the reader: [pc, the cell's lifetime it subscribed to, ...]

Away == [pc |-> "away"]

(* latest_snapshot: a snapshot of another lifetime is none.                *)
Latest == IF HasSnap /\ doc.snap.inc = doc.inc THEN doc.snap ELSE NoSnap

(* subscribe_snapshots marks what the cell holds as seen.                  *)
Subscribe ==
  /\ reader = Away /\ IsOpen
  /\ reader' = [pc |-> "subscribed", inc |-> doc.inc, changed |-> FALSE]
  /\ UNCHANGED vars

\* Mutant: what the cell holds is marked as seen again before the wait.
ParksMarkingSeen == [pc |-> "parked", inc |-> reader.inc, trailing |-> Latest # NoSnap]

(* changed(): a cell that changed since it was subscribed to sends the     *)
(* reader round again at once.                                             *)
Parks ==
  IF reader.changed THEN Away
  ELSE [pc |-> "parked", inc |-> reader.inc, trailing |-> Latest # NoSnap]

(* A document that is gone ends the read.  A trailing snapshot is enough   *)
(* for some readers, which check it against the document once more later,  *)
(* and is waited out by the others.                                        *)
Look ==
  /\ reader.pc = "subscribed"
  /\ IF ~IsOpen \/ (Latest # NoSnap /\ Latest.ver = doc.ver)
       THEN reader' = Away
       ELSE \/ reader' = Parks
            \/ Latest # NoSnap /\ reader' = Away
  /\ UNCHANGED vars

(* The deadline: the settle wait's, or the first parse's.                  *)
TimesOut ==
  /\ reader.pc = "parked"
  /\ reader' = Away
  /\ UNCHANGED vars

(* Publishing, adding regions, invalidating and closing all notify the     *)
(* cell; an edit does not.                                                 *)
Notifies == doc.inc = reader.inc /\ (doc'.inc # doc.inc \/ doc'.snap # doc.snap)

Hears ==
  CASE reader.pc = "subscribed" -> [reader EXCEPT !.changed = @ \/ Notifies]
    [] reader.pc = "parked" -> IF Notifies THEN Away ELSE reader
    [] OTHER -> reader

ReadInit == Init /\ reader = Away

ReadNext == Subscribe \/ Look \/ TimesOut \/ (Next /\ reader' = Hears)

ReadSpec == ReadInit /\ [][ReadNext]_<<vars, reader>>

-----------------------------------------------------------------------------
(* A parked reader waits on the cell of the document that is open now, and *)
(* nothing it waits for is there already; one that found no snapshot at    *)
(* all, and waits with the generous deadline of the first parse, is owed   *)
(* one by a pass that works for this lifetime.                             *)
ParkedReaderIsOwed ==
  reader.pc = "parked" =>
    /\ IsOpen /\ doc.inc = reader.inc
    /\ IF reader.trailing
         THEN HasSnap /\ doc.snap.ver # doc.ver
         ELSE ~HasSnap /\ FirstParseOwed
=============================================================================
