------------------------ MODULE DocumentStoreProofs ------------------------
(***************************************************************************)
(* Proofs about DocumentStore, for any number of passes, languages,        *)
(* lifetimes, versions and reloads: what readers are served is the text of *)
(* its version, regions ride on their own tree, readers never go back, and *)
(* a lifetime without a snapshot is worked for.                            *)
(*                                                                         *)
(* The argument: whatever happens to the document keeps what a pass        *)
(* captured from it (Keeps).  A lifetime's texts are only ever added to,   *)
(* beyond its version; its version and its snapshot never go away; and     *)
(* another lifetime has a number no pass has.  The same split gives that   *)
(* trees are sound (SoundInv) and the types (FitInv).                      *)
(***************************************************************************)
EXTENDS DocumentStore, TLAPS

(* The inputs' and the snapshot's records, by their fields.                *)
IsDoc(d) ==
  d = [inc |-> d.inc, ver |-> d.ver, label |-> d.label, says |-> d.says,
       log |-> d.log, floor |-> d.floor, snap |-> d.snap,
       edited |-> d.edited, replaced |-> d.replaced]
IsSnap(s) ==
  s = [by |-> s.by, inc |-> s.inc, ver |-> s.ver, text |-> s.text, lang |-> s.lang,
       tree |-> s.tree, sound |-> s.sound, gram |-> s.gram, regions |-> s.regions]

Writes(d, v) == { w \in d.edited \cup d.replaced : w <= v }
LastOf(W) == IF W = {} THEN 0 ELSE CHOOSE w \in W : \A x \in W : x <= w

(* What was captured as version v of lifetime inc is that version's text.  *)
Faithful(inc, v, text, d, o) ==
  /\ inc \in 1..o /\ v \in Nat
  /\ inc = d.inc => v <= d.ver /\ text = TextOf(d, v)

SnapOK(s, d, o) == IsSnap(s) /\ Faithful(s.inc, s.ver, s.text, d, o)
RegionsOK(s) == s.regions # NoLang => s.tree /\ s.regions = s.by

DocOK(d, o) ==
  \/ d = Closed
  \/ /\ IsDoc(d) /\ d.inc \in 1..o /\ d.ver \in Nat
     /\ d.snap # NoSnap =>
          SnapOK(d.snap, d, o) /\ d.snap.inc = d.inc /\ RegionsOK(d.snap)

InputsOK(in, d, o) ==
  /\ in.kind \in {"open", "latest", "installed"}
  /\ Faithful(in.inc, in.ver, in.text, d, o)

(* A pass's snapshot is of its inputs.  Until the first parse is published *)
(* an install waits for the language the document was opened with.         *)
PassOK(r, d, o, l) ==
  /\ r.pc \in {"idle", "open", "install", "installed", "attempt", "captured",
               "parsing", "parsed", "single", "first", "complete", "giveup"}
  /\ r.pc \in {"open", "install", "installed", "attempt", "giveup"} => r.inc \in 1..o
  /\ r.pc \in {"install", "installed"} =>
       (r.inc = d.inc => d.snap # NoSnap \/ d.label = r.lang)
  /\ r.pc = "installed" => r.lang \in l
  /\ r.pc = "captured" => InputsOK(r, d, o)
  /\ r.pc \in {"parsing", "parsed", "single", "first", "complete"} => InputsOK(r.in, d, o)
  /\ r.pc \in {"single", "first", "complete"} =>
       /\ SnapOK(r.snap, d, o) /\ r.snap.inc = r.in.inc /\ r.snap.ver = r.in.ver
       /\ r.snap.regions = NoLang
       /\ r.in.kind = "open" => r.check.kind = "Record"
  /\ r.pc = "complete" => (r.in.inc = d.inc => d.snap # NoSnap)

Works(r) ==
  CASE r.pc = "idle" -> 0
    [] r.pc \in {"parsing", "parsed", "single", "first", "complete"} -> r.in.inc
    [] OTHER -> r.inc

(* The inductive invariant. *)
StoreInv ==
  /\ opens \in Nat
  /\ DocOK(doc, opens)
  /\ DOMAIN pass = Pass
  /\ \A p \in Pass : PassOK(pass[p], doc, opens, loaded)
  /\ FirstParseOwed

(* What a step does to the document as far as a pass can tell.             *)
Keeps(d, o, l, d2, o2, l2) ==
  /\ o2 \in Nat /\ o <= o2
  /\ l \subseteq l2
  /\ \A i \in 1..o : i = d2.inc =>
       /\ i = d.inc
       /\ d2.ver \in Nat /\ d.ver <= d2.ver
       /\ \A v \in Nat : v <= d.ver => TextOf(d2, v) = TextOf(d, v)
       /\ d.snap # NoSnap => d2.snap # NoSnap
       /\ d2.snap # NoSnap \/ d2.label = d.label

-----------------------------------------------------------------------------
(* The text of a version is the latest write up to it.                     *)
LEMMA TextIsLatest == \A d, v : TextOf(d, v) = LastOf(Writes(d, v))
  BY DEF TextOf, LastOf, Writes

(* Every record with a snapshot's fields is one.                           *)
LEMMA SnapRecord ==
  \A by, inc, ver, text, lang, tree, sound, g, regions :
    IsSnap([by |-> by, inc |-> inc, ver |-> ver, text |-> text, lang |-> lang,
            tree |-> tree, sound |-> sound, gram |-> g, regions |-> regions])
  BY DEF IsSnap

(* A snapshot is not the bootstrap one.                                    *)
LEMMA SnapIsSome == \A s : IsSnap(s) => s # NoSnap
  <1>. SUFFICES ASSUME NEW s, IsSnap(s), s = NoSnap PROVE FALSE
    OBVIOUS
  <1>1. "inc" \in DOMAIN s
    BY DEF IsSnap
  <1>2. "inc" \notin DOMAIN s
    BY DEF NoSnap
  <1>. QED  BY <1>1, <1>2

(* A pass keeps what it captured.                                          *)
LEMMA FaithfulKept ==
  ASSUME NEW d, NEW o \in Nat, NEW l, NEW d2, NEW o2, NEW l2,
         DocOK(d, o), Keeps(d, o, l, d2, o2, l2),
         NEW inc, NEW v, NEW text, Faithful(inc, v, text, d, o)
  PROVE  Faithful(inc, v, text, d2, o2)
  <1>1. inc \in 1..o2
    BY DEF Keeps, Faithful
  <1>2. ASSUME inc = d2.inc PROVE v <= d2.ver /\ text = TextOf(d2, v)
    <2>1. inc = d.inc /\ v <= d.ver /\ text = TextOf(d, v) /\ v \in Nat
      BY <1>2 DEF Keeps, Faithful
    <2>2. d.inc # 0 /\ d.ver \in Nat
      BY <2>1 DEF Faithful, DocOK, Closed
    <2>3. d2.ver \in Nat /\ d.ver <= d2.ver /\ TextOf(d2, v) = TextOf(d, v)
      BY <1>2, <2>1 DEF Keeps, Faithful
    <2>. QED  BY <2>1, <2>2, <2>3
  <1>. QED  BY <1>1, <1>2 DEF Faithful

(* So does all that is in flight.                                          *)
LEMMA SnapKept ==
  ASSUME NEW d, NEW o \in Nat, NEW l, NEW d2, NEW o2, NEW l2,
         DocOK(d, o), Keeps(d, o, l, d2, o2, l2), NEW s, SnapOK(s, d, o)
  PROVE  SnapOK(s, d2, o2)
  BY FaithfulKept DEF SnapOK

(* So do the inputs of a pass.                                             *)
LEMMA InputsKept ==
  ASSUME NEW d, NEW o \in Nat, NEW l, NEW d2, NEW o2, NEW l2,
         DocOK(d, o), Keeps(d, o, l, d2, o2, l2), NEW in, InputsOK(in, d, o)
  PROVE  InputsOK(in, d2, o2)
  BY FaithfulKept DEF InputsOK

(* So does a pass that does not move.                                      *)
LEMMA PassKept ==
  ASSUME NEW d, NEW o \in Nat, NEW l, NEW d2, NEW o2, NEW l2,
         DocOK(d, o), Keeps(d, o, l, d2, o2, l2), NEW r, PassOK(r, d, o, l)
  PROVE  PassOK(r, d2, o2, l2)
  <1>1. \A i \in 1..o : i \in 1..o2
    BY DEF Keeps
  <1>2. \A i \in 1..o : i = d2.inc =>
          i = d.inc /\ (d.snap # NoSnap => d2.snap # NoSnap)
                    /\ (d2.snap # NoSnap \/ d2.label = d.label)
    BY DEF Keeps
  <1>3. r.pc \in {"open", "install", "installed", "attempt", "giveup"} => r.inc \in 1..o2
    BY <1>1 DEF PassOK
  <1>4. r.pc \in {"install", "installed"} =>
          (r.inc = d2.inc => d2.snap # NoSnap \/ d2.label = r.lang)
    BY <1>2 DEF PassOK
  <1>5. r.pc = "installed" => r.lang \in l2
    BY DEF PassOK, Keeps
  <1>6. r.pc = "captured" => InputsOK(r, d2, o2)
    BY InputsKept DEF PassOK
  <1>7. r.pc \in {"parsing", "parsed", "single", "first", "complete"} => InputsOK(r.in, d2, o2)
    BY InputsKept DEF PassOK
  <1>8. r.pc \in {"single", "first", "complete"} => SnapOK(r.snap, d2, o2)
    BY SnapKept DEF PassOK
  <1>9. r.pc = "complete" => (r.in.inc = d2.inc => d2.snap # NoSnap)
    BY <1>2 DEF PassOK, InputsOK, Faithful
  <1>. QED  BY <1>3, <1>4, <1>5, <1>6, <1>7, <1>8, <1>9 DEF PassOK

(* An unchanged document keeps everything.                                 *)
LEMMA KeepsSame ==
  ASSUME NEW d, NEW o \in Nat, NEW l, NEW l2, DocOK(d, o), l \subseteq l2
  PROVE  Keeps(d, o, l, d, o, l2)
  BY DEF Keeps, DocOK, Closed

-----------------------------------------------------------------------------
(* The document's operations.  Beyond its version no text is written.      *)
SameWrites(d, d2) ==
  \A v \in Nat : v <= d.ver => Writes(d2, v) = Writes(d, v)

(* A document that only gains keeps what was captured of it.               *)
LEMMA AddKeeps ==
  ASSUME NEW d, NEW o \in Nat, NEW l, DocOK(d, o), d.inc # 0,
         NEW d2, IsDoc(d2), d2.inc = d.inc, d2.ver \in Nat, d.ver <= d2.ver,
         SameWrites(d, d2), d.snap # NoSnap => d2.snap # NoSnap,
         d2.snap # NoSnap \/ d2.label = d.label
  PROVE  /\ Keeps(d, o, l, d2, o, l)
         /\ d2.snap = d.snap => DocOK(d2, o)
  <1>1. IsDoc(d) /\ d.inc \in 1..o /\ d.ver \in Nat
    BY DEF DocOK, Closed
  <1>2. \A v \in Nat : v <= d.ver => TextOf(d2, v) = TextOf(d, v)
    BY TextIsLatest DEF SameWrites
  <1>3. Keeps(d, o, l, d2, o, l)
    BY <1>1, <1>2 DEF Keeps
  <1>4. ASSUME d2.snap = d.snap, d.snap # NoSnap
        PROVE  SnapOK(d.snap, d2, o) /\ d.snap.inc = d.inc /\ RegionsOK(d.snap)
    <2>1. SnapOK(d.snap, d, o) /\ d.snap.inc = d.inc /\ RegionsOK(d.snap)
      BY <1>4 DEF DocOK, Closed
    <2>. QED  BY <2>1, <1>3, SnapKept
  <1>5. d2.snap = d.snap => DocOK(d2, o)
    BY <1>1, <1>4 DEF DocOK
  <1>. QED  BY <1>3, <1>5

(* didChange: the text of the next version is added.                       *)
LEMMA EditOK ==
  ASSUME NEW d, NEW o \in Nat, NEW l, DocOK(d, o), d.inc # 0, NEW says,
         NEW d2 \in {ApplyEdit(d, says), ReplaceText(d, says)}
  PROVE  DocOK(d2, o) /\ Keeps(d, o, l, d2, o, l) /\ d2.snap = d.snap /\ d2.inc = d.inc
  <1>1. IsDoc(d) /\ d.ver \in Nat
    BY DEF DocOK, Closed
  <1>2. /\ IsDoc(d2) /\ d2.inc = d.inc /\ d2.ver = d.ver + 1 /\ d2.snap = d.snap
        /\ d2.label = d.label
        /\ d2.edited \cup d2.replaced = d.edited \cup d.replaced \cup {d.ver + 1}
    <2>1. CASE d2 = ApplyEdit(d, says)
      BY <1>1, <2>1 DEF ApplyEdit, IsDoc
    <2>2. CASE d2 = ReplaceText(d, says)
      BY <1>1, <2>2 DEF ReplaceText, IsDoc
    <2>. QED  BY <2>1, <2>2
  <1>3. SameWrites(d, d2)
    BY <1>1, <1>2 DEF SameWrites, Writes
  <1>. QED  BY <1>1, <1>2, <1>3, AddKeeps

(* A new snapshot of the inputs' own text is published.                    *)
LEMMA PublishOK ==
  ASSUME NEW d, NEW o \in Nat, NEW l, DocOK(d, o), d.inc # 0,
         NEW s, SnapOK(s, d, o), s.inc = d.inc, RegionsOK(s),
         NEW d2, IsDoc(d2), d2.inc = d.inc, d2.ver = d.ver, d2.snap = s,
         d2.edited = d.edited, d2.replaced = d.replaced
  PROVE  DocOK(d2, o) /\ Keeps(d, o, l, d2, o, l) /\ d2.snap # NoSnap
  <1>1. d.inc \in 1..o /\ d.ver \in Nat
    BY DEF DocOK, Closed
  <1>2. s # NoSnap
    BY SnapIsSome DEF SnapOK
  <1>3. SameWrites(d, d2)
    BY DEF SameWrites, Writes
  <1>4. Keeps(d, o, l, d2, o, l)
    BY <1>1, <1>2, <1>3, AddKeeps
  <1>5. SnapOK(s, d2, o)
    BY <1>4, SnapKept
  <1>. QED  BY <1>1, <1>2, <1>4, <1>5 DEF DocOK

(* A reload: a snapshot without a tree, of a version of its own.           *)
LEMMA InvalidateOK ==
  ASSUME NEW l, opens \in Nat, DocOK(doc, opens), doc.inc # 0
  PROVE  /\ DocOK(InvalidateParse(doc), opens)
         /\ Keeps(doc, opens, l, InvalidateParse(doc), opens, l)
         /\ InvalidateParse(doc).snap # NoSnap
         /\ InvalidateParse(doc).inc = doc.inc
  <1>. DEFINE d2 == InvalidateParse(doc)
              s == d2.snap
  <1>1. IsDoc(doc) /\ doc.inc \in 1..opens /\ doc.ver \in Nat
    BY DEF DocOK, Closed
  <1>2. /\ IsDoc(d2) /\ d2.inc = doc.inc /\ d2.ver = doc.ver + 1
        /\ d2.edited = doc.edited /\ d2.replaced = doc.replaced
        /\ IsSnap(s) /\ s.inc = doc.inc /\ s.ver = doc.ver + 1
        /\ s.text = TextOf(doc, doc.ver + 1) /\ s.regions = NoLang
    <2>. DEFINE r == [by |-> "reload", inc |-> doc.inc, ver |-> doc.ver + 1,
                      text |-> TextOf(doc, doc.ver + 1), lang |-> doc.label,
                      tree |-> FALSE, sound |-> TRUE, gram |-> gram, regions |-> NoLang]
    <2>1. d2 = [doc EXCEPT !.ver = doc.ver + 1, !.log = {}, !.floor = doc.ver + 1, !.snap = r]
      BY DEF InvalidateParse
    <2>2. /\ IsSnap(r) /\ r.inc = doc.inc /\ r.ver = doc.ver + 1
          /\ r.text = TextOf(doc, doc.ver + 1) /\ r.regions = NoLang
      BY SnapRecord
    <2>. HIDE DEF r, d2
    <2>3. /\ IsDoc(d2) /\ d2.inc = doc.inc /\ d2.ver = doc.ver + 1 /\ d2.snap = r
          /\ d2.edited = doc.edited /\ d2.replaced = doc.replaced
      BY <1>1, <2>1 DEF IsDoc
    <2>. QED  BY <2>2, <2>3
  <1>3. \A v : Writes(d2, v) = Writes(doc, v)
    BY <1>2 DEF Writes
  <1>4. s.text = TextOf(d2, s.ver)
    BY <1>2, <1>3, TextIsLatest
  <1>5. s # NoSnap
    BY <1>2, SnapIsSome
  <1>6. Keeps(doc, opens, l, d2, opens, l)
    BY <1>1, <1>2, <1>3, <1>5, AddKeeps DEF SameWrites
  <1>7. SnapOK(s, d2, opens) /\ RegionsOK(s)
    BY <1>1, <1>2, <1>4 DEF SnapOK, Faithful, RegionsOK
  <1>. QED  BY <1>1, <1>2, <1>5, <1>6, <1>7 DEF DocOK

(* A pass's snapshot: installed when admitted, and a lifetime's first one  *)

(* always is unless the label moved.                                       *)
LEMMA InstallOK ==
  ASSUME NEW d, NEW o \in Nat, NEW l, DocOK(d, o), d.inc # 0, NEW check,
         NEW s, SnapOK(s, d, o), s.regions = NoLang
  PROVE  LET d2 == InstallParse(d, check, s) IN
         /\ DocOK(d2, o) /\ Keeps(d, o, l, d2, o, l) /\ d2.inc = d.inc
         /\ InstallAdmitted(d, check, s) => d2.snap # NoSnap
         /\ s.inc = d.inc /\ check.kind = "Record" => d2.snap # NoSnap
  <1>. DEFINE d2 == InstallParse(d, check, s)
  <1>1. IsDoc(d) /\ d.inc \in 1..o /\ d.ver \in Nat
    BY DEF DocOK, Closed
  <1>2. s.inc = d.inc /\ check.kind = "Record" /\ d.snap = NoSnap => InstallAdmitted(d, check, s)
    BY DEF InstallAdmitted, LanguageMatches, Admits
  <1>3. CASE InstallAdmitted(d, check, s)
    <2>1. s.inc = d.inc
      BY <1>3 DEF InstallAdmitted, Admits
    <2>2. /\ IsDoc(d2) /\ d2.inc = d.inc /\ d2.ver = d.ver /\ d2.snap = s
          /\ d2.edited = d.edited /\ d2.replaced = d.replaced
      BY <1>1, <1>3 DEF InstallParse, IsDoc
    <2>3. RegionsOK(s)
      BY DEF RegionsOK
    <2>. QED  BY <2>1, <2>2, <2>3, PublishOK
  <1>4. CASE ~InstallAdmitted(d, check, s)
    <2>1. d2 = d
      BY <1>4 DEF InstallParse
    <2>. QED  BY <1>2, <1>4, <2>1, KeepsSame
  <1>. QED  BY <1>3, <1>4

(* Regions are added to the snapshot they were resolved from.              *)
LEMMA CompleteOK ==
  ASSUME NEW d, NEW o \in Nat, NEW l, DocOK(d, o), d.inc # 0, NEW check,
         NEW s, SnapOK(s, d, o)
  PROVE  LET d2 == CompleteParse(d, check, s) IN
         DocOK(d2, o) /\ Keeps(d, o, l, d2, o, l) /\ d2.inc = d.inc
  <1>. DEFINE d2 == CompleteParse(d, check, s)
  <1>1. IsDoc(d) /\ d.inc \in 1..o /\ d.ver \in Nat
    BY DEF DocOK, Closed
  <1>2. CASE LanguageMatches(d, check) /\ d.snap = s /\ s.tree /\ s.regions = NoLang
    <2>. DEFINE s2 == [s EXCEPT !.regions = s.by]
    <2>1. /\ IsDoc(d2) /\ d2.inc = d.inc /\ d2.ver = d.ver /\ d2.snap = s2
          /\ d2.edited = d.edited /\ d2.replaced = d.replaced
      BY <1>1, <1>2 DEF CompleteParse, IsDoc
    <2>2. /\ IsSnap(s2) /\ s2.inc = s.inc /\ s2.ver = s.ver /\ s2.text = s.text
          /\ s2.tree = s.tree /\ s2.by = s.by /\ s2.regions = s.by
      BY DEF SnapOK, IsSnap
    <2>3. s.inc = d.inc
      BY <1>2, SnapIsSome DEF DocOK, Closed, SnapOK
    <2>4. SnapOK(s2, d, o)
      BY <2>2 DEF SnapOK
    <2>5. RegionsOK(s2)
      BY <1>2, <2>2 DEF RegionsOK
    <2>. QED  BY <2>1, <2>2, <2>3, <2>4, <2>5, PublishOK
  <1>3. CASE ~(LanguageMatches(d, check) /\ d.snap = s /\ s.tree /\ s.regions = NoLang)
    <2>1. d2 = d
      BY <1>3 DEF CompleteParse
    <2>. QED  BY <2>1, KeepsSame
  <1>. QED  BY <1>2, <1>3

(* A pass that gives up: a snapshot without a tree, where there was none.  *)
LEMMA GiveUpOK ==
  ASSUME NEW l, NEW inc, opens \in Nat, DocOK(doc, opens)
  PROVE  LET d2 == PublishGiveup(inc) IN
         /\ DocOK(d2, opens) /\ Keeps(doc, opens, l, d2, opens, l)
         /\ d2.inc = doc.inc
         /\ IsOpen /\ doc.inc = inc => d2.snap # NoSnap
  <1>. DEFINE d2 == PublishGiveup(inc)
              s == GiveUpSnapshot(doc)
  <1>1. CASE IsOpen /\ doc.inc = inc /\ ~HasSnap
    <2>1. IsDoc(doc) /\ doc.inc \in 1..opens /\ doc.ver \in Nat /\ doc.inc # 0
      BY <1>1 DEF DocOK, Closed, IsOpen
    <2>2. /\ IsDoc(d2) /\ d2.inc = doc.inc /\ d2.ver = doc.ver /\ d2.snap = s
          /\ d2.edited = doc.edited /\ d2.replaced = doc.replaced
      BY <1>1, <2>1 DEF PublishGiveup, IsDoc
    <2>3. /\ IsSnap(s) /\ s.inc = doc.inc /\ s.ver = doc.ver /\ s.regions = NoLang
          /\ s.text = TextOf(doc, doc.ver)
      BY DEF GiveUpSnapshot, IsSnap
    <2>4. SnapOK(s, doc, opens) /\ RegionsOK(s)
      BY <2>1, <2>3 DEF SnapOK, Faithful, RegionsOK
    <2>. QED  BY <2>1, <2>2, <2>3, <2>4, PublishOK
  <1>2. CASE ~(IsOpen /\ doc.inc = inc /\ ~HasSnap)
    <2>1. d2 = doc
      BY <1>2 DEF PublishGiveup
    <2>. QED  BY <1>2, <2>1, KeepsSame DEF HasSnap
  <1>. QED  BY <1>1, <1>2

-----------------------------------------------------------------------------
(* A lifetime that has no snapshot is worked for, by the records.          *)
LEMMA OwedIs ==
  FirstParseOwed <=> (doc.inc # 0 /\ doc.snap = NoSnap =>
                        \E p \in Pass : Works(pass[p]) = doc.inc)
  BY DEF FirstParseOwed, IsOpen, HasSnap, WorksFor, Works

Owed(d, ps) ==
  d.inc # 0 /\ d.snap = NoSnap => \E p \in Pass : Works(ps[p]) = d.inc

(* A step of one pass: it keeps the document's promises, and stops working *)

(* for a lifetime only when that has a snapshot.                           *)
LEMMA MoveOK ==
  ASSUME StoreInv, NEW p \in Pass,
         DOMAIN pass' = Pass, \A q \in Pass : q # p => pass'[q] = pass[q],
         opens' = opens, doc'.inc = doc.inc,
         DocOK(doc', opens), Keeps(doc, opens, loaded, doc', opens, loaded'),
         PassOK(pass'[p], doc', opens, loaded'),
         Works(pass[p]) = doc.inc /\ doc.inc # 0 /\ doc'.snap = NoSnap =>
           Works(pass'[p]) = doc.inc
  PROVE  StoreInv' /\ Keeps(doc, opens, loaded, doc', opens', loaded')
  <1>1. \A q \in Pass : PassOK(pass'[q], doc', opens', loaded')
    <2>. TAKE q \in Pass
    <2>1. CASE q = p
      BY <2>1
    <2>2. CASE q # p
      <3>1. PassOK(pass[q], doc, opens, loaded)
        BY DEF StoreInv
      <3>. QED  BY <2>2, <3>1, PassKept DEF StoreInv
    <2>. QED  BY <2>1, <2>2
  <1>2. ASSUME doc'.inc # 0, doc'.snap = NoSnap
        PROVE  \E q \in Pass : Works(pass'[q]) = doc'.inc
    <2>1. doc.inc \in 1..opens
      BY <1>2 DEF StoreInv, DocOK, Closed
    <2>2. doc.snap = NoSnap
      BY <1>2, <2>1 DEF Keeps
    <2>3. PICK q \in Pass : Works(pass[q]) = doc.inc
      BY <1>2, <2>2, OwedIs DEF StoreInv
    <2>. QED  BY <1>2, <2>3
  <1>3. FirstParseOwed'
    BY <1>2 DEF FirstParseOwed, IsOpen, HasSnap, WorksFor, Works
  <1>4. opens' \in Nat /\ DocOK(doc', opens')
    BY DEF StoreInv
  <1>. QED  BY <1>1, <1>3, <1>4 DEF StoreInv

(* The handlers and the reload leave the passes alone.                     *)
LEMMA HandlerOK ==
  ASSUME StoreInv, pass' = pass, opens' = opens, loaded' = loaded,
         DocOK(doc', opens), Keeps(doc, opens, loaded, doc', opens, loaded),
         doc'.inc # 0 => doc'.inc = doc.inc
  PROVE  StoreInv' /\ Keeps(doc, opens, loaded, doc', opens', loaded')
  <1>1. \A q \in Pass : PassOK(pass'[q], doc', opens', loaded')
    BY PassKept DEF StoreInv
  <1>2. ASSUME doc'.inc # 0, doc'.snap = NoSnap
        PROVE  \E q \in Pass : Works(pass'[q]) = doc'.inc
    <2>1. doc.inc \in 1..opens
      BY <1>2 DEF StoreInv, DocOK, Closed
    <2>2. doc.snap = NoSnap
      BY <1>2, <2>1 DEF Keeps
    <2>3. PICK q \in Pass : Works(pass[q]) = doc.inc
      BY <1>2, <2>2, OwedIs DEF StoreInv
    <2>. QED  BY <1>2, <2>3
  <1>3. FirstParseOwed'
    BY <1>2 DEF FirstParseOwed, IsOpen, HasSnap, WorksFor, Works
  <1>. QED  BY <1>1, <1>3 DEF StoreInv

(* The document closes: no pass is of the lifetime that follows.           *)
LEMMA DidCloseOK ==
  ASSUME StoreInv, DidClose
  PROVE  StoreInv' /\ Keeps(doc, opens, loaded, doc', opens', loaded')
  <1>1. doc' = Closed /\ opens' = opens /\ pass' = pass /\ loaded' = loaded
    BY DEF DidClose
  <1>2. Keeps(doc, opens, loaded, doc', opens, loaded)
    BY <1>1 DEF Keeps, Closed, StoreInv
  <1>. QED  BY <1>1, <1>2, HandlerOK DEF DocOK, Closed

(* The text changes.                                                       *)
LEMMA DidChangeOK ==
  ASSUME StoreInv, NEW says, DidChange(says)
  PROVE  StoreInv' /\ Keeps(doc, opens, loaded, doc', opens', loaded')
  <1>1. /\ doc' \in {ApplyEdit(doc, says), ReplaceText(doc, says)} /\ doc.inc # 0
        /\ opens' = opens /\ pass' = pass /\ loaded' = loaded
    BY DEF DidChange, IsOpen
  <1>2. DocOK(doc, opens) /\ opens \in Nat
    BY DEF StoreInv
  <1>3. /\ DocOK(doc', opens) /\ Keeps(doc, opens, loaded, doc', opens, loaded)
        /\ doc'.inc = doc.inc
    BY <1>1, <1>2, EditOK
  <1>. QED  BY <1>1, <1>3, HandlerOK

(* A reload takes the tree.                                                *)
LEMMA ReloadInvalidatesOK ==
  ASSUME StoreInv, ReloadInvalidates
  PROVE  StoreInv' /\ Keeps(doc, opens, loaded, doc', opens', loaded')
  <1>1. /\ opens' = opens /\ pass' = pass /\ loaded' = loaded
        /\ doc' = IF doc.inc # 0 THEN InvalidateParse(doc) ELSE doc
    BY DEF ReloadInvalidates, IsOpen
  <1>2. DocOK(doc, opens) /\ opens \in Nat
    BY DEF StoreInv
  <1>3. /\ DocOK(doc', opens) /\ Keeps(doc, opens, loaded, doc', opens, loaded)
        /\ doc'.inc = doc.inc
    BY <1>1, <1>2, InvalidateOK, KeepsSame
  <1>. QED  BY <1>1, <1>3, HandlerOK

(* The document opens, and a pass is started for it.                       *)
LEMMA DidOpenOK ==
  ASSUME StoreInv, NEW p \in Pass, NEW ls_label, NEW says, NEW auto,
         DidOpen(p, ls_label, says, auto)
  PROVE  StoreInv' /\ Keeps(doc, opens, loaded, doc', opens', loaded')
  <1>. DEFINE label == IF ls_label = NoLang THEN says ELSE ls_label
  <1>1. /\ doc' = NewDocument(opens + 1, label, says) /\ opens' = opens + 1
        /\ loaded' = loaded
        /\ pass[p] = Idle
        /\ \/ pass' = [pass EXCEPT ![p] = [pc |-> "install", inc |-> opens + 1, lang |-> label]]
           \/ pass' = [pass EXCEPT ![p] = [pc |-> "open", inc |-> opens + 1, label |-> ls_label]]
    BY DEF DidOpen
  <1>2. /\ opens \in Nat /\ DocOK(doc, opens) /\ DOMAIN pass = Pass
        /\ \A q \in Pass : PassOK(pass[q], doc, opens, loaded)
    BY DEF StoreInv
  <1>3. /\ IsDoc(doc') /\ doc'.inc = opens + 1 /\ doc'.ver = 0 /\ doc'.snap = NoSnap
        /\ doc'.label = label
    BY <1>1 DEF NewDocument, IsDoc
  <1>. HIDE DEF label
  <1>4. Keeps(doc, opens, loaded, doc', opens', loaded')
    BY <1>1, <1>2, <1>3 DEF Keeps
  <1>5. DocOK(doc', opens')
    BY <1>1, <1>2, <1>3 DEF DocOK
  <1>6. /\ DOMAIN pass' = Pass /\ \A q \in Pass : q # p => pass'[q] = pass[q]
        /\ \/ pass'[p] = [pc |-> "install", inc |-> opens + 1, lang |-> label]
           \/ pass'[p] = [pc |-> "open", inc |-> opens + 1, label |-> ls_label]
    BY <1>1, <1>2
  <1>7. PassOK(pass'[p], doc', opens', loaded') /\ Works(pass'[p]) = opens + 1
    BY <1>1, <1>2, <1>3, <1>6 DEF PassOK, Works
  <1>8. \A q \in Pass : PassOK(pass'[q], doc', opens', loaded')
    BY <1>2, <1>4, <1>6, <1>7, PassKept
  <1>9. FirstParseOwed'
    BY <1>3, <1>7 DEF FirstParseOwed, IsOpen, HasSnap, WorksFor, Works
  <1>. QED  BY <1>1, <1>2, <1>4, <1>5, <1>6, <1>8, <1>9 DEF StoreInv

-----------------------------------------------------------------------------
(* The passes.  What is common to their steps.                             *)
LEMMA MoveIs ==
  ASSUME StoreInv, NEW p \in Pass, NEW rec, Move(p, rec)
  PROVE  DOMAIN pass' = Pass /\ pass'[p] = rec /\ \A q \in Pass : q # p => pass'[q] = pass[q]
  BY DEF Move, StoreInv

(* What the invariant says of one pass.                                    *)
LEMMA Before ==
  ASSUME StoreInv, NEW p \in Pass
  PROVE  /\ opens \in Nat /\ DocOK(doc, opens) /\ DOMAIN pass = Pass
         /\ PassOK(pass[p], doc, opens, loaded)
  BY DEF StoreInv

(* A step that leaves the document alone.                                  *)
LEMMA QuietOK ==
  ASSUME StoreInv, NEW p \in Pass,
         DOMAIN pass' = Pass, \A q \in Pass : q # p => pass'[q] = pass[q],
         opens' = opens, doc' = doc, loaded \subseteq loaded',
         PassOK(pass'[p], doc, opens, loaded'),
         Works(pass[p]) = doc.inc /\ doc.inc # 0 /\ doc.snap = NoSnap =>
           Works(pass'[p]) = doc.inc
  PROVE  StoreInv' /\ Keeps(doc, opens, loaded, doc', opens', loaded')
  <1>1. opens \in Nat /\ DocOK(doc, opens)
    BY DEF StoreInv
  <1>2. Keeps(doc, opens, loaded, doc', opens, loaded')
    BY <1>1, KeepsSame
  <1>. QED  BY <1>1, <1>2, MoveOK

(* What is captured of the open document is faithful.                      *)
LEMMA CaptureOK ==
  ASSUME opens \in Nat, DocOK(doc, opens), doc.inc # 0,
         NEW kind \in {"open", "latest", "installed"}, NEW lang, NEW label, NEW seed, NEW left
  PROVE  LET r == Captured(kind, lang, label, seed, left) IN
         PassOK(r, doc, opens, loaded) /\ Works(r) = doc.inc
  <1>. DEFINE r == Captured(kind, lang, label, seed, left)
  <1>1. doc.inc \in 1..opens /\ doc.ver \in Nat
    BY DEF DocOK, Closed
  <1>2. /\ r.pc = "captured" /\ r.kind = kind /\ r.inc = doc.inc /\ r.ver = doc.ver
        /\ r.text = TextOf(doc, doc.ver)
    BY DEF Captured
  <1>. HIDE DEF r
  <1>3. InputsOK(r, doc, opens)
    BY <1>1, <1>2 DEF InputsOK, Faithful
  <1>4. PassOK(r, doc, opens, loaded) /\ Works(r) = doc.inc
    BY <1>2, <1>3 DEF PassOK, Works
  <1>. QED  BY <1>4 DEF r

(* The open parse captures its lifetime, or ends.                          *)
LEMMA CaptureForOpenOK ==
  ASSUME StoreInv, NEW p \in Pass, CaptureForOpen(p)
  PROVE  StoreInv' /\ Keeps(doc, opens, loaded, doc', opens', loaded')
  <1>1. /\ pass[p].pc = "open" /\ doc' = doc /\ opens' = opens /\ loaded' = loaded
        /\ pass' = [pass EXCEPT ![p] =
             IF doc.inc # 0 /\ doc.inc = pass[p].inc
               THEN Captured("open", Detect(pass[p].label, doc.says), doc.label, NoSeed, 0)
               ELSE Idle]
    BY DEF CaptureForOpen, Move, Unchanged, IsOpen
  <1>2. opens \in Nat /\ DocOK(doc, opens) /\ DOMAIN pass = Pass
    BY Before
  <1>3. DOMAIN pass' = Pass /\ \A q \in Pass : q # p => pass'[q] = pass[q]
    BY <1>1, <1>2
  <1>4. CASE doc.inc # 0 /\ doc.inc = pass[p].inc
    <2>1. pass'[p] = Captured("open", Detect(pass[p].label, doc.says), doc.label, NoSeed, 0)
      BY <1>1, <1>2, <1>4
    <2>2. PassOK(pass'[p], doc, opens, loaded) /\ Works(pass'[p]) = doc.inc
      BY <1>2, <1>4, <2>1, CaptureOK
    <2>. QED  BY <1>1, <1>3, <2>2, QuietOK
  <1>5. CASE ~(doc.inc # 0 /\ doc.inc = pass[p].inc)
    <2>1. pass'[p] = Idle
      BY <1>1, <1>2, <1>5
    <2>2. PassOK(pass'[p], doc, opens, loaded)
      BY <2>1 DEF PassOK, Idle
    <2>3. Works(pass[p]) = pass[p].inc
      BY <1>1 DEF Works
    <2>. QED  BY <1>1, <1>3, <1>5, <2>2, <2>3, QuietOK
  <1>. QED  BY <1>4, <1>5

(* A reparse captures what is open.                                        *)
LEMMA CaptureLatestOK ==
  ASSUME StoreInv, NEW p \in Pass, CaptureLatest(p)
  PROVE  StoreInv' /\ Keeps(doc, opens, loaded, doc', opens', loaded')
  <1>. DEFINE lang == Detect(doc.label, doc.says)
  <1>1. /\ pass[p].pc = "idle" /\ doc.inc # 0
        /\ doc' = doc /\ opens' = opens /\ loaded' = loaded
        /\ pass' = [pass EXCEPT ![p] =
             Captured("latest", lang, doc.label, IncrementalSeed(doc, lang), 0)]
    BY DEF CaptureLatest, Move, Unchanged, IsOpen, Idle
  <1>2. opens \in Nat /\ DocOK(doc, opens) /\ DOMAIN pass = Pass
    BY Before
  <1>3. /\ DOMAIN pass' = Pass /\ \A q \in Pass : q # p => pass'[q] = pass[q]
        /\ pass'[p] = Captured("latest", lang, doc.label, IncrementalSeed(doc, lang), 0)
    BY <1>1, <1>2
  <1>4. PassOK(pass'[p], doc, opens, loaded) /\ Works(pass'[p]) = doc.inc
    BY <1>1, <1>2, <1>3, CaptureOK
  <1>. QED  BY <1>1, <1>3, <1>4, QuietOK

(* A reparse after an install captures its lifetime, or gives up.          *)
LEMMA CaptureAttemptOK ==
  ASSUME StoreInv, NEW p \in Pass, CaptureAttempt(p)
  PROVE  StoreInv' /\ Keeps(doc, opens, loaded, doc', opens', loaded')
  <1>. DEFINE r == pass[p]
              captured == Captured("installed", r.lang, r.label, NoSeed, r.left - 1)
              gives == [pc |-> "giveup", inc |-> r.inc]
  <1>1. /\ r.pc = "attempt" /\ doc' = doc /\ opens' = opens /\ loaded' = loaded
        /\ \/ doc.inc # 0 /\ doc.inc = r.inc /\ pass' = [pass EXCEPT ![p] = captured]
           \/ pass' = [pass EXCEPT ![p] = gives]
    BY DEF CaptureAttempt, Move, Unchanged, IsOpen
  <1>2. opens \in Nat /\ DocOK(doc, opens) /\ DOMAIN pass = Pass
        /\ PassOK(r, doc, opens, loaded)
    BY Before
  <1>. HIDE DEF captured
  <1>3. /\ DOMAIN pass' = Pass /\ \A q \in Pass : q # p => pass'[q] = pass[q]
        /\ \/ doc.inc # 0 /\ doc.inc = r.inc /\ pass'[p] = captured
           \/ pass'[p] = gives
    BY <1>1, <1>2
  <1>4. Works(r) = r.inc
    BY <1>1 DEF Works
  <1>5. CASE doc.inc # 0 /\ doc.inc = r.inc /\ pass'[p] = captured
    <2>1. PassOK(pass'[p], doc, opens, loaded) /\ Works(pass'[p]) = doc.inc
      BY <1>2, <1>5, CaptureOK DEF captured
    <2>. QED  BY <1>1, <1>3, <2>1, QuietOK
  <1>6. CASE pass'[p] = gives
    <2>1. PassOK(pass'[p], doc, opens, loaded) /\ Works(pass'[p]) = r.inc
      BY <1>1, <1>2, <1>6 DEF PassOK, Works
    <2>. QED  BY <1>1, <1>3, <1>4, <2>1, QuietOK
  <1>. QED  BY <1>3, <1>5, <1>6

(* A pass that ends having given up leaves a snapshot.                     *)
LEMMA InstallFailsOK ==
  ASSUME StoreInv, NEW p \in Pass, InstallFails(p) \/ GiveUp(p)
  PROVE  StoreInv' /\ Keeps(doc, opens, loaded, doc', opens', loaded')
  <1>1. /\ pass[p].pc \in {"install", "giveup"} /\ doc' = PublishGiveup(pass[p].inc)
        /\ opens' = opens /\ loaded' = loaded /\ pass' = [pass EXCEPT ![p] = Idle]
    BY DEF InstallFails, GiveUp, Move, Unchanged
  <1>2. opens \in Nat /\ DocOK(doc, opens) /\ DOMAIN pass = Pass
    BY Before
  <1>3. /\ DOMAIN pass' = Pass /\ \A q \in Pass : q # p => pass'[q] = pass[q]
        /\ pass'[p] = Idle
    BY <1>1, <1>2
  <1>4. /\ DocOK(doc', opens) /\ Keeps(doc, opens, loaded, doc', opens, loaded)
        /\ doc'.inc = doc.inc
        /\ doc.inc # 0 /\ doc.inc = pass[p].inc => doc'.snap # NoSnap
    BY <1>1, <1>2, GiveUpOK DEF IsOpen
  <1>5. PassOK(pass'[p], doc', opens, loaded)
    BY <1>3 DEF PassOK, Idle
  <1>6. Works(pass[p]) = pass[p].inc
    BY <1>1 DEF Works
  <1>. QED  BY <1>1, <1>3, <1>4, <1>5, <1>6, MoveOK

(* An install that succeeds makes its language available.                  *)
LEMMA InstallSucceedsOK ==
  ASSUME StoreInv, NEW p \in Pass, InstallSucceeds(p)
  PROVE  StoreInv' /\ Keeps(doc, opens, loaded, doc', opens', loaded')
  <1>. DEFINE r == [pc |-> "installed", inc |-> pass[p].inc, lang |-> pass[p].lang]
  <1>1. /\ pass[p].pc = "install" /\ doc' = doc /\ opens' = opens
        /\ loaded' = loaded \cup {pass[p].lang} /\ pass' = [pass EXCEPT ![p] = r]
    BY DEF InstallSucceeds, Move
  <1>2. /\ opens \in Nat /\ DocOK(doc, opens) /\ DOMAIN pass = Pass
        /\ PassOK(pass[p], doc, opens, loaded)
    BY Before
  <1>3. /\ DOMAIN pass' = Pass /\ \A q \in Pass : q # p => pass'[q] = pass[q]
        /\ pass'[p] = r
    BY <1>1, <1>2
  <1>4. PassOK(r, doc, opens, loaded')
    BY <1>1, <1>2 DEF PassOK
  <1>5. Works(pass[p]) = Works(r)
    BY <1>1 DEF Works
  <1>. QED  BY <1>1, <1>3, <1>4, <1>5, QuietOK

(* The language an install waited for is still the label's: nothing was    *)
(* published that could have changed it.                                   *)

(* An installed document whose language is still wanted is attempted;      *)

(* where its language is not detected it has a snapshot, or another label. *)
LEMMA ResolveInstalledOK ==
  ASSUME StoreInv, NEW p \in Pass, ResolveInstalled(p)
  PROVE  StoreInv' /\ Keeps(doc, opens, loaded, doc', opens', loaded')
  <1>. DEFINE r == pass[p]
              lang == Detect(doc.label, doc.says)
              over == doc.inc = 0 \/ doc.inc # r.inc \/ HasCurrentTree(doc)
                        \/ lang \notin {r.lang, NoLang}
              a == [pc |-> "attempt", inc |-> r.inc, lang |-> lang,
                    label |-> doc.label, left |-> MaxInstallAttempts]
  <1>1. /\ r.pc = "installed" /\ opens' = opens /\ loaded' = loaded
        /\ \/ over /\ doc' = doc /\ pass' = [pass EXCEPT ![p] = Idle]
           \/ doc' = PublishGiveup(r.inc) /\ pass' = [pass EXCEPT ![p] = Idle]
           \/ doc' = doc /\ pass' = [pass EXCEPT ![p] = a]
    BY DEF ResolveInstalled, Move, Unchanged, IsOpen
  <1>2. /\ opens \in Nat /\ DocOK(doc, opens) /\ DOMAIN pass = Pass
        /\ PassOK(r, doc, opens, loaded)
    BY Before
  <1>3. Works(r) = r.inc
    BY <1>1 DEF Works
  <1>4. over => doc.inc = 0 \/ doc.inc # r.inc \/ doc.snap # NoSnap
    <2>. SUFFICES ASSUME doc.inc = r.inc, doc.snap = NoSnap, doc.inc # 0
                  PROVE  lang = r.lang /\ ~HasCurrentTree(doc)
      OBVIOUS
    <2>1. doc.label = r.lang /\ r.lang \in loaded
      BY <1>1, <1>2 DEF PassOK
    <2>. QED  BY <2>1 DEF Detect, HasCurrentTree
  <1>5. PassOK(Idle, doc, opens, loaded) /\ PassOK(Idle, doc', opens, loaded)
    BY DEF PassOK, Idle
  <1>6. CASE over /\ doc' = doc /\ pass' = [pass EXCEPT ![p] = Idle]
    <2>1. /\ DOMAIN pass' = Pass /\ \A q \in Pass : q # p => pass'[q] = pass[q]
          /\ pass'[p] = Idle
      BY <1>2, <1>6
    <2>. QED  BY <1>1, <1>3, <1>4, <1>5, <1>6, <2>1, QuietOK
  <1>7. CASE doc' = PublishGiveup(r.inc) /\ pass' = [pass EXCEPT ![p] = Idle]
    <2>1. /\ DOMAIN pass' = Pass /\ \A q \in Pass : q # p => pass'[q] = pass[q]
          /\ pass'[p] = Idle
      BY <1>2, <1>7
    <2>2. /\ DocOK(doc', opens) /\ Keeps(doc, opens, loaded, doc', opens, loaded)
          /\ doc'.inc = doc.inc
          /\ doc.inc # 0 /\ doc.inc = r.inc => doc'.snap # NoSnap
      BY <1>2, <1>7, GiveUpOK DEF IsOpen
    <2>. QED  BY <1>1, <1>3, <1>5, <2>1, <2>2, MoveOK
  <1>8. CASE doc' = doc /\ pass' = [pass EXCEPT ![p] = a]
    <2>1. /\ DOMAIN pass' = Pass /\ \A q \in Pass : q # p => pass'[q] = pass[q]
          /\ pass'[p] = a
      BY <1>2, <1>8
    <2>2. PassOK(a, doc, opens, loaded) /\ Works(a) = r.inc
      BY <1>1, <1>2 DEF PassOK, Works
    <2>. QED  BY <1>1, <1>3, <1>8, <2>1, <2>2, QuietOK
  <1>. QED  BY <1>1, <1>6, <1>7, <1>8

(* A pass that parses, or has parsed, keeps its inputs.                    *)
LEMMA ParseOK ==
  ASSUME StoreInv, NEW p \in Pass,
         DOMAIN pass' = Pass, \A q \in Pass : q # p => pass'[q] = pass[q],
         opens' = opens, doc' = doc, loaded' = loaded,
         pass'[p].pc \in {"parsing", "parsed"},
         \/ pass[p].pc = "captured" /\ pass'[p].in = pass[p]
         \/ pass[p].pc = "parsing" /\ pass'[p].in = pass[p].in
  PROVE  StoreInv' /\ Keeps(doc, opens, loaded, doc', opens', loaded')
  <1>1. PassOK(pass[p], doc, opens, loaded)
    BY Before
  <1>2. PassOK(pass'[p], doc, opens, loaded)
    BY <1>1 DEF PassOK
  <1>3. Works(pass'[p]) = Works(pass[p])
    BY DEF Works
  <1>. QED  BY <1>2, <1>3, QuietOK

(* A parser is taken.                                                      *)
LEMMA AcquireParserOK ==
  ASSUME StoreInv, NEW p \in Pass, AcquireParser(p)
  PROVE  StoreInv' /\ Keeps(doc, opens, loaded, doc', opens', loaded')
  <1>1. /\ pass[p].pc = "captured" /\ doc' = doc /\ opens' = opens /\ loaded' = loaded
        /\ pass' = [pass EXCEPT ![p] = [pc |-> "parsing", in |-> pass[p], gen |-> pool.gen,
                                        gram |-> gram, retry |-> FALSE]]
    BY DEF AcquireParser, Move, Unchanged
  <1>2. DOMAIN pass = Pass
    BY Before
  <1>. QED  BY <1>1, <1>2, ParseOK

(* A parse ends.                                                           *)
LEMMA ReleaseParserOK ==
  ASSUME StoreInv, NEW p \in Pass, ReleaseParser(p)
  PROVE  StoreInv' /\ Keeps(doc, opens, loaded, doc', opens', loaded')
  <1>. DEFINE seed == IF pass[p].retry THEN NoSeed ELSE pass[p].in.seed
              rec == Parsed(pass[p].in, seed, pass[p].gram)
  <1>1. /\ pass[p].pc = "parsing" /\ doc' = doc /\ opens' = opens /\ loaded' = loaded
        /\ pass' = [pass EXCEPT ![p] = rec]
    BY DEF ReleaseParser, Move, Unchanged
  <1>2. DOMAIN pass = Pass
    BY Before
  <1>3. rec.pc = "parsed" /\ rec.in = pass[p].in
    BY DEF Parsed
  <1>. HIDE DEF rec
  <1>. QED  BY <1>1, <1>2, <1>3, ParseOK

(* A parse is retried, or ends without a tree.                             *)
LEMMA RetryParseOK ==
  ASSUME StoreInv, NEW p \in Pass, RetryParse(p)
  PROVE  StoreInv' /\ Keeps(doc, opens, loaded, doc', opens', loaded')
  <1>. DEFINE again == [pc |-> "parsing", in |-> pass[p].in, gen |-> pool.gen,
                        gram |-> gram, retry |-> TRUE]
              not == NotParsed(pass[p].in)
  <1>1. /\ pass[p].pc = "parsing" /\ doc' = doc /\ opens' = opens /\ loaded' = loaded
        /\ \/ pass' = [pass EXCEPT ![p] = again]
           \/ pass' = [pass EXCEPT ![p] = not]
    BY DEF RetryParse, Move, Unchanged
  <1>2. DOMAIN pass = Pass
    BY Before
  <1>3. not.pc = "parsed" /\ not.in = pass[p].in /\ again.pc = "parsing" /\ again.in = pass[p].in
    BY DEF NotParsed
  <1>. HIDE DEF not, again
  <1>. QED  BY <1>1, <1>2, <1>3, ParseOK

(* A parse yields nothing.                                                 *)
LEMMA ParseYieldsNothingOK ==
  ASSUME StoreInv, NEW p \in Pass, ParseYieldsNothing(p)
  PROVE  StoreInv' /\ Keeps(doc, opens, loaded, doc', opens', loaded')
  <1>1. /\ doc' = doc /\ opens' = opens /\ loaded' = loaded
        /\ \/ pass[p].pc = "captured" /\ pass' = [pass EXCEPT ![p] = NotParsed(pass[p])]
           \/ pass[p].pc = "parsing" /\ pass' = [pass EXCEPT ![p] = NotParsed(pass[p].in)]
    BY DEF ParseYieldsNothing, Move, Unchanged
  <1>2. DOMAIN pass = Pass
    BY Before
  <1>3. \A r : NotParsed(r).pc = "parsed" /\ NotParsed(r).in = r
    BY DEF NotParsed
  <1>4. DOMAIN pass' = Pass /\ \A q \in Pass : q # p => pass'[q] = pass[q]
    BY <1>1, <1>2
  <1>5. CASE pass[p].pc = "captured" /\ pass' = [pass EXCEPT ![p] = NotParsed(pass[p])]
    BY <1>1, <1>2, <1>3, <1>4, <1>5, ParseOK
  <1>6. CASE pass[p].pc = "parsing" /\ pass' = [pass EXCEPT ![p] = NotParsed(pass[p].in)]
    BY <1>1, <1>2, <1>3, <1>4, <1>6, ParseOK
  <1>. QED  BY <1>1, <1>5, <1>6

-----------------------------------------------------------------------------
(* What a pass has parsed becomes a snapshot of its inputs.                *)
LEMMA SnapshotOfOK ==
  ASSUME NEW p, NEW d, NEW o, InputsOK(pass[p].in, d, o)
  PROVE  LET s == SnapshotOf(p) IN
         /\ SnapOK(s, d, o) /\ s.inc = pass[p].in.inc /\ s.ver = pass[p].in.ver
         /\ s.regions = NoLang
  <1>. DEFINE s == SnapshotOf(p)
  <1>1. IsSnap(s)
    BY SnapRecord DEF SnapshotOf
  <1>2. /\ s.inc = pass[p].in.inc /\ s.ver = pass[p].in.ver /\ s.text = pass[p].in.text
        /\ s.regions = NoLang
    BY DEF SnapshotOf
  <1>. QED  BY <1>1, <1>2 DEF SnapOK, InputsOK

(* The open parse records the language it detected.                        *)
LEMMA CheckOfOpen == \A r : r.kind = "open" => CheckOf(r).kind = "Record"
  BY DEF CheckOf

(* After its install a pass is over, gives up or tries again; an open      *)

(* parse is over.                                                          *)
LEMMA AfterInstallOK ==
  ASSUME NEW d, NEW o, NEW l, NEW r, InputsOK(r, d, o), NEW current
  PROVE  LET a == AfterInstall(r, current) IN
         PassOK(a, d, o, l) /\ (Works(a) = r.inc \/ r.kind = "open")
  <1>. DEFINE a == AfterInstall(r, current)
  <1>1. r.kind \in {"open", "latest", "installed"} /\ r.inc \in 1..o
    BY DEF InputsOK, Faithful
  <1>2. CASE r.kind = "open"
    <2>1. a = Idle
      BY <1>2 DEF AfterInstall
    <2>. QED  BY <1>2, <2>1 DEF PassOK, Idle
  <1>3. CASE r.kind # "open"
    <2>1. a.pc \in {"giveup", "attempt"} /\ a.inc = r.inc
      BY <1>1, <1>3 DEF AfterInstall
    <2>. HIDE DEF a
    <2>2. PassOK(a, d, o, l) /\ Works(a) = r.inc
      BY <1>1, <2>1 DEF PassOK, Works
    <2>. QED  BY <2>2 DEF a
  <1>. QED  BY <1>2, <1>3

(* The open parse publishes that it has no tree; the others give up.       *)
LEMMA FinishWithoutTreeOK ==
  ASSUME StoreInv, NEW p \in Pass, FinishWithoutTree(p)
  PROVE  StoreInv' /\ Keeps(doc, opens, loaded, doc', opens', loaded')
  <1>. DEFINE r == pass[p].in
              gives == [pc |-> "giveup", inc |-> r.inc]
              d2 == InstallParse(doc, CheckOf(r), SnapshotOf(p))
  <1>1. /\ pass[p].pc = "parsed" /\ opens' = opens /\ loaded' = loaded
        /\ \/ /\ r.kind = "open" /\ pass' = [pass EXCEPT ![p] = Idle]
              /\ doc' = IF doc.inc # 0 THEN d2 ELSE doc
           \/ doc' = doc /\ pass' = [pass EXCEPT ![p] = gives]
    BY DEF FinishWithoutTree, Move, Unchanged, IsOpen
  <1>2. /\ opens \in Nat /\ DocOK(doc, opens) /\ DOMAIN pass = Pass
        /\ PassOK(pass[p], doc, opens, loaded)
    BY Before
  <1>3. InputsOK(r, doc, opens) /\ Works(pass[p]) = r.inc
    BY <1>1, <1>2 DEF PassOK, Works
  <1>. HIDE DEF d2
  <1>4. DOMAIN pass' = Pass /\ \A q \in Pass : q # p => pass'[q] = pass[q]
    BY <1>1, <1>2
  <1>5. CASE doc' = doc /\ pass' = [pass EXCEPT ![p] = gives]
    <2>1. pass'[p] = gives
      BY <1>2, <1>5
    <2>2. PassOK(gives, doc, opens, loaded) /\ Works(gives) = r.inc
      BY <1>3 DEF PassOK, Works, InputsOK, Faithful
    <2>. QED  BY <1>1, <1>3, <1>4, <1>5, <2>1, <2>2, QuietOK
  <1>6. CASE /\ r.kind = "open" /\ pass' = [pass EXCEPT ![p] = Idle]
             /\ doc' = IF doc.inc # 0 THEN d2 ELSE doc
    <2>1. pass'[p] = Idle
      BY <1>2, <1>6
    <2>2. PassOK(Idle, doc', opens, loaded)
      BY DEF PassOK, Idle
    <2>3. /\ DocOK(doc', opens) /\ Keeps(doc, opens, loaded, doc', opens, loaded)
          /\ doc'.inc = doc.inc
          /\ doc.inc # 0 /\ r.inc = doc.inc => doc'.snap # NoSnap
      BY <1>2, <1>3, <1>6, SnapshotOfOK, CheckOfOpen, InstallOK, KeepsSame DEF d2
    <2>. QED  BY <1>1, <1>3, <1>4, <2>1, <2>2, <2>3, MoveOK
  <1>. QED  BY <1>1, <1>5, <1>6

(* A pass latches the snapshot of its inputs.                              *)
LEMMA LatchOK ==
  ASSUME StoreInv, NEW p \in Pass, Latch(p)
  PROVE  StoreInv' /\ Keeps(doc, opens, loaded, doc', opens', loaded')
  <1>. DEFINE r == pass[p].in
  <1>1. /\ pass[p].pc = "parsed" /\ doc' = doc /\ opens' = opens /\ loaded' = loaded
        /\ \E pc \in {"single", "first"} :
             pass' = [pass EXCEPT ![p] = [pc |-> pc, in |-> r, check |-> CheckOf(r),
                                          snap |-> SnapshotOf(p)]]
    BY DEF Latch, Move, Unchanged
  <1>2. DOMAIN pass = Pass /\ PassOK(pass[p], doc, opens, loaded)
    BY Before
  <1>3. InputsOK(r, doc, opens) /\ Works(pass[p]) = r.inc
    BY <1>1, <1>2 DEF PassOK, Works
  <1>4. /\ DOMAIN pass' = Pass /\ \A q \in Pass : q # p => pass'[q] = pass[q]
        /\ pass'[p].pc \in {"single", "first"} /\ pass'[p].in = r
        /\ pass'[p].check = CheckOf(r) /\ pass'[p].snap = SnapshotOf(p)
    BY <1>1, <1>2
  <1>5. PassOK(pass'[p], doc, opens, loaded)
    BY <1>3, <1>4, SnapshotOfOK, CheckOfOpen DEF PassOK
  <1>6. Works(pass'[p]) = r.inc
    BY <1>4 DEF Works
  <1>. QED  BY <1>1, <1>3, <1>4, <1>5, <1>6, QuietOK

(* A pass publishes, and is over or gives up.                              *)
LEMMA InstallSingleOK ==
  ASSUME StoreInv, NEW p \in Pass, InstallSingle(p)
  PROVE  StoreInv' /\ Keeps(doc, opens, loaded, doc', opens', loaded')
  <1>. DEFINE r == pass[p].in
              d2 == InstallParse(doc, pass[p].check, pass[p].snap)
  <1>1. /\ pass[p].pc = "single" /\ opens' = opens /\ loaded' = loaded
        /\ doc' = IF doc.inc # 0 THEN d2 ELSE doc
        /\ \E current \in BOOLEAN : pass' = [pass EXCEPT ![p] = AfterInstall(r, current)]
    BY DEF InstallSingle, Move, Unchanged, IsOpen, InstallAdmitted, Admits, LanguageMatches
  <1>2. /\ opens \in Nat /\ DocOK(doc, opens) /\ DOMAIN pass = Pass
        /\ PassOK(pass[p], doc, opens, loaded)
    BY Before
  <1>3. /\ InputsOK(r, doc, opens) /\ Works(pass[p]) = r.inc
        /\ SnapOK(pass[p].snap, doc, opens) /\ pass[p].snap.inc = r.inc
        /\ pass[p].snap.regions = NoLang /\ (r.kind = "open" => pass[p].check.kind = "Record")
    BY <1>1, <1>2 DEF PassOK, Works
  <1>. HIDE DEF d2
  <1>4. PICK current \in BOOLEAN : pass' = [pass EXCEPT ![p] = AfterInstall(r, current)]
    BY <1>1
  <1>5. /\ DOMAIN pass' = Pass /\ \A q \in Pass : q # p => pass'[q] = pass[q]
        /\ pass'[p] = AfterInstall(r, current)
    BY <1>2, <1>4
  <1>6. /\ DocOK(doc', opens) /\ Keeps(doc, opens, loaded, doc', opens, loaded)
        /\ doc'.inc = doc.inc
        /\ doc.inc # 0 /\ r.inc = doc.inc /\ r.kind = "open" => doc'.snap # NoSnap
    BY <1>1, <1>2, <1>3, InstallOK, KeepsSame DEF d2
  <1>7. InputsOK(r, doc', opens)
    BY <1>2, <1>3, <1>6, InputsKept
  <1>8. PassOK(pass'[p], doc', opens, loaded) /\ (Works(pass'[p]) = r.inc \/ r.kind = "open")
    BY <1>5, <1>7, AfterInstallOK
  <1>. QED  BY <1>1, <1>3, <1>5, <1>6, <1>8, MoveOK

(* A pass adds its regions.                                                *)
LEMMA CompleteStepOK ==
  ASSUME StoreInv, NEW p \in Pass, Complete(p)
  PROVE  StoreInv' /\ Keeps(doc, opens, loaded, doc', opens', loaded')
  <1>. DEFINE r == pass[p].in
              d2 == CompleteParse(doc, pass[p].check, pass[p].snap)
  <1>. DEFINE now == /\ IsOpen /\ LanguageMatches(doc, pass[p].check)
                     /\ doc.snap = pass[p].snap /\ pass[p].snap.ver = doc.ver
  <1>1. /\ pass[p].pc = "complete" /\ opens' = opens /\ loaded' = loaded
        /\ doc' \in {doc} \cup (IF IsOpen THEN {d2} ELSE {})
        /\ pass' = [pass EXCEPT ![p] = AfterInstall(r, now)]
    <2>1. /\ pass[p].pc = "complete" /\ opens' = opens /\ loaded' = loaded
      BY DEF Complete, Unchanged
    <2>2. doc' \in {doc} \cup (IF IsOpen THEN {d2} ELSE {})
      BY DEF Complete
    <2>3. Move(p, AfterInstall(r, now))
      BY Zenon DEF Complete
    <2>. QED  BY <2>1, <2>2, <2>3 DEF Move
  <1>2. /\ pass[p].pc = "complete" /\ opens' = opens /\ loaded' = loaded
        /\ doc' = doc \/ (doc.inc # 0 /\ doc' = d2)
        /\ \E current \in BOOLEAN : pass' = [pass EXCEPT ![p] = AfterInstall(r, current)]
    <2>1. doc' = doc \/ (doc.inc # 0 /\ doc' = d2)
      BY <1>1 DEF IsOpen
    <2>2. now \in BOOLEAN
      OBVIOUS
    <2>. HIDE DEF now
    <2>. QED  BY <1>1, <2>1, <2>2
  <1>3. /\ opens \in Nat /\ DocOK(doc, opens) /\ DOMAIN pass = Pass
        /\ PassOK(pass[p], doc, opens, loaded)
    BY Before
  <1>4. /\ InputsOK(r, doc, opens) /\ Works(pass[p]) = r.inc
        /\ SnapOK(pass[p].snap, doc, opens) /\ (r.inc = doc.inc => doc.snap # NoSnap)
    BY <1>2, <1>3 DEF PassOK, Works
  <1>. HIDE DEF d2, now
  <1>5. PICK current \in BOOLEAN : pass' = [pass EXCEPT ![p] = AfterInstall(r, current)]
    BY <1>2
  <1>6. /\ DOMAIN pass' = Pass /\ \A q \in Pass : q # p => pass'[q] = pass[q]
        /\ pass'[p] = AfterInstall(r, current)
    BY <1>3, <1>5
  <1>7. /\ DocOK(doc', opens) /\ Keeps(doc, opens, loaded, doc', opens, loaded)
        /\ doc'.inc = doc.inc
    BY <1>2, <1>3, <1>4, CompleteOK, KeepsSame DEF d2
  <1>8. InputsOK(r, doc', opens)
    BY <1>3, <1>4, <1>7, InputsKept
  <1>9. PassOK(pass'[p], doc', opens, loaded) /\ (Works(pass'[p]) = r.inc \/ r.kind = "open")
    BY <1>6, <1>8, AfterInstallOK
  <1>10. doc.inc # 0 /\ r.inc = doc.inc => doc'.snap # NoSnap
    BY <1>3, <1>4, <1>7 DEF Keeps, DocOK, Closed
  <1>. QED  BY <1>2, <1>4, <1>6, <1>7, <1>9, <1>10, MoveOK

(* A pass publishes before its regions are resolved.                       *)
LEMMA InstallFirstOK ==
  ASSUME StoreInv, NEW p \in Pass, InstallFirst(p)
  PROVE  StoreInv' /\ Keeps(doc, opens, loaded, doc', opens', loaded')
  <1>. DEFINE r == pass[p].in
              check == pass[p].check
              s == pass[p].snap
              d2 == InstallParse(doc, check, s)
              published == doc.inc # 0 /\ InstallAdmitted(doc, check, s)
              current == published /\ s.ver = doc.ver
              check2 == IF current /\ check.kind = "RecordIfUnchanged"
                          THEN [kind |-> "Expect", label |-> s.lang] ELSE check
              c == [pc |-> "complete", in |-> r, snap |-> s, check |-> check2]
  <1>1. /\ pass[p].pc = "first" /\ opens' = opens /\ loaded' = loaded
        /\ doc' = IF doc.inc # 0 THEN d2 ELSE doc
        /\ \E no \in BOOLEAN :
             pass' = [pass EXCEPT ![p] = IF published THEN c ELSE AfterInstall(r, no)]
    BY DEF InstallFirst, Move, Unchanged, IsOpen
  <1>2. /\ opens \in Nat /\ DocOK(doc, opens) /\ DOMAIN pass = Pass
        /\ PassOK(pass[p], doc, opens, loaded)
    BY Before
  <1>3. /\ InputsOK(r, doc, opens) /\ Works(pass[p]) = r.inc
        /\ SnapOK(s, doc, opens) /\ s.inc = r.inc /\ s.ver = r.ver
        /\ s.regions = NoLang /\ (r.kind = "open" => check.kind = "Record")
    BY <1>1, <1>2 DEF PassOK, Works
  <1>4. /\ c.pc = "complete" /\ c.in = r /\ c.snap = s
        /\ (r.kind = "open" => c.check.kind = "Record")
    BY <1>3
  <1>. HIDE DEF d2, published, c
  <1>5. PICK no \in BOOLEAN :
           pass' = [pass EXCEPT ![p] = IF published THEN c ELSE AfterInstall(r, no)]
    BY <1>1
  <1>6. /\ DOMAIN pass' = Pass /\ \A q \in Pass : q # p => pass'[q] = pass[q]
        /\ pass'[p] = IF published THEN c ELSE AfterInstall(r, no)
    BY <1>2, <1>5
  <1>7. /\ DocOK(doc', opens) /\ Keeps(doc, opens, loaded, doc', opens, loaded)
        /\ doc'.inc = doc.inc
        /\ doc.inc # 0 /\ r.inc = doc.inc /\ r.kind = "open" => doc'.snap # NoSnap
        /\ published => doc'.snap # NoSnap
    BY <1>1, <1>2, <1>3, InstallOK, KeepsSame DEF d2, published
  <1>8. InputsOK(r, doc', opens) /\ SnapOK(s, doc', opens)
    BY <1>2, <1>3, <1>7, InputsKept, SnapKept
  <1>9. CASE published
    <2>1. PassOK(c, doc', opens, loaded) /\ Works(c) = r.inc
      BY <1>3, <1>4, <1>7, <1>8, <1>9 DEF PassOK, Works
    <2>. QED  BY <1>1, <1>3, <1>6, <1>7, <1>9, <2>1, MoveOK
  <1>10. CASE ~published
    <2>1. PassOK(pass'[p], doc', opens, loaded) /\ (Works(pass'[p]) = r.inc \/ r.kind = "open")
      BY <1>6, <1>8, <1>10, AfterInstallOK
    <2>2. Works(pass[p]) = doc.inc /\ doc.inc # 0 /\ doc'.snap = NoSnap =>
            Works(pass'[p]) = doc.inc
      BY <1>3, <1>7, <2>1
    <2>. QED  BY <1>1, <1>6, <1>7, <2>1, <2>2, MoveOK
  <1>. QED  BY <1>9, <1>10

-----------------------------------------------------------------------------
(* Every step keeps the invariant, and what passes captured.               *)
LEMMA NextOK ==
  ASSUME StoreInv, [Next]_vars
  PROVE  StoreInv' /\ Keeps(doc, opens, loaded, doc', opens', loaded')
  <1>1. CASE UNCHANGED vars
    <2>1. doc' = doc /\ opens' = opens /\ pass' = pass /\ loaded' = loaded
      BY <1>1 DEF vars
    <2>2. opens \in Nat /\ DocOK(doc, opens)
      BY DEF StoreInv
    <2>. QED  BY <2>1, <2>2, KeepsSame, HandlerOK
  <1>2. ASSUME NEW p \in Pass, NEW ls_label \in Lang \cup {NoLang},
               NEW says \in Lang \cup {NoLang}, NEW auto \in BOOLEAN,
               DidOpen(p, ls_label, says, auto)
        PROVE  StoreInv' /\ Keeps(doc, opens, loaded, doc', opens', loaded')
    BY <1>2, DidOpenOK
  <1>3. ASSUME NEW says \in Lang \cup {NoLang}, DidChange(says)
        PROVE  StoreInv' /\ Keeps(doc, opens, loaded, doc', opens', loaded')
    BY <1>3, DidChangeOK
  <1>4. CASE DidClose
    BY <1>4, DidCloseOK
  <1>5. CASE ReloadBegins \/ ReloadSwapsGrammars \/ ReloadFinishes
    <2>1. doc' = doc /\ opens' = opens /\ pass' = pass /\ loaded' = loaded
      BY <1>5 DEF ReloadBegins, ReloadSwapsGrammars, ReloadFinishes
    <2>2. opens \in Nat /\ DocOK(doc, opens)
      BY DEF StoreInv
    <2>. QED  BY <2>1, <2>2, KeepsSame, HandlerOK
  <1>6. CASE ReloadInvalidates
    BY <1>6, ReloadInvalidatesOK
  <1>7. ASSUME NEW p \in Pass, PassStep(p)
        PROVE  StoreInv' /\ Keeps(doc, opens, loaded, doc', opens', loaded')
    BY <1>7, CaptureForOpenOK, CaptureLatestOK, InstallFailsOK, InstallSucceedsOK,
       ResolveInstalledOK, CaptureAttemptOK, AcquireParserOK, ReleaseParserOK,
       RetryParseOK, ParseYieldsNothingOK, FinishWithoutTreeOK, LatchOK,
       InstallSingleOK, InstallFirstOK, CompleteStepOK DEF PassStep
  <1>. QED  BY <1>1, <1>2, <1>3, <1>4, <1>5, <1>6, <1>7 DEF Next

(* At first no document is open.                                           *)
LEMMA InitOK == Init => StoreInv
  BY DEF Init, StoreInv, DocOK, PassOK, Idle, FirstParseOwed, IsOpen, Closed

(* What passes hold is faithful to the document throughout.                *)
THEOREM StoreInvariant == Spec => []StoreInv
  <1>1. StoreInv /\ [Next]_vars => StoreInv'
    BY NextOK
  <1>. QED  BY <1>1, InitOK, PTL DEF Spec

(* Whatever is published is the text of its version, in this lifetime, and *)
(* its regions are those of its tree.                                      *)
THEOREM SnapshotIsFaithfulHolds == Spec => []SnapshotIsFaithful
  <1>1. StoreInv => SnapshotOfItsText
    BY DEF StoreInv, SnapshotOfItsText, IsOpen, HasSnap, DocOK, Closed, SnapOK, Faithful
  <1>2. StoreInv => RegionsOfTheirTree
    BY DEF StoreInv, RegionsOfTheirTree, IsOpen, HasSnap, DocOK, Closed, RegionsOK
  <1>3. StoreInv => SnapshotIsFaithful
    BY <1>1, <1>2 DEF SnapshotIsFaithful
  <1>. QED  BY <1>3, StoreInvariant, PTL

-----------------------------------------------------------------------------
(* How a step changes what readers of an open document hold.               *)
Onwards(d, d2) ==
  /\ d2.snap # NoSnap
  /\ d2.snap.ver >= d.snap.ver
  /\ d.snap.tree /\ ~d2.snap.tree => d2.snap.by = "reload"
  /\ d2.snap.ver = d.snap.ver /\ d.snap.tree => d2.snap.by = d.snap.by

(* A snapshot that is left alone is not older than itself.                 *)
LEMMA OnwardsSame ==
  ASSUME NEW d, NEW o, DocOK(d, o), d.inc # 0, d.snap # NoSnap,
         NEW d2, d2.snap = d.snap
  PROVE  Onwards(d, d2)
  <1>1. d.snap.ver \in Nat
    BY DEF DocOK, Closed, SnapOK, Faithful
  <1>. QED  BY <1>1 DEF Onwards

(* What is admitted is newer, or the first tree of its version.            *)
LEMMA OnwardsInstall ==
  ASSUME NEW d, NEW o, DocOK(d, o), d.inc # 0, d.snap # NoSnap,
         NEW check, NEW s, SnapOK(s, d, o)
  PROVE  Onwards(d, InstallParse(d, check, s))
  <1>. DEFINE d2 == InstallParse(d, check, s)
  <1>1. d.snap.ver \in Nat /\ IsDoc(d) /\ s.ver \in Nat /\ s # NoSnap
    BY SnapIsSome DEF DocOK, Closed, SnapOK, Faithful
  <1>2. CASE InstallAdmitted(d, check, s)
    <2>1. d2.snap = s
      BY <1>1, <1>2 DEF InstallParse, IsDoc
    <2>2. \/ s.ver > d.snap.ver /\ (d.snap.tree => s.tree)
          \/ s.ver = d.snap.ver /\ ~d.snap.tree /\ s.tree
      BY <1>2 DEF InstallAdmitted, Admits
    <2>. QED  BY <1>1, <2>1, <2>2 DEF Onwards
  <1>3. CASE ~InstallAdmitted(d, check, s)
    BY <1>3, OnwardsSame DEF InstallParse
  <1>. QED  BY <1>2, <1>3

(* Regions leave the tree as it is.                                        *)
LEMMA OnwardsComplete ==
  ASSUME NEW d, NEW o, DocOK(d, o), d.inc # 0, d.snap # NoSnap, NEW check, NEW s
  PROVE  Onwards(d, CompleteParse(d, check, s))
  <1>. DEFINE d2 == CompleteParse(d, check, s)
              s2 == [s EXCEPT !.regions = s.by]
  <1>1. d.snap.ver \in Nat /\ IsDoc(d) /\ IsSnap(d.snap)
    BY DEF DocOK, Closed, SnapOK, Faithful
  <1>2. CASE LanguageMatches(d, check) /\ d.snap = s /\ s.tree /\ s.regions = NoLang
    <2>1. d2.snap = s2
      BY <1>1, <1>2 DEF CompleteParse, IsDoc
    <2>2. IsSnap(s)
      BY <1>1, <1>2
    <2>3. IsSnap(s2) /\ s2.ver = s.ver /\ s2.tree = s.tree /\ s2.by = s.by
      BY <2>2 DEF IsSnap
    <2>. QED  BY <1>1, <1>2, <2>1, <2>3, SnapIsSome DEF Onwards
  <1>3. CASE ~(LanguageMatches(d, check) /\ d.snap = s /\ s.tree /\ s.regions = NoLang)
    BY <1>3, OnwardsSame DEF CompleteParse
  <1>. QED  BY <1>2, <1>3

(* A reload publishes a newer version.                                     *)
LEMMA OnwardsInvalidate ==
  ASSUME NEW o, DocOK(doc, o), doc.inc # 0, doc.snap # NoSnap
  PROVE  Onwards(doc, InvalidateParse(doc))
  <1>. DEFINE d2 == InvalidateParse(doc)
              r == [by |-> "reload", inc |-> doc.inc, ver |-> doc.ver + 1,
                    text |-> TextOf(doc, doc.ver + 1), lang |-> doc.label,
                    tree |-> FALSE, sound |-> TRUE, gram |-> gram, regions |-> NoLang]
  <1>1. /\ doc.snap.ver \in Nat /\ IsDoc(doc) /\ doc.ver \in Nat
        /\ doc.snap.ver <= doc.ver
    BY DEF DocOK, Closed, SnapOK, Faithful
  <1>2. d2 = [doc EXCEPT !.ver = doc.ver + 1, !.log = {}, !.floor = doc.ver + 1, !.snap = r]
    BY DEF InvalidateParse
  <1>3. IsSnap(r) /\ r.ver = doc.ver + 1 /\ r.by = "reload"
    BY SnapRecord
  <1>. HIDE DEF r, d2
  <1>4. d2.snap = r
    BY <1>1, <1>2 DEF IsDoc
  <1>5. Onwards(doc, d2)
    BY <1>1, <1>3, <1>4, SnapIsSome DEF Onwards
  <1>. QED  BY <1>5 DEF d2

(* So it is with every step.                                               *)
LEMMA NextOnwards ==
  ASSUME StoreInv, [Next]_vars, doc.inc # 0, doc'.inc = doc.inc, doc.snap # NoSnap
  PROVE  Onwards(doc, doc')
  <1>1. DocOK(doc, opens)
    BY DEF StoreInv
  <1>2. CASE doc' = doc
    BY <1>1, <1>2, OnwardsSame
  <1>3. CASE \E says \in Lang \cup {NoLang} : DidChange(says)
    <2>1. PICK says : doc' \in {ApplyEdit(doc, says), ReplaceText(doc, says)}
      BY <1>3 DEF DidChange
    <2>2. doc'.snap = doc.snap
      BY <1>1, <2>1, EditOK DEF StoreInv
    <2>. QED  BY <1>1, <2>2, OnwardsSame
  <1>4. CASE DidClose
    BY <1>4 DEF DidClose, Closed
  <1>5. CASE ReloadInvalidates
    BY <1>1, <1>5, OnwardsInvalidate DEF ReloadInvalidates, IsOpen
  <1>6. ASSUME NEW p \in Pass, PassStep(p), doc' # doc
        PROVE  Onwards(doc, doc')
    <2>1. PassOK(pass[p], doc, opens, loaded)
      BY Before
    <2>2. CASE InstallFails(p) \/ GiveUp(p) \/ ResolveInstalled(p)
      <3>1. \A i : PublishGiveup(i) = doc
        BY DEF PublishGiveup, HasSnap
      <3>. QED  BY <1>6, <2>2, <3>1 DEF InstallFails, GiveUp, ResolveInstalled
    <2>3. CASE FinishWithoutTree(p)
      <3>1. /\ pass[p].pc = "parsed"
            /\ doc' = InstallParse(doc, CheckOf(pass[p].in), SnapshotOf(p))
        BY <1>6, <2>3 DEF FinishWithoutTree
      <3>2. SnapOK(SnapshotOf(p), doc, opens)
        BY <2>1, <3>1, SnapshotOfOK DEF PassOK
      <3>. QED  BY <1>1, <3>1, <3>2, OnwardsInstall
    <2>4. CASE InstallSingle(p) \/ InstallFirst(p)
      <3>1. /\ pass[p].pc \in {"single", "first"}
            /\ doc' = InstallParse(doc, pass[p].check, pass[p].snap)
        BY <1>6, <2>4 DEF InstallSingle, InstallFirst
      <3>2. SnapOK(pass[p].snap, doc, opens)
        BY <2>1, <3>1 DEF PassOK
      <3>. QED  BY <1>1, <3>1, <3>2, OnwardsInstall
    <2>5. CASE Complete(p)
      <3>1. doc' = CompleteParse(doc, pass[p].check, pass[p].snap)
        BY <1>6, <2>5 DEF Complete
      <3>. QED  BY <1>1, <3>1, OnwardsComplete
    <2>. QED  BY <1>6, <2>2, <2>3, <2>4, <2>5 DEF PassStep, CaptureForOpen, CaptureLatest,
                 InstallSucceeds, CaptureAttempt, AcquireParser, ReleaseParser, RetryParse,
                 ParseYieldsNothing, Latch
  <1>7. CASE \E p \in Pass, ls_label \in Lang \cup {NoLang}, says \in Lang \cup {NoLang},
                auto \in BOOLEAN : DidOpen(p, ls_label, says, auto)
    BY <1>7 DEF DidOpen, IsOpen
  <1>8. CASE ReloadBegins \/ ReloadSwapsGrammars \/ ReloadFinishes \/ UNCHANGED vars
    BY <1>2, <1>8 DEF ReloadBegins, ReloadSwapsGrammars, ReloadFinishes, vars
  <1>. QED  BY <1>2, <1>3, <1>4, <1>5, <1>6, <1>7, <1>8 DEF Next

(* Within a lifetime readers never go back: not to an older version, nor   *)

(* from a tree to none but for a reload, nor to another tree of a version. *)
THEOREM SnapshotNeverRegressesHolds == Spec => SnapshotNeverRegresses
  <1>1. StoreInv /\ [Next]_vars =>
          [IsOpen /\ doc'.inc = doc.inc /\ HasSnap =>
             /\ doc'.snap # NoSnap
             /\ doc'.snap.ver >= doc.snap.ver
             /\ doc.snap.tree /\ ~doc'.snap.tree => doc'.snap.by = "reload"
             /\ doc'.snap.ver = doc.snap.ver /\ doc.snap.tree => doc'.snap.by = doc.snap.by]_doc
    BY NextOnwards DEF IsOpen, HasSnap, Onwards
  <1>. QED  BY <1>1, StoreInvariant, PTL DEF Spec, SnapshotNeverRegresses

-----------------------------------------------------------------------------
(***************************************************************************)
(* Proofs about the trees DocumentStore publishes, for any number of       *)
(* passes, languages, lifetimes, versions and reloads, and any cap on the  *)
(* edit log: none was parsed from a seed that breaks tree-sitter's         *)
(* contract, none is of a grammar that was replaced.                       *)
(*                                                                         *)
(* The argument: while a document's snapshot is at or beyond its floor the *)
(* log holds every write after it (LogOK).  A pass's seed, grammar and     *)
(* tree are good, or the pass is Stale: the document has a newer snapshot  *)
(* since, which admits nothing of the pass.  A reload makes every pass of  *)
(* its document Stale, and the parser pool's generations keep a pass that  *)
(* is not from mixing two grammars.                                        *)
(***************************************************************************)

HasLatest(W) == W = {} \/ \E w \in W : \A x \in W : x <= w

(* The log of an open document: every write after its snapshot and its     *)
(* floor, and nothing but edits.                                           *)
LogOK(d) ==
  /\ d.edited \subseteq 1..d.ver /\ d.replaced \subseteq 1..d.ver
  /\ d.floor \in 0..d.ver
  /\ d.log \subseteq d.edited
  /\ \A w \in d.edited \cup d.replaced :
       w > d.floor /\ w > PublishedParsedVersion(d) => w \in d.log
  /\ \A w \in d.replaced : w <= d.floor
  /\ \A v \in 0..d.ver : HasLatest(Writes(d, v))

(* A version that readers have left behind.                                *)
Stale(v, d) == d.snap # NoSnap /\ v < d.snap.ver

(* A grammar taken for version v of lifetime inc is the one in force, or   *)
(* the version is, or will be before the reload ends, left behind.         *)
Fresh(inc, v, g, d, gr, rl) ==
  inc = d.inc => g = gr \/ rl = "swapped" \/ Stale(v, d)

SeedOK(r, d, gr, rl) ==
  r.seed.tree => /\ r.seed.sound /\ r.seed.lang = r.lang
                 /\ Fresh(r.inc, r.ver, r.seed.gram, d, gr, rl)

TreeOK(inc, v, g, sound, d, gr, rl) ==
  /\ Fresh(inc, v, g, d, gr, rl)
  /\ inc = d.inc => sound \/ Stale(v, d)

(* A parser that was taken in the pool's generation is of the grammar in   *)
(* force.                                                                  *)
PassSound(r, d, gr, rl, gen) ==
  /\ r.pc = "captured" => SeedOK(r, d, gr, rl)
  /\ r.pc = "parsing" =>
       /\ SeedOK(r.in, d, gr, rl)
       /\ r.gen \in Nat /\ r.gen <= gen
       /\ r.gen = gen => rl = "none" /\ r.gram = gr
  /\ r.pc = "parsed" /\ r.tree =>
       TreeOK(r.in.inc, r.in.ver, r.gram, r.sound, d, gr, rl)
  /\ r.pc \in {"single", "first", "complete"} =>
       IF r.snap.tree
         THEN TreeOK(r.snap.inc, r.snap.ver, r.snap.gram, r.snap.sound, d, gr, rl)
         ELSE r.snap.sound

PoolInv ==
  /\ pool.gen \in Nat /\ gram \in Nat
  /\ reload \in {"none", "begun", "swapped", "invalidated"}
  /\ reload # "none" => pool.reloading

LogInv == doc.inc # 0 => LogOK(doc)

SnapInv ==
  doc.inc # 0 /\ doc.snap # NoSnap =>
    doc.snap.sound /\ (doc.snap.tree => doc.snap.gram = gram \/ reload = "swapped")

SeedInv == \A p \in Pass : PassSound(pass[p], doc, gram, reload, pool.gen)

(* The inductive invariant. *)
SoundInv == StoreInv /\ PoolInv /\ LogInv /\ SnapInv /\ SeedInv

-----------------------------------------------------------------------------
(* The parser pool refuses parsers throughout a reload.                    *)
LEMMA PoolOK == ASSUME PoolInv, [Next]_vars PROVE PoolInv'
  <1>1. CASE ReloadBegins \/ ReloadSwapsGrammars \/ ReloadInvalidates \/ ReloadFinishes
    BY <1>1 DEF PoolInv, ReloadBegins, ReloadSwapsGrammars, ReloadInvalidates, ReloadFinishes
  <1>2. CASE \E p \in Pass : InstallSucceeds(p)
    BY <1>2 DEF PoolInv, InstallSucceeds
  <1>3. CASE UNCHANGED <<gram, pool, reload>>
    BY <1>3 DEF PoolInv
  <1>. QED  BY <1>1, <1>2, <1>3 DEF Next, vars, DidOpen, DidChange, DidClose, PassStep,
              CaptureForOpen, CaptureLatest, InstallFails, ResolveInstalled, CaptureAttempt,
              AcquireParser, ReleaseParser, RetryParse, ParseYieldsNothing,
              FinishWithoutTree, Latch, InstallSingle, InstallFirst, Complete, GiveUp, Unchanged

(* What a step does to the pool and the reload.                            *)
LEMMA PoolSteps ==
  ASSUME PoolInv, [Next]_vars
  PROVE  /\ pool.gen <= pool'.gen
         /\ pool'.gen = pool.gen /\ reload = "none" => reload' = "none" /\ gram' = gram
         /\ gram' = gram \/ reload' = "swapped"
         /\ reload = "swapped" /\ reload' # "swapped" => ReloadInvalidates
  <1>1. CASE ReloadBegins \/ ReloadSwapsGrammars \/ ReloadInvalidates \/ ReloadFinishes
    BY <1>1 DEF PoolInv, ReloadBegins, ReloadSwapsGrammars, ReloadInvalidates, ReloadFinishes
  <1>2. CASE \E p \in Pass : InstallSucceeds(p)
    BY <1>2 DEF PoolInv, InstallSucceeds
  <1>3. CASE UNCHANGED <<gram, pool, reload>>
    BY <1>3 DEF PoolInv
  <1>. QED  BY <1>1, <1>2, <1>3 DEF Next, vars, DidOpen, DidChange, DidClose, PassStep,
              CaptureForOpen, CaptureLatest, InstallFails, ResolveInstalled, CaptureAttempt,
              AcquireParser, ReleaseParser, RetryParse, ParseYieldsNothing,
              FinishWithoutTree, Latch, InstallSingle, InstallFirst, Complete, GiveUp, Unchanged

Labels == Lang \cup {NoLang}

(* What a step does to the document.                                       *)
DocStep ==
  \/ doc' = doc
  \/ doc' = Closed
  \/ /\ doc.inc = 0
     /\ \E label \in Labels, says \in Labels : doc' = NewDocument(opens + 1, label, says)
  \/ doc.inc # 0 /\ \E says \in Labels : doc' \in {ApplyEdit(doc, says), ReplaceText(doc, says)}
  \/ doc.inc # 0 /\ reload' = "invalidated" /\ doc' = InvalidateParse(doc)
  \/ /\ doc.inc # 0 /\ doc.snap = NoSnap
     /\ doc' = [doc EXCEPT !.snap = GiveUpSnapshot(doc)]
  \/ /\ doc.inc # 0
     /\ \E p \in Pass : \E check :
          /\ pass[p].pc = "parsed" /\ ~pass[p].tree
          /\ doc' = InstallParse(doc, check, SnapshotOf(p))
  \/ /\ doc.inc # 0
     /\ \E p \in Pass : \E check :
          /\ pass[p].pc \in {"single", "first"}
          /\ doc' = InstallParse(doc, check, pass[p].snap)
  \/ /\ doc.inc # 0
     /\ \E p \in Pass : \E check :
          /\ pass[p].pc = "complete"
          /\ doc' = CompleteParse(doc, check, pass[p].snap)

(* Every step is one of these.                                             *)
LEMMA DocSteps == ASSUME [Next]_vars PROVE DocStep
  <1>1. CASE UNCHANGED doc
    BY <1>1 DEF DocStep
  <1>2. CASE \E p \in Pass, ls_label \in Lang \cup {NoLang}, says \in Lang \cup {NoLang},
                auto \in BOOLEAN : DidOpen(p, ls_label, says, auto)
    BY <1>2 DEF DocStep, DidOpen, IsOpen, Labels
  <1>3. CASE \E says \in Lang \cup {NoLang} : DidChange(says)
    BY <1>3 DEF DocStep, DidChange, IsOpen, Labels
  <1>4. CASE DidClose
    BY <1>4 DEF DocStep, DidClose
  <1>5. CASE ReloadInvalidates
    <2>1. doc' = doc \/ (doc.inc # 0 /\ reload' = "invalidated" /\ doc' = InvalidateParse(doc))
      BY <1>5 DEF ReloadInvalidates, IsOpen
    <2>. QED  BY <2>1 DEF DocStep
  <1>6. ASSUME NEW p \in Pass, InstallFails(p) \/ GiveUp(p) \/ ResolveInstalled(p) PROVE DocStep
    <2>1. doc' = doc \/ \E i : doc' = PublishGiveup(i)
      BY <1>6 DEF InstallFails, GiveUp, ResolveInstalled
    <2>2. \/ doc' = doc
          \/ /\ doc.inc # 0 /\ doc.snap = NoSnap
             /\ doc' = [doc EXCEPT !.snap = GiveUpSnapshot(doc)]
      BY <2>1 DEF PublishGiveup, IsOpen, HasSnap
    <2>. QED  BY <2>2 DEF DocStep
  <1>7. ASSUME NEW p \in Pass, FinishWithoutTree(p) PROVE DocStep
    BY <1>7 DEF DocStep, FinishWithoutTree, IsOpen
  <1>8. ASSUME NEW p \in Pass, InstallSingle(p) \/ InstallFirst(p) PROVE DocStep
    <2>1. /\ pass[p].pc \in {"single", "first"}
          /\ doc' = doc \/ (doc.inc # 0 /\ doc' = InstallParse(doc, pass[p].check, pass[p].snap))
      BY <1>8 DEF InstallSingle, InstallFirst, IsOpen
    <2>. QED  BY <2>1 DEF DocStep
  <1>9. ASSUME NEW p \in Pass, Complete(p) PROVE DocStep
    BY <1>9 DEF DocStep, Complete, IsOpen
  <1>. QED  BY <1>1, <1>2, <1>3, <1>4, <1>5, <1>6, <1>7, <1>8, <1>9 DEF Next, vars, PassStep,
              ReloadBegins, ReloadSwapsGrammars, ReloadFinishes,
              CaptureForOpen, CaptureLatest, InstallSucceeds, CaptureAttempt, AcquireParser,
              ReleaseParser, RetryParse, ParseYieldsNothing, Latch

-----------------------------------------------------------------------------
(* The log.  A snapshot that is published keeps it good: it is of a later  *)

(* version than the last.                                                  *)
LEMMA LogInstallOK ==
  ASSUME NEW d, LogOK(d), NEW d2,
         d2.edited = d.edited, d2.replaced = d.replaced, d2.ver = d.ver,
         d2.log = d.log, d2.floor = d.floor,
         PublishedParsedVersion(d) \in Nat, PublishedParsedVersion(d2) \in Nat,
         PublishedParsedVersion(d) <= PublishedParsedVersion(d2)
  PROVE  LogOK(d2)
  <1>1. \A v : Writes(d2, v) = Writes(d, v)
    BY DEF Writes
  <1>2. \A w \in d.edited \cup d.replaced : w \in Nat
    BY DEF LogOK
  <1>3. \A w \in d.edited \cup d.replaced :
          w > d.floor /\ w > PublishedParsedVersion(d2) => w \in d.log
    BY <1>2 DEF LogOK
  <1>. QED  BY <1>1, <1>3 DEF LogOK

(* So is a version without a write.                                        *)
LEMMA LatestGrows ==
  ASSUME NEW d, LogOK(d), d.ver \in Nat, NEW d2, d2.ver = d.ver + 1,
         \/ d2.edited \cup d2.replaced = d.edited \cup d.replaced
         \/ d2.edited \cup d2.replaced = d.edited \cup d.replaced \cup {d2.ver}
  PROVE  \A v \in 0..d2.ver : HasLatest(Writes(d2, v))
  <1>. TAKE v \in 0..d2.ver
  <1>. DEFINE ws == d.edited \cup d.replaced
  <1>1. ws \subseteq 1..d.ver
    BY DEF LogOK
  <1>2. CASE v <= d.ver
    <2>1. Writes(d2, v) = Writes(d, v)
      BY <1>1, <1>2 DEF Writes
    <2>. QED  BY <1>2, <2>1 DEF LogOK
  <1>3. CASE v = d2.ver
    <2>1. CASE d2.edited \cup d2.replaced = ws
      <3>1. Writes(d2, v) = Writes(d, d.ver)
        BY <1>1, <1>3, <2>1 DEF Writes
      <3>. QED  BY <3>1 DEF LogOK
    <2>2. CASE d2.edited \cup d2.replaced = ws \cup {d2.ver}
      <3>1. v \in Writes(d2, v) /\ \A x \in Writes(d2, v) : x <= v
        BY <1>1, <1>3, <2>2 DEF Writes
      <3>. QED  BY <3>1 DEF HasLatest
    <2>. QED  BY <2>1, <2>2
  <1>. QED  BY <1>2, <1>3

(* An edit is logged, or raises the floor to itself.                       *)
LEMMA LogEditOK ==
  ASSUME NEW d, NEW o, DocOK(d, o), d.inc # 0, LogOK(d), NEW says
  PROVE  LogOK(ApplyEdit(d, says))
  <1>. DEFINE d2 == ApplyEdit(d, says)
              v == d.ver + 1
              log == { w \in d.log : w > PublishedParsedVersion(d) } \cup {v}
              full == Cardinality(log) > MaxSeedEdits
  <1>1. IsDoc(d) /\ d.ver \in Nat
    BY DEF DocOK, Closed
  <1>2. /\ d2.ver = v /\ d2.edited = d.edited \cup {v} /\ d2.replaced = d.replaced
        /\ d2.snap = d.snap
        /\ \/ d2.log = {} /\ d2.floor = v
           \/ d2.log = log /\ d2.floor = d.floor
    BY <1>1 DEF ApplyEdit, IsDoc
  <1>. HIDE DEF d2
  <1>3. \A x \in 0..d2.ver : HasLatest(Writes(d2, x))
    <2>1. d2.edited \cup d2.replaced = d.edited \cup d.replaced \cup {d2.ver}
      BY <1>2
    <2>. QED  BY <1>1, <1>2, <2>1, LatestGrows
  <1>4. PublishedParsedVersion(d2) = PublishedParsedVersion(d)
    BY <1>2 DEF PublishedParsedVersion
  <1>5. d.edited \subseteq 1..d.ver /\ d.replaced \subseteq 1..d.ver /\ d.floor \in 0..d.ver
    BY DEF LogOK
  <1>6. d2.edited \subseteq 1..v /\ d2.replaced \subseteq 1..v /\ d2.floor \in 0..v
    BY <1>1, <1>2, <1>5
  <1>7. /\ d2.log \subseteq d2.edited
        /\ \A w \in d2.edited \cup d2.replaced :
             w > d2.floor /\ w > PublishedParsedVersion(d2) => w \in d2.log
        /\ \A w \in d2.replaced : w <= d2.floor
    <2>1. CASE d2.log = {} /\ d2.floor = v
      BY <1>1, <1>2, <1>5, <1>6, <2>1
    <2>2. CASE d2.log = log /\ d2.floor = d.floor
      BY <1>1, <1>2, <1>4, <2>2 DEF LogOK
    <2>. QED  BY <1>2, <2>1, <2>2
  <1>8. LogOK(d2)
    BY <1>2, <1>3, <1>6, <1>7 DEF LogOK
  <1>. QED  BY <1>8 DEF d2

(* A whole text raises the floor to itself.                                *)
LEMMA LogReplaceOK ==
  ASSUME NEW d, NEW o, DocOK(d, o), d.inc # 0, LogOK(d), NEW says
  PROVE  LogOK(ReplaceText(d, says))
  <1>. DEFINE d2 == ReplaceText(d, says)
              v == d.ver + 1
  <1>1. IsDoc(d) /\ d.ver \in Nat
    BY DEF DocOK, Closed
  <1>2. /\ d2.ver = v /\ d2.edited = d.edited /\ d2.replaced = d.replaced \cup {v}
        /\ d2.log = {} /\ d2.floor = v
    BY <1>1 DEF ReplaceText, IsDoc
  <1>. HIDE DEF d2
  <1>3. \A x \in 0..d2.ver : HasLatest(Writes(d2, x))
    <2>1. d2.edited \cup d2.replaced = d.edited \cup d.replaced \cup {d2.ver}
      BY <1>2
    <2>. QED  BY <1>1, <1>2, <2>1, LatestGrows
  <1>4. d.edited \subseteq 1..d.ver /\ d.replaced \subseteq 1..d.ver
    BY DEF LogOK
  <1>5. d2.edited \subseteq 1..v /\ d2.replaced \subseteq 1..v /\ d2.floor \in 0..v
    BY <1>1, <1>2, <1>4
  <1>6. \A w \in d2.edited \cup d2.replaced : ~(w > d2.floor) /\ w <= d2.floor
    BY <1>1, <1>2, <1>5
  <1>7. LogOK(d2)
    BY <1>2, <1>3, <1>5, <1>6 DEF LogOK
  <1>. QED  BY <1>7 DEF d2

(* A reload raises the floor to its version.                               *)
LEMMA LogInvalidateOK ==
  ASSUME NEW o, DocOK(doc, o), doc.inc # 0, LogOK(doc)
  PROVE  /\ LogOK(InvalidateParse(doc))
         /\ InvalidateParse(doc).snap.ver = doc.ver + 1
         /\ InvalidateParse(doc).snap.sound /\ ~InvalidateParse(doc).snap.tree
         /\ InvalidateParse(doc).snap # NoSnap
  <1>. DEFINE d2 == InvalidateParse(doc)
              v == doc.ver + 1
              r == [by |-> "reload", inc |-> doc.inc, ver |-> doc.ver + 1,
                    text |-> TextOf(doc, doc.ver + 1), lang |-> doc.label,
                    tree |-> FALSE, sound |-> TRUE, gram |-> gram, regions |-> NoLang]
  <1>1. IsDoc(doc) /\ doc.ver \in Nat
    BY DEF DocOK, Closed
  <1>2. d2 = [doc EXCEPT !.ver = doc.ver + 1, !.log = {}, !.floor = doc.ver + 1, !.snap = r]
    BY DEF InvalidateParse
  <1>3. r.ver = v /\ r.sound /\ ~r.tree /\ r # NoSnap
    BY SnapRecord, SnapIsSome
  <1>. HIDE DEF r, d2
  <1>4. /\ d2.ver = v /\ d2.edited = doc.edited /\ d2.replaced = doc.replaced
        /\ d2.log = {} /\ d2.floor = v /\ d2.snap = r
    BY <1>1, <1>2 DEF IsDoc
  <1>5. \A x \in 0..d2.ver : HasLatest(Writes(d2, x))
    BY <1>1, <1>4, LatestGrows
  <1>6. doc.edited \subseteq 1..doc.ver /\ doc.replaced \subseteq 1..doc.ver
    BY DEF LogOK
  <1>7. d2.edited \subseteq 1..v /\ d2.replaced \subseteq 1..v /\ d2.floor \in 0..v
    BY <1>1, <1>4, <1>6
  <1>8. \A w \in d2.edited \cup d2.replaced : ~(w > d2.floor) /\ w <= d2.floor
    BY <1>1, <1>4, <1>7
  <1>9. LogOK(d2)
    BY <1>4, <1>5, <1>7, <1>8 DEF LogOK
  <1>. QED  BY <1>3, <1>4, <1>9 DEF d2

(* A newer snapshot keeps the log good.                                    *)
LEMMA LogSnapOK ==
  ASSUME NEW d, NEW o, DocOK(d, o), d.inc # 0, LogOK(d),
         NEW s, s # NoSnap, s.ver \in Nat, d.snap # NoSnap => d.snap.ver <= s.ver,
         NEW d2, d2.edited = d.edited, d2.replaced = d.replaced, d2.ver = d.ver,
         d2.log = d.log, d2.floor = d.floor, d2.snap = s
  PROVE  LogOK(d2)
  <1>1. d.snap # NoSnap => d.snap.ver \in Nat
    BY DEF DocOK, Closed, SnapOK, Faithful
  <1>2. /\ PublishedParsedVersion(d) \in Nat /\ PublishedParsedVersion(d2) \in Nat
        /\ PublishedParsedVersion(d) <= PublishedParsedVersion(d2)
    BY <1>1 DEF PublishedParsedVersion
  <1>. QED  BY <1>2, LogInstallOK

(* What a pass publishes is newer.                                         *)
LEMMA LogInstallParseOK ==
  ASSUME NEW d, NEW o, DocOK(d, o), d.inc # 0, LogOK(d), NEW check,
         NEW s, SnapOK(s, d, o)
  PROVE  LogOK(InstallParse(d, check, s))
  <1>. DEFINE d2 == InstallParse(d, check, s)
  <1>1. IsDoc(d) /\ s # NoSnap /\ s.ver \in Nat
    BY SnapIsSome DEF DocOK, Closed, SnapOK, Faithful
  <1>2. d.snap # NoSnap => d.snap.ver \in Nat
    BY DEF DocOK, Closed, SnapOK, Faithful
  <1>3. CASE InstallAdmitted(d, check, s)
    <2>1. /\ d2.edited = d.edited /\ d2.replaced = d.replaced /\ d2.ver = d.ver
          /\ d2.log = d.log /\ d2.floor = d.floor /\ d2.snap = s
      BY <1>1, <1>3 DEF InstallParse, IsDoc
    <2>2. d.snap # NoSnap => d.snap.ver <= s.ver
      BY <1>1, <1>2, <1>3 DEF InstallAdmitted, Admits
    <2>. QED  BY <1>1, <2>1, <2>2, LogSnapOK
  <1>4. CASE ~InstallAdmitted(d, check, s)
    BY <1>4 DEF InstallParse
  <1>. QED  BY <1>3, <1>4

(* Regions are added to the same version.                                  *)
LEMMA LogCompleteOK ==
  ASSUME NEW d, NEW o, DocOK(d, o), d.inc # 0, LogOK(d), NEW check,
         NEW s, SnapOK(s, d, o)
  PROVE  LogOK(CompleteParse(d, check, s))
  <1>. DEFINE d2 == CompleteParse(d, check, s)
              s2 == [s EXCEPT !.regions = s.by]
  <1>1. IsDoc(d) /\ IsSnap(s) /\ s.ver \in Nat
    BY DEF DocOK, Closed, SnapOK, Faithful
  <1>2. CASE LanguageMatches(d, check) /\ d.snap = s /\ s.tree /\ s.regions = NoLang
    <2>1. /\ d2.edited = d.edited /\ d2.replaced = d.replaced /\ d2.ver = d.ver
          /\ d2.log = d.log /\ d2.floor = d.floor /\ d2.snap = s2
      BY <1>1, <1>2 DEF CompleteParse, IsDoc
    <2>2. IsSnap(s2) /\ s2.ver = s.ver
      BY <1>1 DEF IsSnap
    <2>3. d.snap # NoSnap => d.snap.ver <= s2.ver
      BY <1>1, <1>2, <2>2
    <2>. QED  BY <1>1, <2>1, <2>2, <2>3, SnapIsSome, LogSnapOK
  <1>3. CASE ~(LanguageMatches(d, check) /\ d.snap = s /\ s.tree /\ s.regions = NoLang)
    BY <1>3 DEF CompleteParse
  <1>. QED  BY <1>2, <1>3

(* A pass that gives up publishes the current version, without a tree.     *)
LEMMA LogGiveUpOK ==
  ASSUME NEW o, DocOK(doc, o), doc.inc # 0, doc.snap = NoSnap, LogOK(doc)
  PROVE  LET d2 == [doc EXCEPT !.snap = GiveUpSnapshot(doc)] IN
         LogOK(d2) /\ d2.snap.sound /\ ~d2.snap.tree
  <1>. DEFINE d2 == [doc EXCEPT !.snap = GiveUpSnapshot(doc)]
              s == GiveUpSnapshot(doc)
  <1>1. IsDoc(doc) /\ doc.ver \in Nat
    BY DEF DocOK, Closed
  <1>2. s # NoSnap /\ s.ver = doc.ver /\ s.sound /\ ~s.tree
    BY SnapRecord, SnapIsSome DEF GiveUpSnapshot
  <1>. HIDE DEF s
  <1>3. /\ d2.edited = doc.edited /\ d2.replaced = doc.replaced /\ d2.ver = doc.ver
        /\ d2.log = doc.log /\ d2.floor = doc.floor /\ d2.snap = s
    BY <1>1 DEF IsDoc, s
  <1>. HIDE DEF d2
  <1>4. LogOK(d2)
    BY <1>1, <1>2, <1>3, LogSnapOK
  <1>. QED  BY <1>2, <1>3, <1>4 DEF d2

(* Every step keeps the log.                                               *)
LEMMA LogNextOK ==
  ASSUME StoreInv, LogInv, [Next]_vars
  PROVE  LogInv'
  <1>1. DocOK(doc, opens) /\ (doc.inc # 0 => LogOK(doc))
    BY DEF StoreInv, LogInv
  <1>2. CASE doc' = doc \/ doc' = Closed
    BY <1>1, <1>2 DEF LogInv, Closed
  <1>3. CASE \E label, says : doc' = NewDocument(opens + 1, label, says)
    <2>1. /\ doc'.edited = {} /\ doc'.replaced = {} /\ doc'.ver = 0 /\ doc'.log = {}
          /\ doc'.floor = 0
      BY <1>3 DEF NewDocument
    <2>2. LogOK(doc')
      BY <2>1 DEF LogOK, HasLatest, Writes
    <2>. QED  BY <2>2 DEF LogInv
  <1>4. ASSUME doc.inc # 0, NEW says, doc' \in {ApplyEdit(doc, says), ReplaceText(doc, says)}
        PROVE  LogOK(doc')
    BY <1>1, <1>4, LogEditOK, LogReplaceOK
  <1>5. ASSUME doc.inc # 0, doc' = InvalidateParse(doc) PROVE LogOK(doc')
    BY <1>1, <1>5, LogInvalidateOK
  <1>6. ASSUME doc.inc # 0, doc.snap = NoSnap, doc' = [doc EXCEPT !.snap = GiveUpSnapshot(doc)]
        PROVE  LogOK(doc')
    BY <1>1, <1>6, LogGiveUpOK
  <1>7. ASSUME doc.inc # 0, NEW p \in Pass, NEW check, pass[p].pc = "parsed",
               doc' = InstallParse(doc, check, SnapshotOf(p))
        PROVE  LogOK(doc')
    <2>1. SnapOK(SnapshotOf(p), doc, opens)
      BY <1>7, Before, SnapshotOfOK DEF PassOK
    <2>. QED  BY <1>1, <1>7, <2>1, LogInstallParseOK
  <1>8. ASSUME doc.inc # 0, NEW p \in Pass, NEW check, pass[p].pc \in {"single", "first"},
               doc' = InstallParse(doc, check, pass[p].snap)
        PROVE  LogOK(doc')
    <2>1. SnapOK(pass[p].snap, doc, opens)
      BY <1>8, Before DEF PassOK
    <2>. QED  BY <1>1, <1>8, <2>1, LogInstallParseOK
  <1>9. ASSUME doc.inc # 0, NEW p \in Pass, NEW check, pass[p].pc = "complete",
               doc' = CompleteParse(doc, check, pass[p].snap)
        PROVE  LogOK(doc')
    <2>1. SnapOK(pass[p].snap, doc, opens)
      BY <1>9, Before DEF PassOK
    <2>. QED  BY <1>1, <1>9, <2>1, LogCompleteOK
  <1>10. DocStep
    BY DocSteps
  <1>. QED  BY <1>2, <1>3, <1>4, <1>5, <1>6, <1>7, <1>8, <1>9, <1>10 DEF DocStep, LogInv

-----------------------------------------------------------------------------
(* What is left behind stays so, and all of a document's versions are when *)

(* the reload has invalidated it.                                          *)
LEMMA StaleKept ==
  ASSUME StoreInv, LogInv, PoolInv, [Next]_vars, doc.inc # 0, doc'.inc = doc.inc, NEW v \in Nat
  PROVE  /\ Stale(v, doc) => Stale(v, doc')
         /\ v <= doc.ver /\ reload = "swapped" /\ reload' # "swapped" => Stale(v, doc')
  <1>1. StoreInv'
    BY NextOK
  <1>2. DocOK(doc, opens) /\ DocOK(doc', opens')
    BY <1>1 DEF StoreInv
  <1>3. ASSUME Stale(v, doc) PROVE Stale(v, doc')
    <2>1. doc.snap # NoSnap /\ v < doc.snap.ver /\ doc.snap.ver \in Nat
      BY <1>2, <1>3 DEF Stale, DocOK, Closed, SnapOK, Faithful
    <2>2. doc'.snap # NoSnap /\ doc'.snap.ver >= doc.snap.ver
      BY <2>1, NextOnwards DEF Onwards
    <2>3. doc'.snap.ver \in Nat
      BY <1>2, <2>2 DEF DocOK, Closed, SnapOK, Faithful
    <2>. QED  BY <2>1, <2>2, <2>3 DEF Stale
  <1>4. ASSUME v <= doc.ver, reload = "swapped", reload' # "swapped" PROVE Stale(v, doc')
    <2>1. doc' = InvalidateParse(doc)
      BY <1>4, PoolSteps DEF ReloadInvalidates, IsOpen
    <2>2. doc'.snap.ver = doc.ver + 1 /\ doc'.snap # NoSnap /\ doc.ver \in Nat
      BY <1>2, <2>1, LogInvalidateOK DEF LogInv, DocOK, Closed
    <2>. QED  BY <1>4, <2>2 DEF Stale
  <1>. QED  BY <1>3, <1>4

(* A grammar that is in force stays so, or its version is left behind.     *)
LEMMA FreshKept ==
  ASSUME StoreInv, LogInv, PoolInv, [Next]_vars,
         NEW inc, NEW v, NEW text, Faithful(inc, v, text, doc, opens),
         NEW g, Fresh(inc, v, g, doc, gram, reload)
  PROVE  Fresh(inc, v, g, doc', gram', reload')
  <1>. SUFFICES ASSUME inc = doc'.inc
                PROVE  g = gram' \/ reload' = "swapped" \/ Stale(v, doc')
    BY DEF Fresh
  <1>1. inc \in 1..opens /\ opens \in Nat /\ v \in Nat
    BY DEF Faithful, StoreInv
  <1>2. inc = doc.inc /\ doc.inc # 0 /\ v <= doc.ver
    BY <1>1, NextOK DEF Keeps, Faithful
  <1>3. gram' = gram \/ reload' = "swapped"
    BY PoolSteps
  <1>. QED  BY <1>1, <1>2, <1>3, StaleKept DEF Fresh

(* So with a tree.                                                         *)
LEMMA TreeKept ==
  ASSUME StoreInv, LogInv, PoolInv, [Next]_vars,
         NEW inc, NEW v, NEW text, Faithful(inc, v, text, doc, opens),
         NEW g, NEW sound, TreeOK(inc, v, g, sound, doc, gram, reload)
  PROVE  TreeOK(inc, v, g, sound, doc', gram', reload')
  <1>1. Fresh(inc, v, g, doc', gram', reload')
    BY FreshKept DEF TreeOK
  <1>2. ASSUME inc = doc'.inc PROVE sound \/ Stale(v, doc')
    <2>1. inc \in 1..opens /\ opens \in Nat /\ v \in Nat
      BY DEF Faithful, StoreInv
    <2>2. inc = doc.inc /\ doc.inc # 0
      BY <1>2, <2>1, NextOK DEF Keeps
    <2>. QED  BY <1>2, <2>1, <2>2, StaleKept DEF TreeOK
  <1>. QED  BY <1>1, <1>2 DEF TreeOK

(* So with a seed.                                                         *)
LEMMA SeedKept ==
  ASSUME StoreInv, LogInv, PoolInv, [Next]_vars,
         NEW r, InputsOK(r, doc, opens), SeedOK(r, doc, gram, reload)
  PROVE  SeedOK(r, doc', gram', reload')
  BY FreshKept DEF SeedOK, InputsOK

SnapSound(s, d, gr, rl) ==
  IF s.tree THEN TreeOK(s.inc, s.ver, s.gram, s.sound, d, gr, rl) ELSE s.sound

(* So with a snapshot that waits to be published.                          *)
LEMMA SnapSoundKept ==
  ASSUME StoreInv, LogInv, PoolInv, [Next]_vars,
         NEW s, SnapOK(s, doc, opens), SnapSound(s, doc, gram, reload)
  PROVE  SnapSound(s, doc', gram', reload')
  BY TreeKept DEF SnapSound, SnapOK

(* A pass that does not move stays sound.                                  *)
LEMMA PassSoundKept ==
  ASSUME StoreInv, LogInv, PoolInv, [Next]_vars,
         NEW r, PassOK(r, doc, opens, loaded), PassSound(r, doc, gram, reload, pool.gen)
  PROVE  PassSound(r, doc', gram', reload', pool'.gen)
  <1>1. r.pc = "captured" => SeedOK(r, doc', gram', reload')
    BY SeedKept DEF PassOK, PassSound
  <1>2. ASSUME r.pc = "parsing"
        PROVE  /\ SeedOK(r.in, doc', gram', reload')
               /\ r.gen \in Nat /\ r.gen <= pool'.gen
               /\ r.gen = pool'.gen => reload' = "none" /\ r.gram = gram'
    <2>1. SeedOK(r.in, doc', gram', reload')
      BY <1>2, SeedKept DEF PassOK, PassSound
    <2>2. /\ r.gen \in Nat /\ r.gen <= pool.gen
          /\ r.gen = pool.gen => reload = "none" /\ r.gram = gram
      BY <1>2 DEF PassSound
    <2>3. pool.gen \in Nat /\ pool'.gen \in Nat /\ pool.gen <= pool'.gen
      BY PoolOK, PoolSteps DEF PoolInv
    <2>4. pool'.gen = pool.gen /\ reload = "none" => reload' = "none" /\ gram' = gram
      BY PoolSteps
    <2>. QED  BY <2>1, <2>2, <2>3, <2>4
  <1>3. r.pc = "parsed" /\ r.tree =>
          TreeOK(r.in.inc, r.in.ver, r.gram, r.sound, doc', gram', reload')
    BY TreeKept DEF PassOK, PassSound, InputsOK
  <1>4. r.pc \in {"single", "first", "complete"} => SnapSound(r.snap, doc', gram', reload')
    BY SnapSoundKept DEF PassOK, PassSound, SnapSound
  <1>. QED  BY <1>1, <1>2, <1>3, <1>4 DEF PassSound, SnapSound

-----------------------------------------------------------------------------
(* A seed that may be taken is sound: the log after its version is what    *)

(* was written after its text.                                             *)
LEMMA LastOfIs ==
  ASSUME NEW W, HasLatest(W), W # {}
  PROVE  LastOf(W) \in W /\ \A x \in W : x <= LastOf(W)
  BY DEF HasLatest, LastOf

(* So a seed meets the incremental contract.                               *)
LEMMA SeedGood ==
  ASSUME StoreInv, LogInv, SnapInv, doc.inc # 0, NEW lang
  PROVE  LET seed == IncrementalSeed(doc, lang) IN
         seed.tree => /\ seed.sound /\ seed.lang = lang
                      /\ seed.gram = gram \/ reload = "swapped"
  <1>. DEFINE s == doc.snap
              ws == doc.edited \cup doc.replaced
  <1>. SUFFICES ASSUME MaySeed(doc, lang)
                PROVE  /\ s.sound /\ s.lang = lang
                       /\ (s.gram = gram \/ reload = "swapped")
                       /\ { w \in doc.log : w > s.ver } = { w \in ws : w > s.text }
                       /\ doc.replaced \cap ((s.text + 1)..doc.ver) = {}
    BY DEF IncrementalSeed, NoSeed
  <1>1. /\ s # NoSnap /\ s.ver >= doc.floor /\ s.lang = lang /\ s.tree
    BY DEF MaySeed
  <1>2. s.sound /\ (s.gram = gram \/ reload = "swapped")
    BY <1>1 DEF SnapInv
  <1>3. LogOK(doc)
    BY DEF LogInv
  <1>4. /\ doc.ver \in Nat /\ s.ver \in Nat /\ s.ver <= doc.ver
        /\ s.text = LastOf(Writes(doc, s.ver))
    BY <1>1, TextIsLatest DEF StoreInv, DocOK, Closed, SnapOK, Faithful
  <1>5. ws \subseteq 1..doc.ver /\ doc.floor \in 0..doc.ver
    BY <1>3 DEF LogOK
  <1>6. \A w \in ws : w > s.text <=> w > s.ver
    <2>. DEFINE W == Writes(doc, s.ver)
    <2>1. HasLatest(W)
      BY <1>3, <1>4 DEF LogOK
    <2>2. W \subseteq ws /\ \A w \in ws : w \in W <=> w <= s.ver
      BY DEF Writes
    <2>3. CASE W = {}
      <3>1. s.text = 0
        BY <1>4, <2>3 DEF LastOf
      <3>. QED  BY <1>4, <1>5, <2>2, <2>3, <3>1
    <2>4. CASE W # {}
      <3>1. s.text \in W /\ \A w \in W : w <= s.text
        BY <1>4, <2>1, <2>4, LastOfIs
      <3>. HIDE DEF W
      <3>2. s.text \in Nat /\ s.text <= s.ver
        BY <1>4, <1>5, <2>2, <3>1
      <3>3. ASSUME NEW w \in ws PROVE w > s.text <=> w > s.ver
        <4>1. w \in Nat /\ (w \in W <=> w <= s.ver)
          BY <1>5, <2>2
        <4>2. w <= s.ver => w <= s.text
          BY <3>1, <4>1
        <4>. QED  BY <1>4, <3>2, <4>1, <4>2
      <3>. QED  BY <3>3
    <2>. QED  BY <2>3, <2>4
  <1>7. PublishedParsedVersion(doc) = s.ver
    BY <1>1 DEF PublishedParsedVersion
  <1>8. { w \in doc.log : w > s.ver } = { w \in ws : w > s.text }
    <2>1. doc.log \subseteq ws
      BY <1>3 DEF LogOK
    <2>2. \A w \in ws : w > s.ver => w \in doc.log
      <3>. SUFFICES ASSUME NEW w \in ws, w > s.ver PROVE w \in doc.log
        OBVIOUS
      <3>1. w > doc.floor
        BY <1>1, <1>4, <1>5
      <3>. QED  BY <1>3, <1>7, <3>1 DEF LogOK
    <2>. QED  BY <1>6, <2>1, <2>2
  <1>9. doc.replaced \cap ((s.text + 1)..doc.ver) = {}
    <2>. SUFFICES ASSUME NEW w \in doc.replaced, w \in (s.text + 1)..doc.ver PROVE FALSE
      OBVIOUS
    <2>1. w \in ws /\ w \in Nat /\ w <= doc.floor
      BY <1>3, <1>5 DEF LogOK
    <2>2. s.text \in Nat
      <3>1. CASE Writes(doc, s.ver) = {}
        BY <1>4, <3>1 DEF LastOf
      <3>2. CASE Writes(doc, s.ver) # {}
        <4>1. s.text \in Writes(doc, s.ver)
          BY <1>3, <1>4, <3>2, LastOfIs DEF LogOK
        <4>. QED  BY <1>5, <4>1 DEF Writes
      <3>. QED  BY <3>1, <3>2
    <2>3. w > s.text
      BY <2>1, <2>2
    <2>4. w > s.ver
      BY <1>6, <2>1, <2>3
    <2>. QED  BY <1>1, <1>4, <1>5, <2>1, <2>4
  <1>. QED  BY <1>1, <1>2, <1>8, <1>9

-----------------------------------------------------------------------------
(* What is published is sound, and of the grammar in force.                *)
LEMMA InstallSound ==
  ASSUME StoreInv, SnapInv, doc.inc # 0, NEW check,
         NEW s, SnapOK(s, doc, opens), SnapSound(s, doc, gram, reload)
  PROVE  LET d2 == InstallParse(doc, check, s) IN
         d2.snap # NoSnap =>
           d2.snap.sound /\ (d2.snap.tree => d2.snap.gram = gram \/ reload = "swapped")
  <1>. DEFINE d2 == InstallParse(doc, check, s)
  <1>1. CASE InstallAdmitted(doc, check, s)
    <2>1. IsDoc(doc) /\ (doc.snap # NoSnap => doc.snap.ver \in Nat) /\ s.ver \in Nat
      BY DEF StoreInv, DocOK, Closed, SnapOK, Faithful
    <2>2. d2.snap = s
      BY <1>1, <2>1 DEF InstallParse, IsDoc
    <2>3. s.inc = doc.inc /\ ~Stale(s.ver, doc)
      BY <1>1, <2>1 DEF InstallAdmitted, Admits, Stale
    <2>. QED  BY <2>2, <2>3 DEF SnapSound, TreeOK, Fresh
  <1>2. CASE ~InstallAdmitted(doc, check, s)
    BY <1>2 DEF InstallParse, SnapInv
  <1>. QED  BY <1>1, <1>2

(* What gains regions was sound before.                                    *)
LEMMA CompleteSound ==
  ASSUME StoreInv, SnapInv, doc.inc # 0, NEW check, NEW s, SnapOK(s, doc, opens)
  PROVE  LET d2 == CompleteParse(doc, check, s) IN
         d2.snap # NoSnap =>
           d2.snap.sound /\ (d2.snap.tree => d2.snap.gram = gram \/ reload = "swapped")
  <1>. DEFINE d2 == CompleteParse(doc, check, s)
              s2 == [s EXCEPT !.regions = s.by]
  <1>1. CASE LanguageMatches(doc, check) /\ doc.snap = s /\ s.tree /\ s.regions = NoLang
    <2>1. IsDoc(doc) /\ IsSnap(s) /\ s # NoSnap
      BY SnapIsSome DEF StoreInv, DocOK, Closed, SnapOK
    <2>2. d2.snap = s2
      BY <1>1, <2>1 DEF CompleteParse, IsDoc
    <2>3. s2.sound = s.sound /\ s2.tree = s.tree /\ s2.gram = s.gram
      BY <2>1 DEF IsSnap
    <2>4. s.sound /\ (s.gram = gram \/ reload = "swapped")
      BY <1>1, <2>1 DEF SnapInv
    <2>. QED  BY <2>2, <2>3, <2>4
  <1>2. CASE ~(LanguageMatches(doc, check) /\ doc.snap = s /\ s.tree /\ s.regions = NoLang)
    BY <1>2 DEF CompleteParse, SnapInv
  <1>. QED  BY <1>1, <1>2

(* A pass without a tree makes no claim.                                   *)
LEMMA TreelessSound ==
  ASSUME NEW p, ~pass[p].tree
  PROVE  SnapSound(SnapshotOf(p), doc, gram, reload)
  <1>1. ~SnapshotOf(p).tree /\ SnapshotOf(p).sound
    BY DEF SnapshotOf
  <1>. QED  BY <1>1 DEF SnapSound

(* Every step keeps what is published sound.                               *)
LEMMA SnapNextOK ==
  ASSUME StoreInv, PoolInv, LogInv, SnapInv, SeedInv, [Next]_vars
  PROVE  SnapInv'
  <1>1. DocOK(doc, opens)
    BY DEF StoreInv
  <1>2. CASE ReloadInvalidates
    <2>1. CASE doc.inc = 0
      BY <1>2, <2>1 DEF ReloadInvalidates, IsOpen, SnapInv
    <2>2. CASE doc.inc # 0
      <3>1. doc' = InvalidateParse(doc) /\ LogOK(doc)
        BY <1>2, <2>2 DEF ReloadInvalidates, IsOpen, LogInv
      <3>2. doc'.snap.sound /\ ~doc'.snap.tree
        BY <1>1, <2>2, <3>1, LogInvalidateOK
      <3>. QED  BY <3>2 DEF SnapInv
    <2>. QED  BY <2>1, <2>2
  <1>3. CASE ~ReloadInvalidates
    <2>. DEFINE Good(d) ==
           d.snap # NoSnap =>
             d.snap.sound /\ (d.snap.tree => d.snap.gram = gram \/ reload = "swapped")
    <2>1. \A g : g = gram \/ reload = "swapped" => g = gram' \/ reload' = "swapped"
      BY <1>3, PoolSteps
    <2>2. SUFFICES ASSUME doc'.inc # 0 PROVE Good(doc')
      BY <2>1 DEF SnapInv
    <2>3. doc.inc # 0 => Good(doc)
      BY DEF SnapInv
    <2>. HIDE DEF Good
    <2>4. CASE doc' = doc \/ doc' = Closed
      BY <2>2, <2>3, <2>4 DEF Closed
    <2>5. CASE \E label, says : doc' = NewDocument(opens + 1, label, says)
      <3>1. doc'.snap = NoSnap
        BY <2>5 DEF NewDocument
      <3>. QED  BY <3>1 DEF Good
    <2>6. ASSUME doc.inc # 0, NEW says, doc' \in {ApplyEdit(doc, says), ReplaceText(doc, says)}
          PROVE  Good(doc')
      <3>1. doc'.snap = doc.snap
        BY <1>1, <2>6, EditOK DEF StoreInv
      <3>. QED  BY <2>3, <2>6, <3>1 DEF Good
    <2>7. ASSUME doc.inc # 0, doc' = InvalidateParse(doc) PROVE Good(doc')
      <3>1. doc'.snap.sound /\ ~doc'.snap.tree
        BY <1>1, <2>7, LogInvalidateOK DEF LogInv
      <3>. QED  BY <3>1 DEF Good
    <2>8. ASSUME doc.inc # 0, doc.snap = NoSnap, doc' = [doc EXCEPT !.snap = GiveUpSnapshot(doc)]
          PROVE  Good(doc')
      <3>1. doc'.snap.sound /\ ~doc'.snap.tree
        BY <1>1, <2>8, LogGiveUpOK DEF LogInv
      <3>. QED  BY <3>1 DEF Good
    <2>9. ASSUME doc.inc # 0, NEW p \in Pass, NEW check, pass[p].pc = "parsed", ~pass[p].tree,
                 doc' = InstallParse(doc, check, SnapshotOf(p))
          PROVE  Good(doc')
      <3>1. SnapOK(SnapshotOf(p), doc, opens)
        BY <2>9, Before, SnapshotOfOK DEF PassOK
      <3>. QED  BY <2>9, <3>1, TreelessSound, InstallSound DEF Good
    <2>10. ASSUME doc.inc # 0, NEW p \in Pass, NEW check, pass[p].pc \in {"single", "first"},
                  doc' = InstallParse(doc, check, pass[p].snap)
           PROVE  Good(doc')
      <3>1. SnapOK(pass[p].snap, doc, opens)
        BY <2>10, Before DEF PassOK
      <3>2. SnapSound(pass[p].snap, doc, gram, reload)
        BY <2>10 DEF SeedInv, PassSound, SnapSound
      <3>. QED  BY <2>10, <3>1, <3>2, InstallSound DEF Good
    <2>11. ASSUME doc.inc # 0, NEW p \in Pass, NEW check, pass[p].pc = "complete",
                  doc' = CompleteParse(doc, check, pass[p].snap)
           PROVE  Good(doc')
      <3>1. SnapOK(pass[p].snap, doc, opens)
        BY <2>11, Before DEF PassOK
      <3>. QED  BY <2>11, <3>1, CompleteSound DEF Good
    <2>12. DocStep
      BY DocSteps
    <2>. QED  BY <2>4, <2>5, <2>6, <2>7, <2>8, <2>9, <2>10, <2>11, <2>12 DEF DocStep
  <1>. QED  BY <1>2, <1>3

-----------------------------------------------------------------------------
(* The passes that move.  One without a seed, a tree or a snapshot makes   *)

(* no claim.                                                               *)
LEMMA NoClaim ==
  ASSUME NEW r, NEW d, NEW gr, NEW rl, NEW gen,
         r.pc \notin {"captured", "parsing", "parsed", "single", "first", "complete"}
  PROVE  PassSound(r, d, gr, rl, gen)
  BY DEF PassSound

(* Neither does one that captured its inputs without a seed.               *)
LEMMA SeedlessSound ==
  ASSUME NEW kind, NEW lang, NEW label, NEW left, NEW d, NEW gr, NEW rl, NEW gen
  PROVE  PassSound(Captured(kind, lang, label, NoSeed, left), d, gr, rl, gen)
  <1>. DEFINE r == Captured(kind, lang, label, NoSeed, left)
  <1>1. r.pc = "captured" /\ ~r.seed.tree
    BY DEF Captured, NoSeed
  <1>. HIDE DEF r
  <1>2. PassSound(r, d, gr, rl, gen)
    BY <1>1 DEF PassSound, SeedOK
  <1>. QED  BY <1>2 DEF r

(* The seed a pass captures is of the open document.                       *)
LEMMA CaptureLatestSound ==
  ASSUME SoundInv, NEW p \in Pass, CaptureLatest(p)
  PROVE  PassSound(pass'[p], doc', gram', reload', pool'.gen)
  <1>. DEFINE lang == Detect(doc.label, doc.says)
              seed == IncrementalSeed(doc, lang)
              r == Captured("latest", lang, doc.label, seed, 0)
  <1>1. /\ doc.inc # 0 /\ doc' = doc /\ gram' = gram /\ reload' = reload /\ pool' = pool
        /\ pass'[p] = r
    BY MoveIs DEF SoundInv, CaptureLatest, IsOpen, Unchanged
  <1>2. seed.tree => seed.sound /\ seed.lang = lang /\ (seed.gram = gram \/ reload = "swapped")
    BY <1>1, SeedGood DEF SoundInv
  <1>. HIDE DEF seed, lang
  <1>3. r.pc = "captured" /\ r.seed = seed /\ r.lang = lang
    BY DEF Captured
  <1>. HIDE DEF r
  <1>. QED  BY <1>1, <1>2, <1>3 DEF PassSound, SeedOK, Fresh

(* A parser is taken with the grammar in force: no reload is under way.    *)
LEMMA AcquireParserSound ==
  ASSUME SoundInv, NEW p \in Pass, AcquireParser(p)
  PROVE  PassSound(pass'[p], doc', gram', reload', pool'.gen)
  <1>1. /\ pass[p].pc = "captured" /\ ~pool.reloading
        /\ doc' = doc /\ gram' = gram /\ reload' = reload /\ pool' = pool
        /\ pass'[p] = [pc |-> "parsing", in |-> pass[p], gen |-> pool.gen, gram |-> gram,
                       retry |-> FALSE]
    BY MoveIs DEF SoundInv, AcquireParser, Unchanged
  <1>2. SeedOK(pass[p], doc, gram, reload)
    BY <1>1 DEF SoundInv, SeedInv, PassSound
  <1>3. pool.gen \in Nat /\ reload = "none"
    BY <1>1 DEF SoundInv, PoolInv
  <1>. QED  BY <1>1, <1>2, <1>3 DEF PassSound

(* So it is when the parse is retried.                                     *)
LEMMA RetryParseSound ==
  ASSUME SoundInv, NEW p \in Pass, RetryParse(p)
  PROVE  PassSound(pass'[p], doc', gram', reload', pool'.gen)
  <1>. DEFINE again == [pc |-> "parsing", in |-> pass[p].in, gen |-> pool.gen,
                        gram |-> gram, retry |-> TRUE]
  <1>1. /\ pass[p].pc = "parsing"
        /\ doc' = doc /\ gram' = gram /\ reload' = reload /\ pool' = pool
        /\ \/ pass'[p] = NotParsed(pass[p].in)
           \/ ~pool.reloading /\ pass'[p] = again
    BY MoveIs DEF SoundInv, RetryParse, Unchanged
  <1>2. SeedOK(pass[p].in, doc, gram, reload)
    BY <1>1 DEF SoundInv, SeedInv, PassSound
  <1>3. ~pool.reloading => pool.gen \in Nat /\ reload = "none"
    BY DEF SoundInv, PoolInv
  <1>. QED  BY <1>1, <1>2, <1>3 DEF PassSound, NotParsed

(* A parser that is released in the generation it was taken in parsed with *)

(* the grammar in force: the seed is of that grammar, or left behind.      *)
LEMMA ReleaseParserSound ==
  ASSUME SoundInv, NEW p \in Pass, ReleaseParser(p)
  PROVE  PassSound(pass'[p], doc', gram', reload', pool'.gen)
  <1>. DEFINE in == pass[p].in
              g == pass[p].gram
              seed == IF pass[p].retry THEN NoSeed ELSE in.seed
              r == Parsed(in, seed, g)
  <1>1. /\ pass[p].pc = "parsing" /\ pass[p].gen = pool.gen
        /\ doc' = doc /\ gram' = gram /\ reload' = reload /\ pool' = pool
        /\ pass'[p] = r
    BY MoveIs DEF SoundInv, ReleaseParser, Unchanged
  <1>2. SeedOK(in, doc, gram, reload) /\ reload = "none" /\ g = gram
    BY <1>1 DEF SoundInv, SeedInv, PassSound
  <1>3. seed.tree => seed = in.seed
    BY DEF NoSeed
  <1>4. /\ r.pc = "parsed" /\ r.in = in /\ r.gram = g
        /\ r.sound = (seed.tree => seed.sound /\ seed.gram = g /\ seed.lang = in.lang)
    BY DEF Parsed
  <1>. HIDE DEF seed, r, g, in
  <1>5. ASSUME in.inc = doc.inc PROVE r.sound \/ Stale(in.ver, doc)
    BY <1>2, <1>3, <1>4, <1>5 DEF SeedOK, Fresh
  <1>. QED  BY <1>1, <1>2, <1>4, <1>5 DEF PassSound, TreeOK, Fresh

(* A parse that yields nothing claims nothing.                             *)
LEMMA ParseYieldsNothingSound ==
  ASSUME SoundInv, NEW p \in Pass, ParseYieldsNothing(p)
  PROVE  PassSound(pass'[p], doc', gram', reload', pool'.gen)
  <1>1. \E in : Move(p, NotParsed(in))
    BY DEF ParseYieldsNothing
  <1>2. PICK in : pass'[p] = NotParsed(in)
    BY <1>1, MoveIs DEF SoundInv
  <1>. QED  BY <1>2 DEF PassSound, NotParsed

(* A snapshot is as good as the tree it was made from.                     *)
LEMMA LatchSound ==
  ASSUME SoundInv, NEW p \in Pass, Latch(p)
  PROVE  PassSound(pass'[p], doc', gram', reload', pool'.gen)
  <1>. DEFINE s == SnapshotOf(p)
  <1>1. /\ pass[p].pc = "parsed" /\ pass[p].tree
        /\ doc' = doc /\ gram' = gram /\ reload' = reload /\ pool' = pool
        /\ \E pc \in {"single", "first"} :
             Move(p, [pc |-> pc, in |-> pass[p].in, check |-> CheckOf(pass[p].in), snap |-> s])
    BY DEF Latch, Unchanged
  <1>2. pass'[p].pc \in {"single", "first"} /\ pass'[p].snap = s
    BY <1>1, MoveIs DEF SoundInv
  <1>3. /\ s.tree = pass[p].tree /\ s.inc = pass[p].in.inc /\ s.ver = pass[p].in.ver
        /\ s.gram = pass[p].gram /\ s.sound = pass[p].sound
    BY <1>1 DEF SnapshotOf
  <1>. HIDE DEF s
  <1>4. TreeOK(s.inc, s.ver, s.gram, s.sound, doc, gram, reload)
    BY <1>1, <1>3 DEF SoundInv, SeedInv, PassSound
  <1>. QED  BY <1>1, <1>2, <1>3, <1>4 DEF PassSound

(* After its install a pass makes no claim, unless it has regions to add   *)

(* to what it published.                                                   *)
LEMMA AfterInstallSound ==
  ASSUME NEW r, NEW current, r.kind \in {"open", "latest", "installed"},
         NEW d, NEW gr, NEW rl, NEW gen
  PROVE  PassSound(AfterInstall(r, current), d, gr, rl, gen)
  <1>. DEFINE a == AfterInstall(r, current)
  <1>1. a.pc \in {"idle", "giveup", "attempt"}
    BY DEF AfterInstall, Idle
  <1>. HIDE DEF a
  <1>2. PassSound(a, d, gr, rl, gen)
    BY <1>1, NoClaim
  <1>. QED  BY <1>2 DEF a

(* A pass that waits for its regions holds what it published.              *)
LEMMA InstallsSound ==
  ASSUME SoundInv, [Next]_vars, NEW p \in Pass, InstallSingle(p) \/ InstallFirst(p) \/ Complete(p)
  PROVE  PassSound(pass'[p], doc', gram', reload', pool'.gen)
  <1>. DEFINE in == pass[p].in
              s == pass[p].snap
  <1>1. /\ pass[p].pc \in {"single", "first", "complete"}
        /\ \/ \E current : Move(p, AfterInstall(in, current))
           \/ \E check : Move(p, [pc |-> "complete", in |-> in, snap |-> s, check |-> check])
    BY DEF InstallSingle, InstallFirst, Complete
  <1>2. InputsOK(in, doc, opens) /\ SnapOK(s, doc, opens)
    BY <1>1, Before DEF SoundInv, PassOK
  <1>3. CASE \E current : Move(p, AfterInstall(in, current))
    <2>1. PICK current : pass'[p] = AfterInstall(in, current)
      BY <1>3, MoveIs DEF SoundInv
    <2>. QED  BY <1>2, <2>1, AfterInstallSound DEF InputsOK
  <1>4. CASE \E check : Move(p, [pc |-> "complete", in |-> in, snap |-> s, check |-> check])
    <2>1. pass'[p].pc = "complete" /\ pass'[p].snap = s
      BY <1>4, MoveIs DEF SoundInv
    <2>2. SnapSound(s, doc, gram, reload)
      BY <1>1 DEF SoundInv, SeedInv, PassSound, SnapSound
    <2>3. SnapSound(s, doc', gram', reload')
      BY <1>2, <2>2, SnapSoundKept DEF SoundInv
    <2>. QED  BY <2>1, <2>3 DEF PassSound, SnapSound
  <1>. QED  BY <1>1, <1>3, <1>4

(* Every step keeps what the passes claim.                                 *)
LEMMA SeedNextOK == ASSUME SoundInv, [Next]_vars PROVE SeedInv'
  <1>. SUFFICES ASSUME NEW q \in Pass
                PROVE  PassSound(pass'[q], doc', gram', reload', pool'.gen)
    BY DEF SeedInv
  <1>1. CASE pass'[q] = pass[q]
    <2>1. PassOK(pass[q], doc, opens, loaded)
      BY Before DEF SoundInv
    <2>2. PassSound(pass[q], doc, gram, reload, pool.gen)
      BY DEF SoundInv, SeedInv
    <2>. QED  BY <1>1, <2>1, <2>2, PassSoundKept DEF SoundInv
  <1>2. ASSUME NEW p \in Pass, NEW rec, Move(p, rec), pass'[q] # pass[q]
        PROVE  p = q /\ pass'[q] = rec
    BY <1>2, MoveIs DEF SoundInv
  <1>3. ASSUME NEW p \in Pass, NEW ls_label \in Lang \cup {NoLang},
               NEW says \in Lang \cup {NoLang}, NEW auto \in BOOLEAN,
               DidOpen(p, ls_label, says, auto), pass'[q] # pass[q]
        PROVE  PassSound(pass'[q], doc', gram', reload', pool'.gen)
    <2>1. \E rec : rec.pc \in {"install", "open"} /\ Move(p, rec)
      <3>. DEFINE install(l) == [pc |-> "install", inc |-> opens + 1, lang |-> l]
                  open == [pc |-> "open", inc |-> opens + 1, label |-> ls_label]
      <3>1. (\E l : Move(p, install(l))) \/ Move(p, open)
        BY <1>3 DEF DidOpen, Move
      <3>2. (\A l : install(l).pc = "install") /\ open.pc = "open"
        OBVIOUS
      <3>. HIDE DEF install, open
      <3>. QED  BY <3>1, <3>2
    <2>2. pass'[q].pc \in {"install", "open"}
      BY <1>2, <1>3, <2>1
    <2>. QED  BY <2>2, NoClaim
  <1>4. ASSUME NEW p \in Pass, PassStep(p), pass'[q] # pass[q]
        PROVE  PassSound(pass'[q], doc', gram', reload', pool'.gen)
    <2>1. CASE InstallFails(p) \/ InstallSucceeds(p) \/ ResolveInstalled(p) \/ GiveUp(p)
               \/ FinishWithoutTree(p)
      <3>1. \E rec : rec.pc \in {"idle", "installed", "attempt", "giveup"} /\ Move(p, rec)
        BY <2>1 DEF InstallFails, InstallSucceeds, ResolveInstalled, GiveUp,
                    FinishWithoutTree, Idle
      <3>2. pass'[q].pc \in {"idle", "installed", "attempt", "giveup"}
        BY <1>2, <1>4, <3>1
      <3>. QED  BY <3>2, NoClaim
    <2>2. CASE CaptureForOpen(p) \/ CaptureAttempt(p)
      <3>1. \/ \E kind, lang, label, left : Move(p, Captured(kind, lang, label, NoSeed, left))
            \/ \E rec : rec.pc \in {"idle", "giveup"} /\ Move(p, rec)
        <4>1. CASE CaptureForOpen(p)
          BY <4>1 DEF CaptureForOpen, Idle
        <4>2. CASE CaptureAttempt(p)
          <5>1. \/ Move(p, Captured("installed", pass[p].lang, pass[p].label, NoSeed,
                                    pass[p].left - 1))
                \/ Move(p, [pc |-> "giveup", inc |-> pass[p].inc])
            BY <4>2 DEF CaptureAttempt
          <5>. QED  BY <5>1
        <4>. QED  BY <2>2, <4>1, <4>2
      <3>2. \/ \E kind, lang, label, left : pass'[q] = Captured(kind, lang, label, NoSeed, left)
            \/ pass'[q].pc \in {"idle", "giveup"}
        BY <1>2, <1>4, <3>1
      <3>. QED  BY <3>2, SeedlessSound, NoClaim
    <2>3. p = q
      <3>1. \E rec : Move(p, rec)
        BY <1>4 DEF PassStep, CaptureForOpen, CaptureLatest, InstallFails, InstallSucceeds,
                    ResolveInstalled, CaptureAttempt, AcquireParser, ReleaseParser,
                    RetryParse, ParseYieldsNothing, FinishWithoutTree, Latch,
                    InstallSingle, InstallFirst, Complete, GiveUp
      <3>. QED  BY <1>2, <1>4, <3>1
    <2>. QED  BY <1>4, <2>1, <2>2, <2>3, CaptureLatestSound, AcquireParserSound,
                 ReleaseParserSound, RetryParseSound, ParseYieldsNothingSound, LatchSound,
                 InstallsSound DEF PassStep
  <1>5. CASE ReloadBegins \/ ReloadSwapsGrammars \/ ReloadInvalidates \/ ReloadFinishes
             \/ DidClose \/ (\E says \in Lang \cup {NoLang} : DidChange(says))
             \/ UNCHANGED vars
    BY <1>1, <1>5 DEF ReloadBegins, ReloadSwapsGrammars, ReloadInvalidates, ReloadFinishes,
                      DidClose, DidChange, vars
  <1>. QED  BY <1>1, <1>3, <1>4, <1>5 DEF Next

(* At first there is nothing to be wrong.                                  *)
LEMMA SoundInit == Init => SoundInv
  BY InitOK DEF Init, SoundInv, PoolInv, LogInv, SnapInv, SeedInv, PassSound, Idle, Closed

(* The invariant holds throughout.                                         *)
THEOREM SoundInvariant == Spec => []SoundInv
  <1>1. SoundInv /\ [Next]_vars => SoundInv'
    BY NextOK, PoolOK, LogNextOK, SnapNextOK, SeedNextOK DEF SoundInv
  <1>. QED  BY <1>1, SoundInit, PTL DEF Spec

(* Every published tree was parsed from scratch, or from a sound tree of   *)
(* its grammar with exactly the edits since replayed; and no tree of a     *)
(* replaced grammar is published, once the reload has invalidated the      *)
(* document.                                                               *)
THEOREM TreesAreSoundHolds == Spec => []TreesAreSound
  <1>1. SoundInv => NoCorruptTree
    BY DEF SoundInv, SnapInv, NoCorruptTree, IsOpen, HasSnap
  <1>2. SoundInv => GrammarIsCurrent
    BY DEF SoundInv, SnapInv, GrammarIsCurrent, IsOpen, HasSnap
  <1>3. SoundInv => TreesAreSound
    BY <1>1, <1>2 DEF TreesAreSound
  <1>. QED  BY <1>3, SoundInvariant, PTL
-----------------------------------------------------------------------------
(***************************************************************************)
(* Types.  What is in flight carries the document's labels, versions and   *)
(* grammars, and a snapshot's regions are a pass's own.                    *)
(***************************************************************************)

Grams == 0..MaxReloads

InputsFit(in) ==
  /\ in.inc \in 1..MaxOpens /\ in.ver \in Nat /\ in.text \in Nat /\ in.lang \in Labels
  /\ in.kind = "installed" => in.lang \in Lang

PassFits(p, r) ==
  /\ r.pc \in {"install", "installed", "attempt"} => r.lang \in Lang
  /\ r.pc = "captured" => InputsFit(r)
  /\ r.pc \in {"parsing", "parsed", "single", "first", "complete"} => InputsFit(r.in)
  /\ r.pc = "parsing" => r.gram \in Grams
  /\ r.pc = "parsed" =>
       r.tree \in BOOLEAN /\ (r.tree => r.gram \in Grams /\ r.sound \in BOOLEAN)
  /\ r.pc \in {"single", "first", "complete"} => SnapshotType(r.snap) /\ r.snap.by = p

DocFits(d) ==
  d.inc # 0 => /\ d.label \in Labels /\ d.says \in Labels
               /\ d.snap # NoSnap => SnapshotType(d.snap)

(* The inductive invariant, with SoundInv. *)
FitInv ==
  /\ opens <= MaxOpens
  /\ loaded \subseteq Lang
  /\ gram \in Grams /\ (reload = "begun" => gram < MaxReloads)
  /\ pool \in [gen : Nat, reloading : BOOLEAN]
  /\ DocFits(doc)
  /\ \A p \in Pass : PassFits(p, pass[p])

(* What fits the type when it is made.                                     *)
LEMMA SnapMade ==
  ASSUME NEW by \in Pass \cup {"giveup", "reload"}, NEW inc \in 1..MaxOpens, NEW ver \in Nat, NEW text \in Nat,
         NEW lang \in Labels, NEW tree \in BOOLEAN, NEW sound \in BOOLEAN, NEW g \in Grams,
         NEW regions \in Pass \cup {NoLang}
  PROVE  SnapshotType([by |-> by, inc |-> inc, ver |-> ver, text |-> text, lang |-> lang,
                       tree |-> tree, sound |-> sound, gram |-> g, regions |-> regions])
  BY DEF SnapshotType, Labels, Grams

(* The version that wrote a text is a number.                              *)
LEMMA TextIsNat ==
  ASSUME NEW d, LogOK(d), d.ver \in Nat
  PROVE  TextOf(d, d.ver) \in Nat /\ TextOf(d, d.ver + 1) \in Nat
  <1>1. \A w \in d.edited \cup d.replaced : w \in Nat /\ w <= d.ver
    BY DEF LogOK
  <1>2. Writes(d, d.ver + 1) = Writes(d, d.ver) /\ HasLatest(Writes(d, d.ver))
    BY <1>1 DEF LogOK, Writes
  <1>3. LastOf(Writes(d, d.ver)) \in Nat
    <2>1. Writes(d, d.ver) = {} => LastOf(Writes(d, d.ver)) = 0
      BY DEF LastOf
    <2>2. Writes(d, d.ver) # {} => LastOf(Writes(d, d.ver)) \in Writes(d, d.ver)
      BY <1>2, LastOfIs
    <2> QED
      BY <1>1, <2>1, <2>2 DEF Writes
  <1> QED
    BY <1>2, <1>3, TextIsLatest

(* The open document's numbers.                                            *)
LEMMA OpenFits ==
  ASSUME SoundInv, FitInv, doc.inc # 0
  PROVE  /\ IsDoc(doc) /\ doc.inc \in 1..MaxOpens /\ doc.ver \in Nat
         /\ TextOf(doc, doc.ver) \in Nat /\ TextOf(doc, doc.ver + 1) \in Nat
         /\ doc.label \in Labels /\ doc.says \in Labels
         /\ doc.snap # NoSnap => SnapshotType(doc.snap)
  <1>1. IsDoc(doc) /\ doc.inc \in 1..opens /\ doc.ver \in Nat /\ opens \in Nat /\ opens <= MaxOpens
    BY DEF SoundInv, StoreInv, DocOK, Closed, FitInv
  <1>2. LogOK(doc)
    BY DEF SoundInv, LogInv
  <1> QED
    BY <1>1, <1>2, TextIsNat, StoreAssumption DEF FitInv, DocFits

LEMMA DetectFits ==
  ASSUME FitInv, NEW label, NEW says
  PROVE  Detect(label, says) \in loaded \cup {NoLang} /\ Detect(label, says) \in Labels
  BY DEF Detect, FitInv, Labels

(* A pass's snapshot.                                                      *)
LEMMA SnapshotOfFits ==
  ASSUME FitInv, NEW p \in Pass, pass[p].pc = "parsed"
  PROVE  SnapshotType(SnapshotOf(p)) /\ SnapshotOf(p).by = p
  <1>1. PassFits(p, pass[p]) /\ gram \in Grams
    BY DEF FitInv
  <1>2. InputsFit(pass[p].in) /\ pass[p].tree \in BOOLEAN
    BY <1>1 DEF PassFits
  <1>3. pass[p].tree => pass[p].gram \in Grams /\ pass[p].sound \in BOOLEAN
    BY <1>1 DEF PassFits
  <1>4. PICK g : g = IF pass[p].tree THEN pass[p].gram ELSE gram
    OBVIOUS
  <1>5. PICK sound : sound = IF pass[p].tree THEN pass[p].sound ELSE TRUE
    OBVIOUS
  <1>6. g \in Grams
    BY <1>1, <1>3, <1>4
  <1>7. sound \in BOOLEAN
    BY <1>3, <1>5
  <1>8. PICK s : s = [by |-> p, inc |-> pass[p].in.inc, ver |-> pass[p].in.ver, text |-> pass[p].in.text,
                      lang |-> pass[p].in.lang, tree |-> pass[p].tree, sound |-> sound, gram |-> g,
                      regions |-> NoLang]
    OBVIOUS
  <1>9. SnapshotOf(p) = s
    BY <1>4, <1>5, <1>8, Zenon DEF SnapshotOf
  <1>10. SnapshotType(s)
    BY <1>2, <1>6, <1>7, <1>8, SnapMade, Zenon DEF InputsFit
  <1>11. s.by = p
    BY <1>8
  <1> QED
    BY <1>9, <1>10, <1>11

-----------------------------------------------------------------------------
(* The document.                                                           *)
LEMMA InstallFits ==
  ASSUME SoundInv, FitInv, doc.inc # 0, NEW check, NEW s, SnapshotType(s), doc' = InstallParse(doc, check, s)
  PROVE  DocFits(doc')
  <1>1. CASE ~InstallAdmitted(doc, check, s)
    BY <1>1 DEF InstallParse, FitInv
  <1>2. CASE InstallAdmitted(doc, check, s)
    <2>1. PICK label : label = IF s.ver = doc.ver /\ check.kind # "Expect" THEN s.lang ELSE doc.label
      OBVIOUS
    <2>2. doc' = [doc EXCEPT !.snap = s, !.label = label]
      BY <1>2, <2>1 DEF InstallParse
    <2>3. IsDoc(doc) /\ doc.label \in Labels /\ doc.says \in Labels
      BY OpenFits
    <2>4. doc'.snap = s /\ doc'.label = label /\ doc'.says = doc.says
      BY <2>2, <2>3 DEF IsDoc
    <2>5. label \in Labels
      BY <2>1, <2>3 DEF SnapshotType, Labels
    <2> QED
      BY <2>3, <2>4, <2>5 DEF DocFits
  <1> QED
    BY <1>1, <1>2

LEMMA CompleteFits ==
  ASSUME SoundInv, FitInv, doc.inc # 0, NEW check, NEW p \in Pass, NEW s, SnapshotType(s), IsSnap(s), s.by = p,
         doc' = CompleteParse(doc, check, s)
  PROVE  DocFits(doc')
  <1>1. CASE doc' = doc
    BY <1>1 DEF FitInv
  <1>2. CASE doc' = [doc EXCEPT !.snap = [s EXCEPT !.regions = s.by]]
    <2>1. PICK s2 : s2 = [s EXCEPT !.regions = p]
      OBVIOUS
    <2>2. s2 = [by |-> s.by, inc |-> s.inc, ver |-> s.ver, text |-> s.text, lang |-> s.lang,
                tree |-> s.tree, sound |-> s.sound, gram |-> s.gram, regions |-> p]
      BY <2>1 DEF IsSnap
    <2>3. SnapshotType(s2)
      <3>1. /\ s2.by = s.by /\ s2.inc = s.inc /\ s2.ver = s.ver /\ s2.text = s.text /\ s2.lang = s.lang
            /\ s2.tree = s.tree /\ s2.sound = s.sound /\ s2.gram = s.gram /\ s2.regions = p
        BY <2>2
      <3>2. s2.tree \in BOOLEAN /\ s2.sound \in BOOLEAN
        BY <3>1, Zenon DEF SnapshotType
      <3>3. /\ s2.by \in Pass \cup {"giveup", "reload"} /\ s2.inc \in 1..MaxOpens /\ {s2.ver, s2.text} \subseteq Nat
            /\ s2.lang \in Lang \cup {NoLang} /\ s2.gram \in 0..MaxReloads /\ s2.regions \in Pass \cup {NoLang}
        BY <3>1 DEF SnapshotType
      <3> QED
        BY <3>2, <3>3, Zenon DEF SnapshotType
    <2>4. IsDoc(doc) /\ doc.label \in Labels /\ doc.says \in Labels
      BY OpenFits
    <2>5. doc' = [doc EXCEPT !.snap = s2]
      BY <1>2, <2>1
    <2>6. doc'.snap = s2 /\ doc'.label = doc.label /\ doc'.says = doc.says
      BY <2>4, <2>5 DEF IsDoc
    <2> QED
      BY <2>3, <2>4, <2>6 DEF DocFits
  <1> QED
    BY <1>1, <1>2 DEF CompleteParse

LEMMA TreelessFits ==
  ASSUME SoundInv, FitInv, doc.inc # 0,
         \/ doc' = InvalidateParse(doc)
         \/ doc' = [doc EXCEPT !.snap = GiveUpSnapshot(doc)]
  PROVE  DocFits(doc')
  <1>1. gram \in Grams
    BY DEF FitInv
  <1>2. CASE doc' = InvalidateParse(doc)
    <2>1. PICK s : s = [by |-> "reload", inc |-> doc.inc, ver |-> doc.ver + 1, text |-> TextOf(doc, doc.ver + 1),
                        lang |-> doc.label, tree |-> FALSE, sound |-> TRUE, gram |-> gram, regions |-> NoLang]
      OBVIOUS
    <2>2. doc' = [doc EXCEPT !.ver = doc.ver + 1, !.log = {}, !.floor = doc.ver + 1, !.snap = s]
      BY <1>2, <2>1 DEF InvalidateParse
    <2>3. doc.ver + 1 \in Nat
      BY OpenFits
    <2>4. SnapshotType(s)
      BY <1>1, <2>1, <2>3, OpenFits, SnapMade, Zenon
    <2>5. doc'.snap = s /\ doc'.label = doc.label /\ doc'.says = doc.says
      BY <2>2, OpenFits DEF IsDoc
    <2> QED
      BY <2>4, <2>5, OpenFits DEF DocFits
  <1>3. CASE doc' = [doc EXCEPT !.snap = GiveUpSnapshot(doc)]
    <2>1. PICK s : s = GiveUpSnapshot(doc)
      OBVIOUS
    <2>2. SnapshotType(s)
      BY <1>1, <2>1, OpenFits, SnapMade, Zenon DEF GiveUpSnapshot
    <2>3. doc'.snap = s /\ doc'.label = doc.label /\ doc'.says = doc.says
      BY <1>3, <2>1, OpenFits DEF IsDoc
    <2> QED
      BY <2>2, <2>3, OpenFits DEF DocFits
  <1> QED
    BY <1>2, <1>3

LEMMA DocFitsNext ==
  ASSUME SoundInv, FitInv, [Next]_vars
  PROVE  DocFits(doc')
  <1>1. CASE doc' = doc \/ doc' = Closed
    BY <1>1 DEF DocFits, Closed, FitInv
  <1>2. ASSUME NEW label \in Labels, NEW says \in Labels, doc' = NewDocument(opens + 1, label, says)
        PROVE  DocFits(doc')
    BY <1>2 DEF NewDocument, DocFits
  <1>3. ASSUME doc.inc # 0, NEW says \in Labels, doc' \in {ApplyEdit(doc, says), ReplaceText(doc, says)}
        PROVE  DocFits(doc')
    <2>1. IsDoc(doc)
      BY <1>3, OpenFits
    <2>2. doc'.label = doc.label /\ doc'.snap = doc.snap /\ doc'.says = says
      <3>1. CASE doc' = ApplyEdit(doc, says)
        BY <2>1, <3>1 DEF ApplyEdit, IsDoc
      <3>2. CASE doc' = ReplaceText(doc, says)
        BY <2>1, <3>2 DEF ReplaceText, IsDoc
      <3> QED
        BY <1>3, <3>1, <3>2
    <2> QED
      BY <1>3, <2>2, OpenFits DEF DocFits
  <1>4. ASSUME NEW p \in Pass, pass[p].pc \in {"single", "first", "complete"}
        PROVE  SnapshotType(pass[p].snap) /\ IsSnap(pass[p].snap) /\ pass[p].snap.by = p
    <2>1. PassFits(p, pass[p]) /\ PassOK(pass[p], doc, opens, loaded)
      BY DEF FitInv, SoundInv, StoreInv
    <2> QED
      BY <1>4, <2>1 DEF PassFits, PassOK, SnapOK
  <1>5. DocStep
    BY DocSteps
  <1> QED
    BY <1>1, <1>2, <1>3, <1>4, <1>5, InstallFits, CompleteFits, TreelessFits, SnapshotOfFits DEF DocStep


-----------------------------------------------------------------------------
(* The passes.  Only the pass that moves can cease to fit.                 *)
LEMMA MoveFits ==
  ASSUME SoundInv, FitInv, NEW p \in Pass, NEW rec, pass' = [pass EXCEPT ![p] = rec], PassFits(p, rec)
  PROVE  \A q \in Pass : PassFits(q, pass'[q])
  <1>1. pass'[p] = rec /\ \A q \in Pass : q # p => pass'[q] = pass[q]
    BY DEF SoundInv, StoreInv
  <1>2. \A q \in Pass : PassFits(q, pass[q])
    BY DEF FitInv
  <1> QED
    BY <1>1, <1>2

(* What is captured of the open document fits.                             *)
LEMMA CaptureFits ==
  ASSUME SoundInv, FitInv, doc.inc # 0, NEW p \in Pass,
         NEW kind \in {"open", "latest", "installed"}, NEW lang \in Labels, kind = "installed" => lang \in Lang,
         NEW label, NEW seed, NEW left
  PROVE  PassFits(p, Captured(kind, lang, label, seed, left))
  <1>1. PICK r : r = Captured(kind, lang, label, seed, left)
    OBVIOUS
  <1>2. /\ r.pc = "captured" /\ r.kind = kind /\ r.inc = doc.inc /\ r.ver = doc.ver
        /\ r.text = TextOf(doc, doc.ver) /\ r.lang = lang
    BY <1>1 DEF Captured
  <1>3. PassFits(p, r)
    BY <1>2, OpenFits DEF PassFits, InputsFit
  <1> QED
    BY <1>1, <1>3

(* A pass without language, inputs or snapshot fits.                       *)
LEMMA BareFits ==
  ASSUME NEW p, NEW r, r.pc \in {"idle", "open", "giveup"}
  PROVE  PassFits(p, r)
  BY DEF PassFits

LEMMA CapturesFit ==
  ASSUME SoundInv, FitInv, NEW p \in Pass, CaptureForOpen(p) \/ CaptureLatest(p) \/ CaptureAttempt(p)
  PROVE  \A q \in Pass : PassFits(q, pass'[q])
  <1>1. PassFits(p, pass[p])
    BY DEF FitInv
  <1>2. CASE CaptureForOpen(p)
    <2>1. PICK lang \in Labels : lang = Detect(pass[p].label, doc.says)
      BY DetectFits
    <2>2. PICK rec : /\ pass' = [pass EXCEPT ![p] = rec]
                     /\ rec = IF IsOpen /\ doc.inc = pass[p].inc THEN Captured("open", lang, doc.label, NoSeed, 0) ELSE Idle
      BY <1>2, <2>1 DEF CaptureForOpen, Move
    <2>3. PassFits(p, rec)
      <3>1. CASE IsOpen
        BY <2>2, <3>1, CaptureFits, BareFits DEF Idle, IsOpen
      <3>2. CASE ~IsOpen
        BY <2>2, <3>2, BareFits DEF Idle
      <3> QED
        BY <3>1, <3>2
    <2> QED
      BY <2>2, <2>3, MoveFits
  <1>3. CASE CaptureLatest(p)
    <2>1. PICK lang \in Labels : lang = Detect(doc.label, doc.says)
      BY DetectFits
    <2>2. PICK rec : pass' = [pass EXCEPT ![p] = rec] /\ rec = Captured("latest", lang, doc.label, IncrementalSeed(doc, lang), 0)
      BY <1>3, <2>1 DEF CaptureLatest, Move
    <2>3. PassFits(p, rec)
      BY <1>3, <2>2, CaptureFits DEF CaptureLatest, IsOpen
    <2> QED
      BY <2>2, <2>3, MoveFits
  <1>4. CASE CaptureAttempt(p)
    <2>1. pass[p].lang \in Lang /\ pass[p].lang \in Labels
      BY <1>1, <1>4 DEF CaptureAttempt, PassFits, Labels
    <2>2. PICK rec : /\ pass' = [pass EXCEPT ![p] = rec]
                     /\ rec = IF IsOpen /\ doc.inc = pass[p].inc /\ ~HasCurrentTree(doc) /\ pass[p].left > 0
                                THEN Captured("installed", pass[p].lang, pass[p].label, NoSeed, pass[p].left - 1)
                                ELSE [pc |-> "giveup", inc |-> pass[p].inc]
      BY <1>4 DEF CaptureAttempt, Move
    <2>3. PassFits(p, rec)
      <3>1. CASE rec = [pc |-> "giveup", inc |-> pass[p].inc]
        BY <3>1, BareFits
      <3>2. CASE IsOpen /\ rec = Captured("installed", pass[p].lang, pass[p].label, NoSeed, pass[p].left - 1)
        BY <2>1, <3>2, CaptureFits DEF IsOpen
      <3> QED
        BY <2>2, <3>1, <3>2
    <2> QED
      BY <2>2, <2>3, MoveFits
  <1> QED
    BY <1>2, <1>3, <1>4

LEMMA InstallerFits ==
  ASSUME SoundInv, FitInv, NEW p \in Pass, InstallFails(p) \/ InstallSucceeds(p) \/ ResolveInstalled(p) \/ GiveUp(p)
  PROVE  \A q \in Pass : PassFits(q, pass'[q])
  <1>1. PassFits(p, pass[p])
    BY DEF FitInv
  <1>2. CASE InstallFails(p) \/ GiveUp(p)
    <2>1. PICK rec : pass' = [pass EXCEPT ![p] = rec] /\ rec = Idle
      BY <1>2 DEF InstallFails, GiveUp, Move
    <2>2. PassFits(p, rec)
      BY <2>1, BareFits DEF Idle
    <2> QED
      BY <2>1, <2>2, MoveFits
  <1>3. CASE InstallSucceeds(p)
    <2>1. PICK rec : /\ pass' = [pass EXCEPT ![p] = rec]
                     /\ rec = [pc |-> "installed", inc |-> pass[p].inc, lang |-> pass[p].lang]
      BY <1>3 DEF InstallSucceeds, Move
    <2>2. PassFits(p, rec)
      BY <1>1, <1>3, <2>1 DEF PassFits, InstallSucceeds
    <2> QED
      BY <2>1, <2>2, MoveFits
  <1>4. CASE ResolveInstalled(p)
    <2>1. PICK lang : lang = Detect(doc.label, doc.says)
      OBVIOUS
    <2>2. lang # NoLang => lang \in Lang
      BY <2>1, DetectFits DEF FitInv
    <2>3. PICK rec : /\ pass' = [pass EXCEPT ![p] = rec]
                     /\ \/ rec = Idle
                        \/ lang # NoLang /\ rec = [pc |-> "attempt", inc |-> pass[p].inc, lang |-> lang,
                                                   label |-> doc.label, left |-> MaxInstallAttempts]
      BY <1>4, <2>1 DEF ResolveInstalled, Move
    <2>4. PassFits(p, rec)
      BY <2>2, <2>3, BareFits DEF PassFits, Idle
    <2> QED
      BY <2>3, <2>4, MoveFits
  <1> QED
    BY <1>2, <1>3, <1>4

LEMMA ParsesFit ==
  ASSUME SoundInv, FitInv, NEW p \in Pass,
         AcquireParser(p) \/ ReleaseParser(p) \/ RetryParse(p) \/ ParseYieldsNothing(p)
  PROVE  \A q \in Pass : PassFits(q, pass'[q])
  <1>1. PassFits(p, pass[p]) /\ gram \in Grams
    BY DEF FitInv
  <1>2. ASSUME NEW in, InputsFit(in), NEW rec, pass' = [pass EXCEPT ![p] = rec], rec = NotParsed(in)
        PROVE  \A q \in Pass : PassFits(q, pass'[q])
    <2>1. rec.pc = "parsed" /\ rec.in = in /\ rec.tree = FALSE
      BY <1>2 DEF NotParsed
    <2>2. PassFits(p, rec)
      BY <1>2, <2>1 DEF PassFits
    <2> QED
      BY <1>2, <2>2, MoveFits
  <1>3. ASSUME NEW in, InputsFit(in), NEW gen, NEW retry, NEW rec, pass' = [pass EXCEPT ![p] = rec],
               rec = [pc |-> "parsing", in |-> in, gen |-> gen, gram |-> gram, retry |-> retry]
        PROVE  \A q \in Pass : PassFits(q, pass'[q])
    <2>1. rec.pc = "parsing" /\ rec.in = in /\ rec.gram = gram
      BY <1>3
    <2>2. PassFits(p, rec)
      BY <1>1, <1>3, <2>1 DEF PassFits
    <2> QED
      BY <1>3, <2>2, MoveFits
  <1>4. CASE AcquireParser(p)
    <2>1. /\ InputsFit(pass[p])
          /\ pass' = [pass EXCEPT ![p] = [pc |-> "parsing", in |-> pass[p], gen |-> pool.gen, gram |-> gram, retry |-> FALSE]]
      BY <1>1, <1>4 DEF AcquireParser, Move, PassFits
    <2> QED
      BY <1>3, <2>1
  <1>5. CASE RetryParse(p)
    <2>1. /\ InputsFit(pass[p].in)
          /\ \/ pass' = [pass EXCEPT ![p] = NotParsed(pass[p].in)]
             \/ pass' = [pass EXCEPT ![p] = [pc |-> "parsing", in |-> pass[p].in, gen |-> pool.gen, gram |-> gram, retry |-> TRUE]]
      BY <1>1, <1>5 DEF RetryParse, Move, PassFits
    <2> QED
      BY <1>2, <1>3, <2>1
  <1>6. CASE ParseYieldsNothing(p)
    <2>1. \/ InputsFit(pass[p]) /\ pass' = [pass EXCEPT ![p] = NotParsed(pass[p])]
          \/ InputsFit(pass[p].in) /\ pass' = [pass EXCEPT ![p] = NotParsed(pass[p].in)]
      BY <1>1, <1>6 DEF ParseYieldsNothing, Move, PassFits
    <2> QED
      BY <1>2, <2>1
  <1>7. CASE ReleaseParser(p)
    <2>1. InputsFit(pass[p].in) /\ pass[p].gram \in Grams
      BY <1>1, <1>7 DEF ReleaseParser, PassFits
    <2>2. PICK seed : pass' = [pass EXCEPT ![p] = Parsed(pass[p].in, seed, pass[p].gram)]
      BY <1>7 DEF ReleaseParser, Move
    <2>3. PICK sound \in BOOLEAN :
            sound = (seed.tree => seed.sound /\ seed.gram = pass[p].gram /\ seed.lang = pass[p].in.lang)
      BY Zenon
    <2>4. PICK rec : /\ pass' = [pass EXCEPT ![p] = rec]
                     /\ rec = [pc |-> "parsed", in |-> pass[p].in, gram |-> pass[p].gram, tree |-> TRUE, sound |-> sound]
      BY <2>2, <2>3, Zenon DEF Parsed
    <2>5. rec.pc = "parsed" /\ rec.in = pass[p].in /\ rec.gram = pass[p].gram /\ rec.tree = TRUE
      BY <2>4
    <2>6. rec.sound \in BOOLEAN
      BY <2>3, <2>4, Zenon
    <2>7. PassFits(p, rec)
      BY <2>1, <2>5, <2>6 DEF PassFits
    <2> QED
      BY <2>4, <2>7, MoveFits
  <1> QED
    BY <1>4, <1>5, <1>6, <1>7

(* What follows a pass's install fits.                                     *)
LEMMA AfterFits ==
  ASSUME NEW p, NEW r, InputsFit(r), r.kind \in {"open", "latest", "installed"}, NEW current
  PROVE  PassFits(p, AfterInstall(r, current))
  <1>1. CASE r.kind \in {"open", "latest"}
    <2>1. AfterInstall(r, current) \in {Idle, [pc |-> "giveup", inc |-> r.inc]}
      BY <1>1 DEF AfterInstall
    <2> QED
      BY <2>1, BareFits DEF Idle
  <1>2. CASE r.kind = "installed"
    <2>1. AfterInstall(r, current) \in
            {[pc |-> "giveup", inc |-> r.inc],
             [pc |-> "attempt", inc |-> r.inc, lang |-> r.lang, label |-> r.label, left |-> r.left]}
      BY <1>2 DEF AfterInstall
    <2>2. r.lang \in Lang
      BY <1>2 DEF InputsFit
    <2> QED
      BY <2>1, <2>2, BareFits DEF PassFits
  <1> QED
    BY <1>1, <1>2

LEMMA InstallsFit ==
  ASSUME SoundInv, FitInv, NEW p \in Pass,
         FinishWithoutTree(p) \/ Latch(p) \/ InstallSingle(p) \/ InstallFirst(p) \/ Complete(p)
  PROVE  \A q \in Pass : PassFits(q, pass'[q])
  <1>1. PassFits(p, pass[p]) /\ PassOK(pass[p], doc, opens, loaded)
    BY DEF FitInv, SoundInv, StoreInv
  <1>2. ASSUME pass[p].pc \in {"parsed", "single", "first", "complete"}
        PROVE  InputsFit(pass[p].in) /\ pass[p].in.kind \in {"open", "latest", "installed"}
    BY <1>1, <1>2 DEF PassFits, PassOK, InputsOK
  <1>3. ASSUME pass[p].pc \in {"single", "first", "complete"}
        PROVE  SnapshotType(pass[p].snap) /\ pass[p].snap.by = p
    BY <1>1, <1>3 DEF PassFits
  <1>4. ASSUME NEW pc \in {"single", "first", "complete"}, NEW check, NEW s, SnapshotType(s), s.by = p,
               InputsFit(pass[p].in), NEW rec, pass' = [pass EXCEPT ![p] = rec],
               rec = [pc |-> pc, in |-> pass[p].in, check |-> check, snap |-> s]
        PROVE  \A q \in Pass : PassFits(q, pass'[q])
    <2>1. rec.pc = pc /\ rec.in = pass[p].in /\ rec.snap = s
      BY <1>4
    <2>2. PassFits(p, rec)
      BY <1>4, <2>1 DEF PassFits
    <2> QED
      BY <1>4, <2>2, MoveFits
  <1>5. CASE FinishWithoutTree(p)
    <2>1. PICK rec : pass' = [pass EXCEPT ![p] = rec] /\ rec \in {Idle, [pc |-> "giveup", inc |-> pass[p].in.inc]}
      BY <1>5 DEF FinishWithoutTree, Move
    <2>2. PassFits(p, rec)
      BY <2>1, BareFits DEF Idle
    <2> QED
      BY <2>1, <2>2, MoveFits
  <1>6. CASE Latch(p)
    <2>1. pass[p].pc = "parsed"
      BY <1>6 DEF Latch
    <2>2. PICK s : s = SnapshotOf(p)
      OBVIOUS
    <2>3. SnapshotType(s) /\ s.by = p
      BY <2>1, <2>2, SnapshotOfFits
    <2>4. PICK pc \in {"single", "first"} :
            pass' = [pass EXCEPT ![p] = [pc |-> pc, in |-> pass[p].in, check |-> CheckOf(pass[p].in), snap |-> s]]
      BY <1>6, <2>2 DEF Latch, Move
    <2> QED
      BY <1>2, <1>4, <2>1, <2>3, <2>4
  <1>7. CASE InstallSingle(p) \/ Complete(p)
    <2>1. pass[p].pc \in {"single", "complete"} /\ \E current : pass' = [pass EXCEPT ![p] = AfterInstall(pass[p].in, current)]
      BY <1>7 DEF InstallSingle, Complete, Move
    <2> QED
      BY <1>2, <2>1, AfterFits, MoveFits
  <1>8. CASE InstallFirst(p)
    <2>1. pass[p].pc = "first"
      BY <1>8 DEF InstallFirst
    <2>2. \/ \E check : pass' = [pass EXCEPT ![p] = [pc |-> "complete", in |-> pass[p].in, snap |-> pass[p].snap, check |-> check]]
          \/ pass' = [pass EXCEPT ![p] = AfterInstall(pass[p].in, FALSE)]
      BY <1>8 DEF InstallFirst, Move
    <2>3. ASSUME NEW check, pass' = [pass EXCEPT ![p] = [pc |-> "complete", in |-> pass[p].in, snap |-> pass[p].snap, check |-> check]]
          PROVE  \A q \in Pass : PassFits(q, pass'[q])
      <3>1. PICK rec : /\ pass' = [pass EXCEPT ![p] = rec]
                       /\ rec = [pc |-> "complete", in |-> pass[p].in, check |-> check, snap |-> pass[p].snap]
        BY <2>3
      <3> QED
        BY <1>2, <1>3, <1>4, <2>1, <3>1
    <2>4. ASSUME pass' = [pass EXCEPT ![p] = AfterInstall(pass[p].in, FALSE)]
          PROVE  \A q \in Pass : PassFits(q, pass'[q])
      BY <1>2, <2>1, <2>4, AfterFits, MoveFits
    <2> QED
      BY <2>2, <2>3, <2>4
  <1> QED
    BY <1>5, <1>6, <1>7, <1>8

LEMMA DidOpenFits ==
  ASSUME SoundInv, FitInv, NEW p \in Pass, NEW ls_label \in Labels, NEW says \in Labels, NEW auto \in BOOLEAN,
         DidOpen(p, ls_label, says, auto)
  PROVE  \A q \in Pass : PassFits(q, pass'[q])
  <1>1. PICK rec : /\ pass' = [pass EXCEPT ![p] = rec]
                   /\ \/ \E label \in Lang : rec = [pc |-> "install", inc |-> opens + 1, lang |-> label]
                      \/ rec = [pc |-> "open", inc |-> opens + 1, label |-> ls_label]
    BY DEF DidOpen
  <1>2. PassFits(p, rec)
    BY <1>1, BareFits DEF PassFits
  <1> QED
    BY <1>1, <1>2, MoveFits

LEMMA PassesFit ==
  ASSUME SoundInv, FitInv, [Next]_vars
  PROVE  \A q \in Pass : PassFits(q, pass'[q])
  <1>1. CASE UNCHANGED pass
    BY <1>1 DEF FitInv
  <1>2. ASSUME NEW p \in Pass, PassStep(p)
        PROVE  \A q \in Pass : PassFits(q, pass'[q])
    BY <1>2, CapturesFit, InstallerFits, ParsesFit, InstallsFit DEF PassStep
  <1> QED
    BY <1>1, <1>2, DidOpenFits DEF Next, vars, DidChange, DidClose, ReloadBegins, ReloadSwapsGrammars,
       ReloadInvalidates, ReloadFinishes, Labels

-----------------------------------------------------------------------------
(* The counters: the bounds are the exploration's.                         *)
LEMMA CountersFit ==
  ASSUME SoundInv, FitInv, [Next]_vars
  PROVE  /\ opens' <= MaxOpens
         /\ loaded' \subseteq Lang
         /\ gram' \in Grams /\ (reload' = "begun" => gram' < MaxReloads)
         /\ pool' \in [gen : Nat, reloading : BOOLEAN]
  <1>1. opens \in Nat
    BY DEF SoundInv, StoreInv
  <1>2. /\ opens <= MaxOpens /\ loaded \subseteq Lang
        /\ gram \in Grams /\ (reload = "begun" => gram < MaxReloads)
    BY DEF FitInv
  <1>3. pool.gen \in Nat /\ pool \in [gen : Nat, reloading : BOOLEAN]
    BY Zenon DEF FitInv
  <1>4. opens' <= MaxOpens
    <2>1. opens' = opens \/ (opens < MaxOpens /\ opens' = opens + 1)
      BY DEF Next, vars, DidOpen, DidChange, DidClose, PassStep,
              ReloadBegins, ReloadSwapsGrammars, ReloadInvalidates, ReloadFinishes,
              CaptureForOpen, CaptureLatest, InstallFails, InstallSucceeds, ResolveInstalled, CaptureAttempt,
              AcquireParser, ReleaseParser, RetryParse, ParseYieldsNothing,
              FinishWithoutTree, Latch, InstallSingle, InstallFirst, Complete, GiveUp, Unchanged
    <2> QED
      BY <1>1, <1>2, <2>1, StoreAssumption
  <1>5. CASE UNCHANGED <<loaded, gram, pool, reload>>
    <2>1. pool' \in [gen : Nat, reloading : BOOLEAN]
      BY <1>3, <1>5, Zenon
    <2> QED
      BY <1>2, <1>4, <1>5, <2>1
  <1>6. CASE ReloadBegins \/ ReloadSwapsGrammars \/ ReloadInvalidates \/ ReloadFinishes
    <2>1. pool' \in [gen : Nat, reloading : BOOLEAN]
      <3>1. CASE pool' = pool
        BY <1>3, <3>1, Zenon
      <3>2. CASE \E r \in BOOLEAN : pool' = [gen |-> pool.gen + 1, reloading |-> r]
        BY <1>3, <3>2
      <3> QED
        BY <1>6, <3>1, <3>2 DEF ReloadBegins, ReloadSwapsGrammars, ReloadInvalidates, ReloadFinishes
    <2>2. loaded' = loaded /\ gram' \in Grams /\ (reload' = "begun" => gram' < MaxReloads)
      BY <1>2, <1>6, StoreAssumption DEF ReloadBegins, ReloadSwapsGrammars, ReloadInvalidates, ReloadFinishes, Grams
    <2> QED
      BY <1>4, <2>1, <2>2, <1>2
  <1>7. ASSUME NEW p \in Pass, InstallSucceeds(p)
        PROVE  loaded' \subseteq Lang /\ UNCHANGED <<gram, reload>> /\ pool' \in [gen : Nat, reloading : BOOLEAN]
    <2>1. pass[p].lang \in Lang
      BY <1>7 DEF InstallSucceeds, FitInv, PassFits
    <2> QED
      BY <1>2, <1>3, <1>7, <2>1 DEF InstallSucceeds
  <1>8. \/ UNCHANGED <<loaded, gram, pool, reload>>
        \/ ReloadBegins \/ ReloadSwapsGrammars \/ ReloadInvalidates \/ ReloadFinishes
        \/ \E p \in Pass : InstallSucceeds(p)
    BY DEF Next, vars, DidOpen, DidChange, DidClose, PassStep,
              CaptureForOpen, CaptureLatest, InstallFails, ResolveInstalled, CaptureAttempt,
              AcquireParser, ReleaseParser, RetryParse, ParseYieldsNothing,
              FinishWithoutTree, Latch, InstallSingle, InstallFirst, Complete, GiveUp, Unchanged
  <1> QED
    BY <1>2, <1>4, <1>5, <1>6, <1>7, <1>8

LEMMA FitInit == Init => FitInv
  <1> SUFFICES ASSUME Init PROVE FitInv
    OBVIOUS
  <1>1. \A p \in Pass : PassFits(p, pass[p])
    BY BareFits DEF Init, Idle
  <1>2. DocFits(doc)
    BY DEF Init, DocFits, Closed
  <1> QED
    BY <1>1, <1>2, StoreAssumption DEF Init, FitInv, Grams

(* The types follow.                                                       *)
LEMMA TypesFollow == SoundInv /\ FitInv => TypeOK
  <1> SUFFICES ASSUME SoundInv, FitInv PROVE TypeOK
    OBVIOUS
  <1>1. opens \in 0..MaxOpens
    BY StoreAssumption DEF SoundInv, StoreInv, FitInv
  <1>2. IsOpen => DocumentType(doc)
    <2>1. CASE doc.inc # 0
      <3>1. LogOK(doc)
        BY <2>1 DEF SoundInv, LogInv
      <3> QED
        BY <2>1, <3>1, OpenFits DEF DocumentType, LogOK, Labels
    <2> QED
      BY <2>1 DEF IsOpen
  <1>3. ASSUME NEW p \in Pass PROVE PassType(pass[p])
    <2>1. PassOK(pass[p], doc, opens, loaded) /\ PassFits(p, pass[p])
      BY DEF SoundInv, StoreInv, FitInv
    <2>2. pass[p].pc \in {"open", "install", "installed", "attempt", "captured", "giveup"} => pass[p].inc \in 1..MaxOpens
      BY <1>1, <2>1, StoreAssumption DEF PassOK, PassFits, InputsFit
    <2> QED
      BY <2>1, <2>2 DEF PassOK, PassFits, PassType
  <1> QED
    BY <1>1, <1>2, <1>3 DEF TypeOK, SoundInv, PoolInv, FitInv, Grams

(* The document, its snapshot and the passes are well typed: what readers  *)
(* are served is of a lifetime, version, language and grammar there were,  *)
(* and its regions are a pass's (DocumentStore's TypeOK).                  *)
THEOREM TypeCorrect == Spec => []TypeOK
  <1>1. SoundInv /\ FitInv /\ [Next]_vars => FitInv'
    <2> SUFFICES ASSUME SoundInv, FitInv, [Next]_vars PROVE FitInv'
      OBVIOUS
    <2>1. DocFits(doc)'
      BY DocFitsNext DEF DocFits
    <2>2. (\A p \in Pass : PassFits(p, pass[p]))'
      BY PassesFit
    <2> QED
      BY <2>1, <2>2, CountersFit DEF FitInv
  <1>2. SoundInv /\ FitInv => TypeOK
    BY TypesFollow
  <1> QED
    BY <1>1, <1>2, FitInit, SoundInvariant, PTL DEF Spec
=============================================================================
