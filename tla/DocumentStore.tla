---------------------------- MODULE DocumentStore ----------------------------
(***************************************************************************)
(* One document of document/{store,model,snapshot}.rs, and the parse       *)
(* passes of lsp_impl/coordinator/parse.rs that publish into it.           *)
(*                                                                         *)
(* didOpen, didChange, didClose and a settings reload change the inputs;   *)
(* passes run beside them on copies of those inputs, any number at a time: *)
(* the open parse, the reparse of the latest text, and the reparse after   *)
(* an auto-install.  A pass captures the inputs, parses them on the        *)
(* compute pool (seeded with the published tree when it may be), installs  *)
(* a snapshot, and later adds the injection regions it resolved.  Nothing  *)
(* is locked in between: the cell's admission rule and the stamps on the   *)
(* snapshot are all that keep a reader from a wrong tree.                  *)
(*                                                                         *)
(* A text is known by the version that wrote it, a tree by what it was     *)
(* parsed from: `sound` is history, tree-sitter's incremental contract.    *)
(***************************************************************************)
EXTENDS Naturals, FiniteSets

CONSTANTS
  Pass,          \* slots for parse passes in flight
  Lang,          \* languages
  NoLang,        \* no language: unlabelled, or not detected
  Declared,      \* languages the settings name
  InitLoaded,    \* the sets of languages whose parser may be available at start
  MaxSeedEdits,  \* MAX_SEED_EDITS
  MaxInstallAttempts,  \* MAX_REPARSE_ATTEMPTS
  MaxOpens, MaxVersion, MaxReloads,   \* bounds of the exploration
  ParseMayFail   \* parses may time out, or panic

ASSUME StoreAssumption ==
  /\ NoLang \notin Lang
  /\ Declared \subseteq Lang /\ InitLoaded \subseteq SUBSET Lang
  /\ MaxSeedEdits \in Nat \ {0} /\ MaxInstallAttempts \in Nat \ {0}
  /\ MaxOpens \in Nat /\ MaxVersion \in Nat /\ MaxReloads \in Nat
  /\ ParseMayFail \in BOOLEAN

VARIABLES
  doc,      \* the document: Closed, or its inputs and its snapshot cell
  opens,    \* incarnations drawn so far
  pass,     \* pass[p]: what pass p is doing, and the inputs it captured
  loaded,   \* languages whose parser is available
  gram,     \* how many times the grammars were replaced
  pool,     \* the parser pool: [gen, reloading]
  reload    \* how far a settings reload is

vars == <<doc, opens, pass, loaded, gram, pool, reload>>

Closed == [inc |-> 0]
IsOpen == doc.inc # 0

\* No snapshot yet: SnapshotSlot::bootstrap.
NoSnap == [by |-> NoLang]
HasSnap == doc.snap # NoSnap

Idle == [pc |-> "idle"]

-----------------------------------------------------------------------------
(* Document *)

NewDocument(inc, label, says) ==
  [inc |-> inc, ver |-> 0, label |-> label, says |-> says,
   log |-> {}, floor |-> 0, snap |-> NoSnap,
   edited |-> {}, replaced |-> {}]

\* The version that wrote the text that version v of d has.
TextOf(d, v) ==
  LET writes == { w \in d.edited \cup d.replaced : w <= v }
  IN IF writes = {} THEN 0 ELSE CHOOSE w \in writes : \A x \in writes : x <= w

(* The snapshot's version when it is this lifetime's, else 0.              *)
PublishedParsedVersion(d) == IF d.snap = NoSnap THEN 0 ELSE d.snap.ver

(* Document::apply_edit with one InputEdit.                                *)
ApplyEdit(d, says) ==
  LET v == d.ver + 1
      log == { w \in d.log : w > PublishedParsedVersion(d) } \cup {v}
      full == Cardinality(log) > MaxSeedEdits
  IN [d EXCEPT !.ver = v, !.says = says, !.edited = @ \cup {v},
               !.log = IF full THEN {} ELSE log,
               !.floor = IF full THEN v ELSE @]

\* Mutant: the text is recorded under the version that follows it.
ReplaceTextNextVersion(d, says) ==
  LET v == d.ver + 1
  IN [d EXCEPT !.ver = v, !.says = says, !.replaced = @ \cup {v + 1},
               !.log = {}, !.floor = v]

(* Document::apply_edit without any: the client sent the whole text.       *)
ReplaceText(d, says) ==
  LET v == d.ver + 1
  IN [d EXCEPT !.ver = v, !.says = says, !.replaced = @ \cup {v},
               !.log = {}, !.floor = v]

\* Mutant: the version moves, and readers keep the old grammar's tree.
InvalidateKeepsTree(d) == [d EXCEPT !.ver = @ + 1, !.log = {}, !.floor = d.ver + 1]

(* Document::invalidate_parse: a tree-less snapshot of the bumped version  *)
(* takes the tree away; send_replace asks no admission.                    *)
InvalidateParse(d) ==
  LET v == d.ver + 1
  IN [d EXCEPT !.ver = v, !.log = {}, !.floor = v,
               !.snap = [by |-> "reload", inc |-> d.inc, ver |-> v,
                         text |-> TextOf(d, v), lang |-> d.label,
                         tree |-> FALSE, sound |-> TRUE, gram |-> gram,
                         regions |-> NoLang]]

(* Document::incremental_seed, and whether replaying it meets the          *)
(* incremental contract: the logged edits after the tree's version are     *)
(* exactly the changes between its text and the current one.               *)
NoSeed == [tree |-> FALSE]

\* Mutant: a detection that moved with the edit reuses the other grammar's tree.
MaySeedAnyLanguage(d, lang) ==
  /\ lang # NoLang /\ d.snap # NoSnap
  /\ d.snap.ver >= d.floor /\ d.snap.tree

\* Mutant: edits that were dropped from the log are forgotten.
MaySeedIgnoringFloor(d, lang) ==
  lang # NoLang /\ d.snap # NoSnap /\ d.snap.lang = lang /\ d.snap.tree

MaySeed(d, lang) ==
  /\ lang # NoLang /\ d.snap # NoSnap
  /\ d.snap.ver >= d.floor /\ d.snap.lang = lang /\ d.snap.tree

IncrementalSeed(d, lang) ==
  LET s == d.snap IN
  IF ~MaySeed(d, lang) THEN NoSeed
  ELSE [tree |-> TRUE, gram |-> s.gram, lang |-> s.lang,
        sound |-> /\ s.sound
                  /\ { w \in d.log : w > s.ver }
                       = { w \in d.edited \cup d.replaced : w > s.text }
                  /\ d.replaced \cap ((s.text + 1)..d.ver) = {}]

\* Mutant: a newer version is admitted with or without a tree.
AdmitsNewer(d, s) ==
  s.inc = d.inc /\ (d.snap = NoSnap \/ s.ver > d.snap.ver)

\* Mutant: a straggler of a closed lifetime is admitted.
AdmitsAnyLifetime(d, s) ==
  \/ d.snap = NoSnap
  \/ s.ver > d.snap.ver /\ (d.snap.tree => s.tree)
  \/ s.ver = d.snap.ver /\ ~d.snap.tree /\ s.tree

(* SnapshotSlot::admits.                                                   *)
Admits(d, s) ==
  /\ s.inc = d.inc
  /\ \/ d.snap = NoSnap
     \/ s.ver > d.snap.ver /\ (d.snap.tree => s.tree)
     \/ s.ver = d.snap.ver /\ ~d.snap.tree /\ s.tree

(* LanguageCoordinator::detect_language: the label when its parser is      *)
(* available, else what path and content suggest.                          *)
Detect(label, says) ==
  IF label \in loaded THEN label
  ELSE IF says \in loaded THEN says
  ELSE NoLang

-----------------------------------------------------------------------------
(* DocumentStore *)

(* LanguageCheck against the stored label.                                 *)
LanguageMatches(d, check) ==
  check.kind \in {"Expect", "RecordIfUnchanged"} => d.label = check.label

InstallAdmitted(d, check, s) == LanguageMatches(d, check) /\ Admits(d, s)

(* install_parse: publish, and record the language of a current parse.     *)
InstallParse(d, check, s) ==
  IF ~InstallAdmitted(d, check, s) THEN d
  ELSE [d EXCEPT !.snap = s,
                 !.label = IF s.ver = d.ver /\ check.kind # "Expect" THEN s.lang ELSE @]

\* Mutant: regions are added to whatever snapshot is published by then.
CompleteAnyParse(d, check, s) ==
  IF d.snap # NoSnap /\ s.tree THEN [d EXCEPT !.snap.regions = s.by] ELSE d

(* complete_parse: regions are added to the very snapshot the pass         *)
(* published, or not at all.                                               *)
CompleteParse(d, check, s) ==
  IF /\ LanguageMatches(d, check)
     /\ d.snap = s
     /\ s.tree /\ s.regions = NoLang
  THEN [d EXCEPT !.snap = [s EXCEPT !.regions = s.by]]
  ELSE d

(* publish_giveup_snapshot: only while the lifetime has no snapshot.       *)
GiveUpSnapshot(d) ==
  [by |-> "giveup", inc |-> d.inc, ver |-> d.ver, text |-> TextOf(d, d.ver),
   lang |-> d.label, tree |-> FALSE, sound |-> TRUE, gram |-> gram,
   regions |-> NoLang]

\* Mutant: a pass that gives up publishes nothing.
PublishNothing(inc) == doc

PublishGiveup(inc) ==
  IF IsOpen /\ doc.inc = inc /\ ~HasSnap
    THEN [doc EXCEPT !.snap = GiveUpSnapshot(doc)]
    ELSE doc

HasCurrentTree(d) ==
  d.snap # NoSnap /\ d.snap.inc = d.inc /\ d.snap.ver = d.ver /\ d.snap.tree
-----------------------------------------------------------------------------
Init ==
  /\ doc = Closed
  /\ opens = 0
  /\ pass = [p \in Pass |-> Idle]
  /\ loaded \in InitLoaded
  /\ gram = 0
  /\ pool = [gen |-> 0, reloading |-> FALSE]
  /\ reload = "none"

-----------------------------------------------------------------------------
(* The handlers.  ls_label is what the client calls the document (NoLang:  *)
(* plaintext), says what its path and text suggest.                        *)

(* did_open_impl and DocumentStore::insert, then the task that parses: the *)
(* open parse, or, when the parser is missing and may be installed, the    *)
(* install that reparses when it is done.                                  *)
DidOpen(p, ls_label, says, auto_install) ==
  LET label == IF ls_label = NoLang THEN says ELSE ls_label
      skip_parse == label \in Lang \ loaded /\ auto_install
  IN
  /\ ~IsOpen /\ opens < MaxOpens
  /\ pass[p] = Idle
  /\ opens' = opens + 1
  /\ doc' = NewDocument(opens + 1, label, says)
  /\ pass' = [pass EXCEPT ![p] =
       IF skip_parse
         THEN [pc |-> "install", inc |-> opens + 1, lang |-> label]
         ELSE [pc |-> "open", inc |-> opens + 1, label |-> ls_label]]
  /\ UNCHANGED <<loaded, gram, pool, reload>>

DidChange(says) ==
  /\ IsOpen /\ doc.ver < MaxVersion
  /\ doc' \in {ApplyEdit(doc, says), ReplaceText(doc, says)}
  /\ UNCHANGED <<opens, pass, loaded, gram, pool, reload>>

(* remove_preserving_edit_lock.                                            *)
DidClose ==
  /\ IsOpen
  /\ doc' = Closed
  /\ UNCHANGED <<opens, pass, loaded, gram, pool, reload>>

-----------------------------------------------------------------------------
(* A settings reload: reload_languages_locked.  It is one synchronous      *)
(* stretch, but the pool and the handlers run on other threads.            *)

ReloadBegins ==
  /\ reload = "none" /\ gram < MaxReloads
  /\ reload' = "begun"
  /\ pool' = [gen |-> pool.gen + 1, reloading |-> TRUE]
  /\ UNCHANGED <<doc, opens, pass, loaded, gram>>

ReloadSwapsGrammars ==
  /\ reload = "begun"
  /\ reload' = "swapped"
  /\ gram' = gram + 1
  /\ UNCHANGED <<doc, opens, pass, loaded, pool>>

ReloadInvalidates ==
  /\ reload = "swapped"
  /\ reload' = "invalidated"
  /\ doc' = IF IsOpen THEN InvalidateParse(doc) ELSE doc
  /\ UNCHANGED <<opens, pass, loaded, gram, pool>>

ReloadFinishes ==
  /\ reload = "invalidated"
  /\ reload' = "none"
  /\ pool' = [gen |-> pool.gen + 1, reloading |-> FALSE]
  /\ UNCHANGED <<doc, opens, pass, loaded, gram>>

-----------------------------------------------------------------------------
(* Passes *)

Move(p, rec) == pass' = [pass EXCEPT ![p] = rec]

Unchanged == UNCHANGED <<opens, loaded, gram, pool, reload>>

(* The inputs a pass takes under one read guard.                           *)
Captured(kind, lang, label, seed, left) ==
  [pc |-> "captured", kind |-> kind, inc |-> doc.inc, ver |-> doc.ver,
   text |-> TextOf(doc, doc.ver), lang |-> lang, label |-> label,
   seed |-> seed, left |-> left]

(* parse_document: a document that is gone or reopened ends the pass.      *)
CaptureForOpen(p) ==
  /\ pass[p].pc = "open"
  /\ Move(p, IF IsOpen /\ doc.inc = pass[p].inc
               THEN Captured("open", Detect(pass[p].label, doc.says), doc.label, NoSeed, 0)
               ELSE Idle)
  /\ UNCHANGED doc /\ Unchanged

(* reparse_latest, whenever the scheduler runs one.                        *)
CaptureLatest(p) ==
  LET lang == Detect(doc.label, doc.says) IN
  /\ pass[p] = Idle /\ IsOpen
  /\ Move(p, Captured("latest", lang, doc.label, IncrementalSeed(doc, lang), 0))
  /\ UNCHANGED doc /\ Unchanged

(* The auto-install fails: the parked first-parse readers are released.    *)
InstallFails(p) ==
  /\ pass[p].pc = "install"
  /\ doc' = PublishGiveup(pass[p].inc)
  /\ Move(p, Idle)
  /\ Unchanged

(* It succeeds: an Install reload makes the parser available; it replaces  *)
(* none that is loaded, and invalidates no document.                       *)
InstallSucceeds(p) ==
  /\ pass[p].pc = "install" /\ reload = "none"
  /\ loaded' = loaded \cup {pass[p].lang}
  /\ pool' = [gen |-> pool.gen + 2, reloading |-> FALSE]
  /\ Move(p, [pc |-> "installed", inc |-> pass[p].inc, lang |-> pass[p].lang])
  /\ UNCHANGED <<doc, opens, gram, reload>>

(* reparse_installed_document: label, language and lifetime are fixed      *)
(* here for all its attempts.                                              *)
ResolveInstalled(p) ==
  LET r == pass[p]
      lang == Detect(doc.label, doc.says)
  IN
  /\ r.pc = "installed"
  /\ IF ~IsOpen \/ doc.inc # r.inc \/ HasCurrentTree(doc) \/ lang \notin {r.lang, NoLang}
       THEN Move(p, Idle) /\ UNCHANGED doc
       ELSE IF lang = NoLang
       THEN Move(p, Idle) /\ doc' = PublishGiveup(r.inc)
       ELSE /\ Move(p, [pc |-> "attempt", inc |-> r.inc, lang |-> lang,
                        label |-> doc.label, left |-> MaxInstallAttempts])
            /\ UNCHANGED doc
  /\ Unchanged

CaptureAttempt(p) ==
  LET r == pass[p] IN
  /\ r.pc = "attempt"
  /\ Move(p, IF IsOpen /\ doc.inc = r.inc /\ ~HasCurrentTree(doc) /\ r.left > 0
               THEN Captured("installed", r.lang, r.label, NoSeed, r.left - 1)
               ELSE [pc |-> "giveup", inc |-> r.inc])
  /\ UNCHANGED doc /\ Unchanged

(* parse_with_pool, first half: a parser is checked out, which a reload in *)
(* progress refuses.                                                       *)
AcquireParser(p) ==
  LET r == pass[p] IN
  /\ r.pc = "captured" /\ r.lang # NoLang /\ ~pool.reloading
  /\ Move(p, [pc |-> "parsing", in |-> r, gen |-> pool.gen, gram |-> gram,
              retry |-> FALSE])
  /\ UNCHANGED doc /\ Unchanged

Parsed(r, seed, g) ==
  [pc |-> "parsed", in |-> r, gram |-> g, tree |-> TRUE,
   sound |-> seed.tree => seed.sound /\ seed.gram = g /\ seed.lang = r.lang]

NotParsed(r) == [pc |-> "parsed", in |-> r, tree |-> FALSE]

(* Second half: a parser released in the generation it was taken in.       *)
ReleaseParser(p) ==
  LET r == pass[p] IN
  /\ r.pc = "parsing" /\ r.gen = pool.gen
  /\ Move(p, Parsed(r.in, IF r.retry THEN NoSeed ELSE r.in.seed, r.gram))
  /\ UNCHANGED doc /\ Unchanged

(* A reload came between: once more, without the seed; not a third time.   *)
RetryParse(p) ==
  LET r == pass[p] IN
  /\ r.pc = "parsing" /\ r.gen # pool.gen
  /\ \/ r.retry /\ Move(p, NotParsed(r.in))
     \/ /\ ~r.retry /\ ~pool.reloading
        /\ Move(p, [pc |-> "parsing", in |-> r.in, gen |-> pool.gen, gram |-> gram,
                    retry |-> TRUE])
  /\ UNCHANGED doc /\ Unchanged

Obsolete(r) == ~(IsOpen /\ doc.inc = r.inc /\ doc.ver = r.ver)

(* No tree: no language, an obsolete version's cancelled token, or a       *)
(* timeout.                                                                *)
ParseYieldsNothing(p) ==
  LET r == pass[p] IN
  /\ \/ r.pc = "captured" /\ (r.lang = NoLang \/ Obsolete(r) \/ ParseMayFail)
        /\ Move(p, NotParsed(r))
     \/ r.pc = "parsing" /\ (Obsolete(r.in) \/ ParseMayFail)
        /\ Move(p, NotParsed(r.in))
  /\ UNCHANGED doc /\ Unchanged

(* reparse_language_check, and Record for the open parse.                  *)
CheckOf(r) ==
  IF r.kind = "open" THEN [kind |-> "Record"]
  ELSE IF r.label = r.lang \/ r.label \in Declared \cup loaded
  THEN [kind |-> "Expect", label |-> r.label]
  ELSE [kind |-> "RecordIfUnchanged", label |-> r.label]

SnapshotOf(p) ==
  LET r == pass[p].in IN
  [by |-> p, inc |-> r.inc, ver |-> r.ver, text |-> r.text, lang |-> r.lang,
   tree |-> pass[p].tree,
   sound |-> IF pass[p].tree THEN pass[p].sound ELSE TRUE,
   gram |-> IF pass[p].tree THEN pass[p].gram ELSE gram,
   regions |-> NoLang]

(* What follows a pass's install.                                          *)
AfterInstall(r, current) ==
  CASE r.kind = "open" -> Idle
    [] r.kind = "latest" -> [pc |-> "giveup", inc |-> r.inc]
    [] r.kind = "installed" ->
         IF current THEN [pc |-> "giveup", inc |-> r.inc]
         ELSE [pc |-> "attempt", inc |-> r.inc, lang |-> r.lang,
               label |-> r.label, left |-> r.left]

(* A pass with no tree: the open parse publishes that, the others give up. *)
FinishWithoutTree(p) ==
  LET r == pass[p].in IN
  /\ pass[p].pc = "parsed" /\ ~pass[p].tree
  /\ IF r.kind = "open"
       THEN /\ doc' = IF IsOpen THEN InstallParse(doc, CheckOf(r), SnapshotOf(p)) ELSE doc
            /\ Move(p, Idle)
       ELSE /\ UNCHANGED doc
            /\ Move(p, [pc |-> "giveup", inc |-> r.inc])
  /\ Unchanged

(* populate_and_install: latch under the edit lock.  Inputs that moved on, *)
(* and a pass that hands no discovery out, get one install without         *)
(* regions.                                                                *)
Latch(p) ==
  /\ pass[p].pc = "parsed" /\ pass[p].tree
  /\ \E pc \in {"single"} \cup (IF Obsolete(pass[p].in) THEN {} ELSE {"first"}) :
       Move(p, [pc |-> pc, in |-> pass[p].in, check |-> CheckOf(pass[p].in),
                snap |-> SnapshotOf(p)])
  /\ UNCHANGED doc /\ Unchanged

InstallSingle(p) ==
  LET r == pass[p].in
      check == pass[p].check
      s == pass[p].snap
  IN
  /\ pass[p].pc = "single"
  /\ doc' = IF IsOpen THEN InstallParse(doc, check, s) ELSE doc
  /\ Move(p, AfterInstall(r, IsOpen /\ InstallAdmitted(doc, check, s) /\ s.ver = doc.ver))
  /\ Unchanged

(* The work unit's own install, before the regions are resolved.           *)
InstallFirst(p) ==
  LET r == pass[p].in
      check == pass[p].check
      s == pass[p].snap
      published == IsOpen /\ InstallAdmitted(doc, check, s)
      current == published /\ s.ver = doc.ver
  IN
  /\ pass[p].pc = "first"
  /\ doc' = IF IsOpen THEN InstallParse(doc, check, s) ELSE doc
  /\ Move(p, IF published
               THEN [pc |-> "complete", in |-> r, snap |-> s,
                     check |-> IF current /\ check.kind = "RecordIfUnchanged"
                                 THEN [kind |-> "Expect", label |-> s.lang]
                                 ELSE check]
               ELSE AfterInstall(r, FALSE))
  /\ Unchanged

(* The regions were resolved, or not (skipped, cancelled, panicked).       *)
Complete(p) ==
  LET r == pass[p] IN
  /\ r.pc = "complete"
  /\ doc' \in {doc} \cup (IF IsOpen THEN {CompleteParse(doc, r.check, r.snap)} ELSE {})
  /\ Move(p, AfterInstall(r.in, /\ IsOpen /\ LanguageMatches(doc, r.check)
                                /\ doc.snap = r.snap /\ r.snap.ver = doc.ver))
  /\ Unchanged

GiveUp(p) ==
  /\ pass[p].pc = "giveup"
  /\ doc' = PublishGiveup(pass[p].inc)
  /\ Move(p, Idle)
  /\ Unchanged

-----------------------------------------------------------------------------
PassStep(p) ==
  \/ CaptureForOpen(p) \/ CaptureLatest(p)
  \/ InstallFails(p) \/ InstallSucceeds(p) \/ ResolveInstalled(p) \/ CaptureAttempt(p)
  \/ AcquireParser(p) \/ ReleaseParser(p) \/ RetryParse(p) \/ ParseYieldsNothing(p)
  \/ FinishWithoutTree(p) \/ Latch(p)
  \/ InstallSingle(p) \/ InstallFirst(p) \/ Complete(p) \/ GiveUp(p)

Next ==
  \/ \E p \in Pass, ls_label \in Lang \cup {NoLang}, says \in Lang \cup {NoLang}, auto \in BOOLEAN :
       DidOpen(p, ls_label, says, auto)
  \/ \E says \in Lang \cup {NoLang} : DidChange(says)
  \/ DidClose
  \/ ReloadBegins \/ ReloadSwapsGrammars \/ ReloadInvalidates \/ ReloadFinishes
  \/ \E p \in Pass : PassStep(p)

Spec == Init /\ [][Next]_vars

-----------------------------------------------------------------------------
(* The inputs' lifetime a pass works for, 0 for an idle one.               *)
WorksFor(p) ==
  CASE pass[p].pc = "idle" -> 0
    [] pass[p].pc \in {"parsing", "parsed", "single", "first", "complete"} -> pass[p].in.inc
    [] OTHER -> pass[p].inc

(* Types. *)
SnapshotType(s) ==
  /\ s.by \in Pass \cup {"giveup", "reload"}
  /\ s.inc \in 1..MaxOpens /\ {s.ver, s.text} \subseteq Nat
  /\ s.lang \in Lang \cup {NoLang} /\ s.tree \in BOOLEAN /\ s.sound \in BOOLEAN
  /\ s.gram \in 0..MaxReloads /\ s.regions \in Pass \cup {NoLang}

DocumentType(d) ==
  /\ d.inc \in 1..MaxOpens /\ {d.ver, d.floor} \subseteq Nat
  /\ {d.label, d.says} \subseteq Lang \cup {NoLang}
  /\ \A vs \in {d.log, d.edited, d.replaced} : vs \subseteq 1..d.ver
  /\ d.snap # NoSnap => SnapshotType(d.snap)

PassType(r) ==
  /\ r.pc \in {"idle", "open", "install", "installed", "attempt", "captured",
               "parsing", "parsed", "single", "first", "complete", "giveup"}
  /\ r.pc \in {"open", "install", "installed", "attempt", "captured", "giveup"} =>
       r.inc \in 1..MaxOpens
  /\ r.pc \in {"single", "first", "complete"} => SnapshotType(r.snap)

TypeOK ==
  /\ IsOpen => DocumentType(doc)
  /\ opens \in 0..MaxOpens
  /\ \A p \in Pass : PassType(pass[p])
  /\ loaded \subseteq Lang
  /\ gram \in 0..MaxReloads
  /\ pool \in [gen : Nat, reloading : BOOLEAN]
  /\ reload \in {"none", "begun", "swapped", "invalidated"}

(* Every published tree was parsed from scratch or from a seed that meets  *)
(* tree-sitter's contract (#348): a sound tree of the same grammar with    *)
(* exactly the edits since its text replayed.  Edits coalesce, logs are    *)
(* pruned against a snapshot that another pass may replace, a full-text    *)
(* sync or a reload lands between the capture and the parse.               *)
NoCorruptTree == IsOpen /\ HasSnap => doc.snap.sound

(* Once a reload has invalidated the document no tree of the replaced      *)
(* grammar is ever published, though passes captured and parsed before,    *)
(* during and after the swap are still in flight.                          *)
GrammarIsCurrent ==
  IsOpen /\ HasSnap /\ doc.snap.tree /\ reload # "swapped" => doc.snap.gram = gram

(* What a parse reused was sound, and is not out of date.                  *)
TreesAreSound == NoCorruptTree /\ GrammarIsCurrent

(* What a reader is served is of this lifetime, and is the text its        *)
(* version had: no straggler of a closed lifetime, no text under another   *)
(* version's stamp.                                                        *)
SnapshotOfItsText ==
  IsOpen /\ HasSnap =>
    /\ doc.snap.inc = doc.inc
    /\ doc.snap.ver <= doc.ver
    /\ doc.snap.text = TextOf(doc, doc.snap.ver)

(* Injection regions ride only on the tree they were resolved from, though *)
(* they arrive after the tree was published and another pass may have      *)
(* replaced it meanwhile.                                                  *)
RegionsOfTheirTree ==
  IsOpen /\ HasSnap /\ doc.snap.regions # NoLang =>
    doc.snap.tree /\ doc.snap.regions = doc.snap.by

(* What readers are served hangs together: lifetime, version, text, tree   *)
(* and regions, though passes publish them apart.                          *)
SnapshotIsFaithful == SnapshotOfItsText /\ RegionsOfTheirTree

(* A reader parked until the document's first parse is always owed an      *)
(* answer: while the lifetime has no snapshot, some pass that works for    *)
(* it is still under way, and will publish a tree or give up.              *)
FirstParseOwed == IsOpen /\ ~HasSnap => \E p \in Pass : WorksFor(p) = doc.inc

(* Within a lifetime readers never go back: not to an older version, nor   *)
(* from a tree to none unless a reload takes it, nor to another tree of    *)
(* the version they hold a result for.                                     *)
SnapshotNeverRegresses ==
  [][IsOpen /\ doc'.inc = doc.inc /\ HasSnap =>
       /\ doc'.snap # NoSnap
       /\ doc'.snap.ver >= doc.snap.ver
       /\ doc.snap.tree /\ ~doc'.snap.tree => doc'.snap.by = "reload"
       /\ doc'.snap.ver = doc.snap.ver /\ doc.snap.tree => doc'.snap.by = doc.snap.by]_doc

(* document/snapshot.rs says of a tree-less publish that it must not block *)
(* the real parse of the same version: a pass that installs a tree of the  *)
(* document's current version leaves it with a current tree.               *)
TreelessPublishNeverBlocks ==
  [][\A p \in Pass :
       /\ pass[p].pc \in {"single", "first"} /\ pass'[p] # pass[p]
       /\ ~Obsolete(pass[p].in)
       => HasCurrentTree(doc')]_vars
=============================================================================
