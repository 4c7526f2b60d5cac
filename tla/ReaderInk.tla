----------------------------- MODULE ReaderInk -----------------------------
(***************************************************************************)
(* The life of a page's ink in the reader: ReaderSession's ink calls       *)
(* (session.rs) over the sidecar directory of the open file                *)
(* (persistence/ink_store.rs), with a store call that fails, a kill at any *)
(* point and another document put at the same path.  The shell makes all   *)
(* calls on one engine thread, so a call is a step; opening is several,    *)
(* one for each change it makes on disk.                                   *)
(***************************************************************************)
EXTENDS InkLayer

CONSTANTS Pages, Docs,
          Marks,        \* recognizable ink: the colour of a stroke
          Deferred,     \* the autosave modes a session may be in
          Lasso,        \* are the lasso edits used?
          FaultKinds,   \* store calls that may fail: "save", "load", "meta", "move"
          MaxHistory,   \* edits of a page since it was loaded
          MaxFaults, MaxCrashes, MaxSwaps

SessionAssumption ==
    /\ Deferred \subseteq BOOLEAN /\ Lasso \in BOOLEAN
    /\ FaultKinds \subseteq {"save", "load", "meta", "move"}
    /\ {MaxHistory, MaxFaults, MaxCrashes, MaxSwaps} \subseteq Nat

VARIABLES doc,        \* the document the path holds now
          phase,      \* "closed", a step of opening, or "open"
          page, layer, tool, eraseChanged, inkDirty, deferred, clipboard,
          files,      \* annotations/: the strokes of each page
          stale,      \* annotations.stale/
          corrupt,    \* *.corrupt files
          meta,       \* the document metadata.json names
          exported,   \* the ink the last step exported, if it was an export
          intent,     \* what the reader left on each page of each document
          owner,      \* the document each mark was drawn on
          torn,       \* has an opening ended between putting ink aside and the new stamp?
          faults, crashes, swaps

session == <<page, layer, tool, eraseChanged, inkDirty, deferred, clipboard>>
sidecar == <<files, stale, corrupt, meta>>
budget == <<torn, faults, crashes, swaps>>
vars == <<doc, phase, session, sidecar, exported, intent, owner, budget>>

NoInk == [p \in Pages |-> <<>>]

MarksOf(strokes) == {strokes[i].color : i \in DOMAIN strokes}

\* How many calls of this kind may fail in a row, when so many have failed.
FailuresFrom(spent, kind, most) ==
    IF kind \in FaultKinds THEN {k \in 0 .. most : spent + k <= MaxFaults} ELSE {0}

Failures(kind, most) == FailuresFrom(faults, kind, most)

Free == Marks \ {m \in Marks : owner[m] # None}

TypeOK ==
    /\ doc \in Docs /\ phase \in {"closed", "check", "drop", "reset", "stamp", "load", "open"}
    /\ page \in Pages /\ tool \in {"ink", "eraser"}
    /\ {eraseChanged, inkDirty, deferred, torn} \subseteq BOOLEAN
    /\ inkDirty => deferred
    /\ meta \in Docs \cup {None}
    /\ \A p \in Pages : MarksOf(files[p]) \cup MarksOf(stale[p]) \cup MarksOf(corrupt[p]) \subseteq Marks
    /\ \A d \in Docs : \A p \in Pages : intent[d][p] \subseteq {m \in Marks : owner[m] # None}

Init ==
    /\ doc \in Docs /\ phase = "closed"
    /\ page \in Pages /\ layer = EmptyLayer /\ tool = "ink"
    /\ eraseChanged = FALSE /\ inkDirty = FALSE /\ deferred = FALSE /\ clipboard = <<>>
    /\ files = NoInk /\ stale = NoInk /\ corrupt = NoInk /\ meta = None
    /\ exported = None
    /\ intent = [d \in Docs |-> [p \in Pages |-> {}]]
    /\ owner = [m \in Marks |-> None]
    /\ torn = FALSE /\ faults = 0 /\ crashes = 0 /\ swaps = 0

-----------------------------------------------------------------------------
(* The store *)

\* save_page writes a temporary file and renames it over the page's; no ink
\* is no file, which reads as an empty page.
SavePage(dir, p, strokes) == [dir EXCEPT ![p] = strokes]

\* quarantine_page
Quarantine(p, from) ==
    /\ files' = SavePage(from, p, <<>>)
    /\ corrupt' = [corrupt EXCEPT ![p] = from[p]]

\* load_page
LoadPage(strokes) == Decoded(strokes)

\* load_layer_for_page: an unreadable page is put aside, any other failure
\* of the read is an empty page.
LoadInto(p, from, spent) ==
    \E f \in FailuresFrom(spent, "load", 1) :
        /\ faults' = spent + f
        /\ IF f = 1 THEN layer' = EmptyLayer /\ files' = from /\ UNCHANGED corrupt
           ELSE IF Decodes(from[p])
           THEN layer' = LoadPage(from[p]) /\ files' = from /\ UNCHANGED corrupt
           ELSE layer' = EmptyLayer /\ Quarantine(p, from)

\* autosave_ink as the edits call it: on failure the call returns an error
\* and nothing else changes.
Autosave(strokes) ==
    \E f \in Failures("save", 1) :
        /\ faults' = faults + f
        /\ files' = IF f = 0 THEN SavePage(files, page, strokes) ELSE files

\* flush_ink: a failure leaves the page dirty.
Flush ==
    /\ Autosave(layer.strokes)
    /\ inkDirty' = (inkDirty /\ faults' # faults)

\* persist_after_edit
Persist(strokes) ==
    IF deferred THEN inkDirty' = TRUE /\ UNCHANGED <<files, faults>>
    ELSE Autosave(strokes) /\ UNCHANGED inkDirty

\* The reader's view of an edit of the page in memory.
Edited(new) ==
    /\ layer' = new
    /\ intent' = [intent EXCEPT ![doc][page] = (@ \ MarksOf(layer.strokes)) \cup MarksOf(new.strokes)]

Kept == exported' = None /\ UNCHANGED <<doc, phase, page, deferred, stale, corrupt, meta, torn, crashes, swaps>>

-----------------------------------------------------------------------------
(* Opening: attach_ink_store, step by step *)

Open ==
    /\ phase = "closed"
    /\ phase' = "check"
    /\ page' \in Pages
    /\ layer' = EmptyLayer /\ tool' = "ink" /\ eraseChanged' = FALSE /\ inkDirty' = FALSE
    /\ deferred' \in Deferred /\ clipboard' = <<>>
    /\ exported' = None /\ UNCHANGED <<doc, sidecar, intent, owner, budget>>

\* SidecarMetadata::matches, by fingerprint and size
Matches(stamp, d) == stamp = d

\* verify_or_stamp_identity reads metadata.json; a failed read is like none.
CheckIdentity ==
    /\ phase = "check"
    /\ \E f \in Failures("meta", 1) :
          /\ faults' = faults + f
          /\ phase' = IF f = 0 /\ Matches(meta, doc) THEN "load"
                      ELSE IF f = 0 /\ meta # None THEN "drop"
                      ELSE "stamp"
    /\ exported' = None /\ UNCHANGED <<doc, session, sidecar, intent, owner, torn, crashes, swaps>>

\* reset_stale_annotations: drop the last set put aside, then put this one aside.
DropStale ==
    /\ phase = "drop"
    /\ phase' = "reset"
    /\ stale' = NoInk
    /\ exported' = None /\ UNCHANGED <<doc, session, files, corrupt, meta, intent, owner, budget>>

MoveAside ==
    /\ phase = "reset"
    /\ phase' = "stamp"
    /\ \E f \in Failures("move", 1) :
          /\ faults' = faults + f
          /\ IF f = 0 /\ files # NoInk THEN stale' = files /\ files' = NoInk
             ELSE UNCHANGED <<files, stale>>
    /\ exported' = None /\ UNCHANGED <<doc, session, corrupt, meta, intent, owner, torn, crashes, swaps>>

Stamp ==
    /\ phase = "stamp"
    /\ phase' = "load"
    /\ \E f \in Failures("meta", 1) :
          /\ faults' = faults + f
          /\ meta' = IF f = 0 THEN doc ELSE meta
          /\ torn' = (torn \/ (f = 1 /\ stale # NoInk))
    /\ exported' = None /\ UNCHANGED <<doc, session, files, stale, corrupt, intent, owner, crashes, swaps>>

LoadFirst ==
    /\ phase = "load"
    /\ phase' = "open"
    /\ LoadInto(page, files, faults)
    /\ exported' = None /\ UNCHANGED <<doc, page, tool, eraseChanged, inkDirty, deferred, clipboard, stale, meta, intent, owner, torn, crashes, swaps>>

-----------------------------------------------------------------------------
(* Drawing and erasing: the shell begins a gesture when the last one ended *)

PenUp == layer.pending = None /\ ~eraseChanged

Room == Len(layer.undo) < MaxHistory

BeginInk(m) ==
    /\ phase = "open" /\ m \in Free /\ PenUp /\ Room
    /\ tool' = "ink" /\ eraseChanged' = FALSE
    /\ layer' = StartStroke(layer, m)
    /\ UNCHANGED <<inkDirty, clipboard, files, intent, owner, faults>> /\ Kept

BeginEraser ==
    /\ phase = "open" /\ PenUp /\ Room
    /\ tool' = "eraser" /\ eraseChanged' = FALSE
    /\ layer' = CancelStroke(layer)
    /\ UNCHANGED <<inkDirty, clipboard, files, intent, owner, faults>> /\ Kept

\* One sample: of the stroke in progress, or the eraser over the strokes H.
AddPoint(H) ==
    /\ phase = "open"
    /\ IF tool = "ink"
       THEN /\ layer.pending # None /\ layer.pending.points = <<>> /\ H = {}
            /\ layer' = PushPoint(layer, 0)
            /\ UNCHANGED <<eraseChanged, intent>>
       ELSE /\ H # {}
            /\ Edited(EraseHit(layer, H))
            /\ eraseChanged' = TRUE
    /\ UNCHANGED <<tool, inkDirty, clipboard, files, owner, faults>> /\ Kept

Owned(strokes) == [m \in Marks |-> IF m \in MarksOf(strokes) THEN doc ELSE owner[m]]

EndStroke ==
    /\ phase = "open"
    /\ eraseChanged' = FALSE
    /\ IF tool = "ink"
       THEN /\ layer.pending # None
            /\ Edited(FinishStroke(layer))
            /\ owner' = Owned(layer'.strokes)
            /\ IF Committed(layer) THEN Persist(layer'.strokes) ELSE UNCHANGED <<inkDirty, files, faults>>
       ELSE /\ eraseChanged
            /\ Persist(layer.strokes)
            /\ UNCHANGED <<layer, intent, owner>>
    /\ UNCHANGED <<tool, clipboard>> /\ Kept

InkUndo ==
    /\ phase = "open" /\ layer.undo # <<>>
    /\ Edited(Undo(layer)) /\ Persist(layer'.strokes)
    /\ UNCHANGED <<tool, eraseChanged, clipboard, owner>> /\ Kept

InkRedo ==
    /\ phase = "open" /\ layer.redo # <<>>
    /\ Edited(Redo(layer)) /\ Persist(layer'.strokes)
    /\ UNCHANGED <<tool, eraseChanged, clipboard, owner>> /\ Kept

-----------------------------------------------------------------------------
(* Lasso edits, when the pen is up: each autosaves by itself in both modes *)

Selections == (SUBSET Ids(layer.strokes)) \ {{}}

DeleteSelection(ids, cut) ==
    /\ phase = "open" /\ Lasso /\ PenUp /\ Room
    /\ Edited(DeleteStrokes(layer, ids)) /\ Autosave(layer'.strokes)
    /\ clipboard' = IF cut THEN CopyStrokes(layer, ids) ELSE clipboard
    /\ UNCHANGED <<tool, eraseChanged, inkDirty, owner>> /\ Kept

RecolorSelection(ids, m) ==
    /\ phase = "open" /\ Lasso /\ m \in Free /\ PenUp /\ Room
    /\ Edited(RecolorStrokes(layer, ids, m)) /\ Autosave(layer'.strokes)
    /\ owner' = Owned(layer'.strokes)
    /\ UNCHANGED <<tool, eraseChanged, inkDirty, clipboard>> /\ Kept

CopySelection(ids) ==
    /\ phase = "open" /\ Lasso /\ PenUp
    /\ clipboard' = CopyStrokes(layer, ids)
    /\ UNCHANGED <<layer, tool, eraseChanged, inkDirty, files, intent, owner, faults>> /\ Kept

Paste ==
    /\ phase = "open" /\ Lasso /\ clipboard # <<>> /\ PenUp /\ Room
    /\ layer.nextId + Len(clipboard) <= MaxId
    /\ Edited(PasteStrokes(layer, clipboard, 0)) /\ Autosave(layer'.strokes)
    /\ UNCHANGED <<tool, eraseChanged, inkDirty, clipboard, owner>> /\ Kept

-----------------------------------------------------------------------------
(* Saving, turning pages, exporting, closing *)

\* save_ink, on pause and from the shell's debounce.
SaveInk ==
    /\ phase = "open"
    /\ Flush
    /\ UNCHANGED <<layer, tool, eraseChanged, clipboard, intent, owner>> /\ Kept

\* set_autosave_deferred: going back to immediate mode flushes first, and
\* stays deferred when that fails.
SetDeferred(on) ==
    /\ phase = "open" /\ on # deferred
    /\ IF ~on /\ inkDirty THEN Flush ELSE UNCHANGED <<files, inkDirty, faults>>
    /\ deferred' = (on \/ (inkDirty' /\ ~on))
    /\ exported' = None /\ UNCHANGED <<doc, phase, page, layer, tool, eraseChanged, clipboard, stale, corrupt, meta, intent, owner, torn, crashes, swaps>>

TurnCancelling(p) ==
    /\ phase = "open" /\ p # page
    /\ page' = p
    /\ \E f \in Failures("save", 3) :
          LET saved == IF (eraseChanged \/ inkDirty) /\ f < 3
                       THEN SavePage(files, page, layer.strokes) ELSE files
          IN  /\ LoadInto(p, saved, faults + f)
              /\ intent' = [intent EXCEPT ![doc][page] = @ \cup MarksOf(FinishStroke(layer).strokes)]
    /\ owner' = Owned(FinishStroke(layer).strokes)
    /\ eraseChanged' = FALSE /\ inkDirty' = FALSE
    /\ exported' = None /\ UNCHANGED <<doc, phase, tool, deferred, clipboard, stale, meta, torn, crashes, swaps>>

\* load_ink_for_current_page: finish the stroke, flush under the page that
\* is left with up to three attempts, then load the other page.  After the
\* third failure it gives the edits up, as it says, so that pages always turn.
Turn(p) ==
    /\ phase = "open" /\ p # page
    /\ page' = p
    /\ LET done == FinishStroke(layer)
           flush == Committed(layer) \/ eraseChanged \/ inkDirty
       IN  /\ owner' = Owned(done.strokes)
           /\ \E f \in (IF flush THEN Failures("save", 3) ELSE {0}) :
                /\ LoadInto(p, IF flush /\ f < 3 THEN SavePage(files, page, done.strokes) ELSE files,
                            faults + f)
                /\ intent' = [intent EXCEPT ![doc][page] =
                                IF f = 3 THEN MarksOf(files[page])
                                ELSE (@ \ MarksOf(layer.strokes)) \cup MarksOf(done.strokes)]
    /\ eraseChanged' = FALSE /\ inkDirty' = FALSE
    /\ exported' = None /\ UNCHANGED <<doc, phase, tool, deferred, clipboard, stale, meta, torn, crashes, swaps>>

\* export_pdf: the page in memory is written first, then every page is read
\* from the sidecar.
Export ==
    /\ phase = "open"
    /\ Flush
    /\ exported' = IF faults' = faults /\ \E p \in Pages : files'[p] # <<>>
                   THEN [p \in Pages |-> IF Decodes(files'[p]) THEN MarksOf(files'[p]) ELSE {}]
                   ELSE None
    /\ UNCHANGED <<doc, phase, page, layer, tool, eraseChanged, deferred, clipboard, stale, corrupt, meta,
                   intent, owner, torn, crashes, swaps>>

\* The shell's closeDocument: save, then free the session whatever came of it.
Close ==
    /\ phase = "open"
    /\ phase' = "closed"
    /\ Autosave(layer.strokes)
    /\ intent' = IF faults' = faults THEN intent ELSE [intent EXCEPT ![doc][page] = MarksOf(files[page])]
    /\ layer' = EmptyLayer /\ inkDirty' = FALSE /\ eraseChanged' = FALSE /\ clipboard' = <<>>
    /\ exported' = None
    /\ UNCHANGED <<doc, page, tool, deferred, stale, corrupt, meta, owner, torn, crashes, swaps>>

\* The process dies.  A stroke in progress, and in deferred mode the edits
\* not flushed yet, are gone and known to be.
Crash ==
    /\ phase # "closed" /\ crashes < MaxCrashes
    /\ crashes' = crashes + 1
    /\ phase' = "closed"
    /\ torn' = (torn \/ (phase = "stamp" /\ stale # NoInk))
    /\ intent' = IF phase = "open" /\ (inkDirty \/ eraseChanged)
                 THEN [intent EXCEPT ![doc][page] = MarksOf(files[page])] ELSE intent
    /\ layer' = EmptyLayer /\ inkDirty' = FALSE /\ eraseChanged' = FALSE /\ clipboard' = <<>>
    /\ exported' = None
    /\ UNCHANGED <<doc, page, tool, deferred, sidecar, owner, faults, swaps>>

\* Another file is put at the path, beside the same sidecar.
Swap(d) ==
    /\ phase = "closed" /\ d # doc /\ swaps < MaxSwaps
    /\ doc' = d /\ swaps' = swaps + 1
    /\ exported' = None /\ UNCHANGED <<phase, session, sidecar, intent, owner, torn, faults, crashes>>

Next ==
    \/ Open \/ CheckIdentity \/ DropStale \/ MoveAside \/ Stamp \/ LoadFirst
    \/ \E m \in Marks : BeginInk(m)
    \/ BeginEraser \/ EndStroke \/ InkUndo \/ InkRedo
    \/ \E H \in SUBSET DOMAIN layer.strokes : AddPoint(H)
    \/ \E ids \in Selections :
          \/ \E cut \in BOOLEAN : DeleteSelection(ids, cut)
          \/ \E m \in Marks : RecolorSelection(ids, m)
          \/ CopySelection(ids)
    \/ Paste \/ SaveInk \/ Export \/ Close \/ Crash
    \/ \E on \in Deferred : SetDeferred(on)
    \/ \E p \in Pages : Turn(p)
    \/ \E d \in Docs : Swap(d)

Spec == Init /\ [][Next]_vars

-----------------------------------------------------------------------------
(* Properties *)

Somewhere(p) == MarksOf(files[p]) \cup MarksOf(corrupt[p]) \cup MarksOf(stale[p])

Live(d, p) == IF phase = "open" /\ d = doc /\ p = page THEN MarksOf(layer.strokes) ELSE {}

\* Ink the reader finished and did not remove exists: in memory, in the
\* sidecar or put aside, through page turns in the middle of a stroke, mode
\* changes, kills and one other document at the same path.  It does not hold
\* once an opening ended between the two steps of StaleInkKept, nor after a
\* second document: reset_stale_annotations keeps only the last set put aside.
InkKept ==
    ~torn => \A d \in Docs : \A p \in Pages : intent[d][p] \subseteq Somewhere(p) \cup Live(d, p)

\* The ink of a document replaced at its path is preserved, as
\* verify_or_stamp_identity says: "preserve the stale ink and start clean".
StaleInkKept == \A d \in Docs \ {doc} : \A p \in Pages : intent[d][p] \subseteq Somewhere(p)

\* What is erased stays erased: no ink comes back that the reader removed
\* from the page.
NoGhostInk == phase = "open" => MarksOf(layer.strokes) \subseteq intent[doc][page]

\* A document never shows ink drawn on another one: verify_or_stamp_identity.
NeverForeign == phase = "open" => \A m \in MarksOf(layer.strokes) : owner[m] = doc

\* An export holds all the ink of the document as it was at the export, the
\* page in memory included.
ExportComplete == exported # None => \A p \in Pages : intent[doc][p] \subseteq exported[p]

\* A finished stroke is on disk when the call returns, so a kill right after
\* it cannot take it away.
StrokeSurvivesKill == phase = "open" => intent[doc][page] \subseteq Somewhere(page)
=============================================================================
