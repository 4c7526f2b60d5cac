------------------------------ MODULE MCReader ------------------------------
(***************************************************************************)
(* The reader. Its ink: the layer of one page and its undo history, the    *)
(* session that saves it through page turns, failed saves, kills and       *)
(* another document, and the activity that drives the session from two     *)
(* threads, the UI thread and the engine executor. What it shows: page     *)
(* turns and layout of an EPUB, a PDF and a reflowed PDF through the       *)
(* render cache, the store the settings and positions come from, and the   *)
(* refresh policy of the panel (EinkPolicy, which is extended here). A     *)
(* behaviour follows one instance, the scenario; the variables of the      *)
(* other modules are Parked, those of a module it EXTENDS at rest.         *)
(***************************************************************************)
EXTENDS Integers, Sequences, EinkPolicy

CONSTANTS Scenarios, Parked, None, c1, c2, p1, p2, d1, d2, m1, m2,
          b1, b2, k1, k2, whole, part

VARIABLES scenario,   \* the instance a behaviour follows
          line, moves,
          doc, tool, eraseChanged, inkDirty, deferred, files, stale, corrupt, meta,
          exported, intent, owner, faults, swaps,
          sess, core, dict, docHandle, dictHandle, currentPage, pageCount, lastPrefetched,
          queue, running, accepting, pending, turnInFlight, lastTurnDir, turnDone,
          flushTimer, uiCall, crashed, inputs, want,
          isOpen, viewport, quality, look, zoom, pan, reflow, laid, lastViewport, cache,
          screen, turn, fresh, saved, textScale, resumed, settings, opens,
          userVersion, tables, rows, config, positions, at, current, put, seen, puts,
          layer, clipboard, phase, page, torn, crashes

editorVars == <<line, moves>>
sessionVars == <<doc, tool, eraseChanged, inkDirty, deferred, files, stale, corrupt, meta,
                exported, intent, owner, faults, swaps>>
bridgeVars == <<sess, core, dict, docHandle, dictHandle, currentPage, pageCount,
               lastPrefetched, queue, running, accepting, pending, turnInFlight,
               lastTurnDir, turnDone, flushTimer, uiCall, crashed, inputs, want>>
viewVars == <<isOpen, viewport, quality, look, zoom, pan, reflow, laid, lastViewport,
             cache, screen, turn, fresh, saved, textScale, resumed, settings, opens>>
storeVars == <<userVersion, tables, rows, config, positions, at, current, put, seen, puts>>
suiteVars == <<scenario, editorVars, sessionVars, bridgeVars, viewVars, storeVars, vars,
          layer, clipboard, phase, page, torn, crashes>>

\* The profiles of capabilities.rs: the Supernote baseline, the Supernote with full control, the desktop.
Flags(on) == [i \in 1 .. 12 |-> i \in on]
KnownProfiles == {Flags({1, 12}), Flags({1, 2, 4, 5, 11, 12}), Flags({2, 4, 5, 9})}

\* coordinates of two bits: a move of 3 by 8 is clamped to 4, arrives at 8 and is undone to 4
Undoing == INSTANCE InkEditor
    WITH Width <- 8, Bits <- 2, MaxId <- 2, Colors <- {c1}, Samples <- {3}, Deltas <- {8},
         Radius <- 0, MaxStrokes <- 2, MaxHistory <- 2, MaxPoints <- 1, MaxCopied <- 0,
         PasteMidStroke <- FALSE
\* three strokes, deleted, copied and pasted in any choice
Ordered == INSTANCE InkEditor
    WITH Width <- 0, Bits <- 1, MaxId <- 4, Colors <- {c1}, Samples <- {0}, Deltas <- {0},
         Radius <- 0, MaxStrokes <- 3, MaxHistory <- 2, MaxPoints <- 1, MaxCopied <- 2,
         PasteMidStroke <- FALSE
Recolored == INSTANCE InkEditor
    WITH Width <- 0, Bits <- 1, MaxId <- 3, Colors <- {c1, c2}, Samples <- {0},
         Deltas <- {0}, Radius <- 0, MaxStrokes <- 2, MaxHistory <- 2, MaxPoints <- 1,
         MaxCopied <- 0, PasteMidStroke <- FALSE
Reach == INSTANCE InkEditor
    WITH Width <- 8, Bits <- 2, MaxId <- 1, Colors <- {c1}, Samples <- {3, 12},
         Deltas <- {-8}, Radius <- 0, MaxStrokes <- 1, MaxHistory <- 2, MaxPoints <- 2,
         MaxCopied <- 1, PasteMidStroke <- FALSE
Editing == INSTANCE ReaderInk
    WITH Width <- 0, Bits <- 1, MaxId <- 1, Pages <- {p1, p2}, Docs <- {d1},
         Marks <- {m1, m2}, Deferred <- {TRUE}, Lasso <- TRUE, FaultKinds <- {},
         MaxHistory <- 2, MaxFaults <- 0, MaxCrashes <- 0, MaxSwaps <- 0
Flushing == INSTANCE ReaderInk
    WITH Width <- 0, Bits <- 1, MaxId <- 3, Pages <- {p1, p2}, Docs <- {d1},
         Marks <- {m1, m2}, Deferred <- {TRUE}, Lasso <- FALSE, FaultKinds <- {"save"},
         MaxHistory <- 4, MaxFaults <- 2, MaxCrashes <- 1, MaxSwaps <- 0
Killed == INSTANCE ReaderInk
    WITH Width <- 0, Bits <- 1, MaxId <- 1, Pages <- {p1, p2}, Docs <- {d1},
         Marks <- {m1, m2}, Deferred <- {FALSE}, Lasso <- TRUE, FaultKinds <- {},
         MaxHistory <- 2, MaxFaults <- 0, MaxCrashes <- 1, MaxSwaps <- 0
\* one kill, in the opening too; no metadata read and no move fails
Swapped == INSTANCE ReaderInk
    WITH Width <- 0, Bits <- 1, MaxId <- 3, Pages <- {p1, p2}, Docs <- {d1, d2},
         Marks <- {m1, m2}, Deferred <- {TRUE, FALSE}, Lasso <- FALSE, FaultKinds <- {},
         MaxHistory <- 4, MaxFaults <- 0, MaxCrashes <- 1, MaxSwaps <- 1
\* no call fails; "flush" and "sheet" are left out: the trailing flush after a pause and the adjust sheet reach a freed session
Turns == INSTANCE ReaderBridge
    WITH MaxHandle <- 1, PageCounts <- {2, 3}, MaxInputs <- 4,
         Inputs <- {"surface", "tap", "link", "reflow", "view", "trim", "lists"},
         Failures <- FALSE
Imports == INSTANCE ReaderBridge
    WITH MaxHandle <- 2, PageCounts <- {2}, MaxInputs <- 5,
         Inputs <- {"surface", "inkEdit", "pause", "import", "destroy", "define", "search", "export", "tap"},
         Failures <- FALSE
\* a short book of two chapters, a PDF of two pages, and the text of another laid out
Epub == INSTANCE PageView
    WITH Kind <- "epub", Chapters <- <<6, 3>>, HasTextLayer <- TRUE, Viewports <- {4},
         Scales <- {1, 2}, ReopenScales <- {1}, Qualities <- {1},
         Looks <- {"day", "night"}, CacheSlots <- 2, MaxSettings <- 2, MaxOpens <- 2
Pdf == INSTANCE PageView
    WITH Kind <- "pdf", Chapters <- <<6, 3>>, HasTextLayer <- FALSE, Viewports <- {4, 8},
         Scales <- {1}, ReopenScales <- {1}, Qualities <- {0, 1}, Looks <- {"day"},
         CacheSlots <- 2, MaxSettings <- 2, MaxOpens <- 2
Reflow == INSTANCE PageView
    WITH Kind <- "pdf", Chapters <- <<6, 3, 5>>, HasTextLayer <- TRUE, Viewports <- {4},
         Scales <- {1, 2}, ReopenScales <- {1, 2}, Qualities <- {1}, Looks <- {"day"},
         CacheSlots <- 2, MaxSettings <- 2, MaxOpens <- 1
Settings == INSTANCE ReaderStore
    WITH Books <- {b1, b2}, IntKeys <- {k1}, BoolKeys <- {k2}, Ints <- {0},
         Positions <- {1}, KillPoints <- {"open", "migrate", "bump"}, MaxPuts <- 2,
         MaxCrashes <- 1

ASSUME Undoing!EditorAssumption /\ Undoing!LayerAssumption /\ Ordered!EditorAssumption
       /\ Ordered!LayerAssumption /\ Recolored!EditorAssumption
       /\ Recolored!LayerAssumption /\ Reach!EditorAssumption /\ Reach!LayerAssumption
       /\ Editing!SessionAssumption /\ Editing!LayerAssumption
       /\ Flushing!SessionAssumption /\ Flushing!LayerAssumption
       /\ Killed!SessionAssumption /\ Killed!LayerAssumption /\ Swapped!SessionAssumption
       /\ Swapped!LayerAssumption /\ Turns!BridgeAssumption /\ Imports!BridgeAssumption
       /\ Epub!PageViewAssumption /\ Pdf!PageViewAssumption /\ Reflow!PageViewAssumption
       /\ Settings!StoreAssumption /\ PolicyAssumption

NoEditor == line = Parked /\ moves = Parked
NoSession == doc = Parked /\ tool = Parked /\ eraseChanged = Parked /\ inkDirty = Parked
          /\ deferred = Parked /\ files = Parked /\ stale = Parked /\ corrupt = Parked
          /\ meta = Parked /\ exported = Parked /\ intent = Parked /\ owner = Parked
          /\ faults = Parked /\ swaps = Parked
NoBridge == sess = Parked /\ core = Parked /\ dict = Parked /\ docHandle = Parked
         /\ dictHandle = Parked /\ currentPage = Parked /\ pageCount = Parked
         /\ lastPrefetched = Parked /\ queue = Parked /\ running = Parked
         /\ accepting = Parked /\ pending = Parked /\ turnInFlight = Parked
         /\ lastTurnDir = Parked /\ turnDone = Parked /\ flushTimer = Parked
         /\ uiCall = Parked /\ crashed = Parked /\ inputs = Parked /\ want = Parked
NoView == isOpen = Parked /\ viewport = Parked /\ quality = Parked /\ look = Parked
       /\ zoom = Parked /\ pan = Parked /\ reflow = Parked /\ laid = Parked
       /\ lastViewport = Parked /\ cache = Parked /\ screen = Parked /\ turn = Parked
       /\ fresh = Parked /\ saved = Parked /\ textScale = Parked /\ resumed = Parked
       /\ settings = Parked /\ opens = Parked
NoStore == userVersion = Parked /\ tables = Parked /\ rows = Parked /\ config = Parked
        /\ positions = Parked /\ at = Parked /\ current = Parked /\ put = Parked
        /\ seen = Parked /\ puts = Parked

\* The extended module at rest, while another is followed.
Resting == caps = FromFlags(<<>>) /\ interval = 1 /\ nightInterval = 1 /\ avoid = FALSE
           /\ partialCount = 0 /\ nightPartialCount = 0 /\ night = FALSE /\ moving = FALSE
           /\ panel = Fresh

SuiteInit ==
    /\ scenario \in Scenarios
    /\ \/ scenario = "undo" /\ Undoing!Init /\ phase = Parked /\ page = Parked
          /\ torn = Parked /\ crashes = Parked /\ NoSession /\ NoBridge /\ NoView
          /\ NoStore /\ Resting
       \/ scenario = "order" /\ Ordered!Init /\ phase = Parked /\ page = Parked
          /\ torn = Parked /\ crashes = Parked /\ NoSession /\ NoBridge /\ NoView
          /\ NoStore /\ Resting
       \/ scenario = "recolor" /\ Recolored!Init /\ phase = Parked /\ page = Parked
          /\ torn = Parked /\ crashes = Parked /\ NoSession /\ NoBridge /\ NoView
          /\ NoStore /\ Resting
       \/ scenario = "reach" /\ Reach!Init /\ phase = Parked /\ page = Parked
          /\ torn = Parked /\ crashes = Parked /\ NoSession /\ NoBridge /\ NoView
          /\ NoStore /\ Resting
       \/ scenario = "edit" /\ Editing!Init /\ NoEditor /\ NoBridge /\ NoView /\ NoStore
          /\ Resting
       \/ scenario = "flush" /\ Flushing!Init /\ NoEditor /\ NoBridge /\ NoView /\ NoStore
          /\ Resting
       \/ scenario = "kill" /\ Killed!Init /\ NoEditor /\ NoBridge /\ NoView /\ NoStore
          /\ Resting
       \/ scenario = "swap" /\ Swapped!Init /\ NoEditor /\ NoBridge /\ NoView /\ NoStore
          /\ Resting
       \/ scenario = "turns" /\ Turns!Init /\ layer = Parked /\ clipboard = Parked
          /\ page = Parked /\ torn = Parked /\ crashes = Parked /\ NoEditor /\ NoSession
          /\ NoView /\ NoStore /\ Resting
       \/ scenario = "imports" /\ Imports!Init /\ layer = Parked /\ clipboard = Parked
          /\ page = Parked /\ torn = Parked /\ crashes = Parked /\ NoEditor /\ NoSession
          /\ NoView /\ NoStore /\ Resting
       \/ scenario = "epub" /\ Epub!Init /\ layer = Parked /\ clipboard = Parked
          /\ phase = Parked /\ torn = Parked /\ crashes = Parked /\ NoEditor /\ NoSession
          /\ NoBridge /\ NoStore /\ Resting
       \/ scenario = "pdf" /\ Pdf!Init /\ layer = Parked /\ clipboard = Parked
          /\ phase = Parked /\ torn = Parked /\ crashes = Parked /\ NoEditor /\ NoSession
          /\ NoBridge /\ NoStore /\ Resting
       \/ scenario = "reflow" /\ Reflow!Init /\ layer = Parked /\ clipboard = Parked
          /\ phase = Parked /\ torn = Parked /\ crashes = Parked /\ NoEditor /\ NoSession
          /\ NoBridge /\ NoStore /\ Resting
       \/ scenario = "settings" /\ Settings!Init /\ layer = Parked /\ clipboard = Parked
          /\ page = Parked /\ NoEditor /\ NoSession /\ NoBridge /\ NoView /\ Resting
       \/ scenario = "panel" /\ Init /\ layer = Parked /\ clipboard = Parked
          /\ phase = Parked /\ page = Parked /\ torn = Parked /\ crashes = Parked
          /\ NoEditor /\ NoSession /\ NoBridge /\ NoView /\ NoStore

SuiteNext ==
    /\ UNCHANGED scenario
    /\ \/ /\ scenario = "undo" /\ Undoing!Next
          /\ UNCHANGED <<phase, page, torn, crashes, sessionVars, bridgeVars, viewVars,
                         storeVars, vars>>
       \/ /\ scenario = "order" /\ Ordered!Next
          /\ UNCHANGED <<phase, page, torn, crashes, sessionVars, bridgeVars, viewVars,
                         storeVars, vars>>
       \/ /\ scenario = "recolor" /\ Recolored!Next
          /\ UNCHANGED <<phase, page, torn, crashes, sessionVars, bridgeVars, viewVars,
                         storeVars, vars>>
       \/ /\ scenario = "reach" /\ Reach!Next
          /\ UNCHANGED <<phase, page, torn, crashes, sessionVars, bridgeVars, viewVars,
                         storeVars, vars>>
       \/ /\ scenario = "edit" /\ Editing!Next
          /\ UNCHANGED <<editorVars, bridgeVars, viewVars, storeVars, vars>>
       \/ /\ scenario = "flush" /\ Flushing!Next
          /\ UNCHANGED <<editorVars, bridgeVars, viewVars, storeVars, vars>>
       \/ /\ scenario = "kill" /\ Killed!Next
          /\ UNCHANGED <<editorVars, bridgeVars, viewVars, storeVars, vars>>
       \/ /\ scenario = "swap" /\ Swapped!Next
          /\ UNCHANGED <<editorVars, bridgeVars, viewVars, storeVars, vars>>
       \/ /\ scenario = "turns" /\ Turns!Next
          /\ UNCHANGED <<layer, clipboard, page, torn, crashes, editorVars, sessionVars,
                         viewVars, storeVars, vars>>
       \/ /\ scenario = "imports" /\ Imports!Next
          /\ UNCHANGED <<layer, clipboard, page, torn, crashes, editorVars, sessionVars,
                         viewVars, storeVars, vars>>
       \/ /\ scenario = "epub" /\ Epub!Next
          /\ UNCHANGED <<layer, clipboard, phase, torn, crashes, editorVars, sessionVars,
                         bridgeVars, storeVars, vars>>
       \/ /\ scenario = "pdf" /\ Pdf!Next
          /\ UNCHANGED <<layer, clipboard, phase, torn, crashes, editorVars, sessionVars,
                         bridgeVars, storeVars, vars>>
       \/ /\ scenario = "reflow" /\ Reflow!Next
          /\ UNCHANGED <<layer, clipboard, phase, torn, crashes, editorVars, sessionVars,
                         bridgeVars, storeVars, vars>>
       \/ /\ scenario = "settings" /\ Settings!Next
          /\ UNCHANGED <<layer, clipboard, page, editorVars, sessionVars, bridgeVars,
                         viewVars, vars>>
       \/ /\ scenario = "panel" /\ Next /\ Bounded
          /\ UNCHANGED <<layer, clipboard, phase, page, torn, crashes, editorVars,
                         sessionVars, bridgeVars, viewVars, storeVars>>

SuiteSpec == SuiteInit /\ [][SuiteNext]_suiteVars
-----------------------------------------------------------------------------
\* ReaderInk and InkEditor: ink is kept until its reader removes it.
\*   - InkKept: ink the reader finished and did not remove exists in memory,
\*     in the sidecar or put aside, through page turns in the middle of a
\*     stroke, mode changes, kills and one other document at the same path,
\*     unless a kill met the opening of that document between putting the old
\*     ink aside and the new stamp (StaleInkKept).
\*   - NoGhostInk: what is erased stays erased.
\*   - ExportComplete: an export holds all the ink of the document, the page
\*     in memory included.
\*   - StrokeSurvivesKill: with immediate saves a finished stroke is on disk
\*     when the call returns.
\*   - NeverForeign: a document never shows ink drawn on another one
\*     (verify_or_stamp_identity), killed while it is opened or not.
\*   - Readable: stroke ids stay unique, so decode_layer can read the page
\*     back.
InkKept ==
    /\ scenario = "undo" => Undoing!TypeOK
    /\ scenario = "order" => Ordered!TypeOK /\ Ordered!Readable
    /\ scenario = "recolor" => Recolored!TypeOK
    /\ scenario = "reach" => Reach!TypeOK
    /\ scenario = "edit" => Editing!TypeOK /\ Editing!InkKept /\ Editing!NoGhostInk
                            /\ Editing!ExportComplete
    /\ scenario = "flush" => Flushing!InkKept /\ Flushing!NoGhostInk /\ Flushing!ExportComplete
    /\ scenario = "kill" => Killed!InkKept /\ Killed!NoGhostInk /\ Killed!ExportComplete
                            /\ Killed!StrokeSurvivesKill
    /\ scenario = "swap" => Swapped!InkKept /\ Swapped!NeverForeign
    /\ scenario = "turns" => Turns!TypeOK

\* ReaderBridge: the UI thread and the engine executor use the native session
\* as it has to be used, with the inputs of the two instances.
\*   - TurnsLand: at rest the core is on the page the taps add up to;
\*     coalescing neither drops nor doubles one.
\*   - LiveHandle: every native call finds a live session, as session_mut's
\*     safety comment requires, given no trailing flush after a pause and no
\*     adjust sheet: those two reach a freed session.
\*   - NoLeak: at most the handle field's session is open, so none is once
\*     the close of the teardown has run.
\*   - SavedBeforeFree: when no call fails, a session is freed with its ink
\*     on disk and its position saved, whichever tasks ran before the close.
BridgeSound ==
    /\ [](/\ scenario = "turns" => Turns!TurnsLand
          /\ scenario = "imports" => Imports!LiveHandle /\ Imports!NoLeak)
    /\ [][scenario = "imports" => Imports!SavedBeforeFreeStep]_suiteVars

\* PageView: the reader shows the page it is on. A laid-out document has one
\* viewport, one quality and is reopened at the scale it was closed with: a
\* new layout by set_viewport, and a resume after the font size was changed
\* elsewhere, are not met.
\*   - ViewTypes: types of the view and its cache.
\*   - CachedPixelsRight: a drawing served from the render cache has the
\*     pixels a new drawing of the session's page would have.
\*   - PageDraws: the page of the session is a page of the document whenever
\*     it is drawn.
\*   - ReadsOn: turning forward shows the text that follows, turning back the
\*     text before, a contents entry the start of its chapter.
\*   - ResumesText: a book reopened with its store shows, when first drawn,
\*     the text saved last.
PagesRight ==
    /\ scenario = "epub" => Epub!TypeOK /\ Epub!CachedPixelsRight /\ Epub!PageDraws
                            /\ Epub!ReadsOn /\ Epub!ResumesText
    /\ scenario = "pdf" => Pdf!TypeOK /\ Pdf!CachedPixelsRight /\ Pdf!PageDraws /\ Pdf!ReadsOn
                           /\ Pdf!ResumesText
    /\ scenario = "reflow" => Reflow!TypeOK /\ Reflow!CachedPixelsRight /\ Reflow!PageDraws
                              /\ Reflow!ReadsOn

\* ReaderStore: settings are kept and usable, with a kill between any two
\* statements.
\*   - StoreTypes: types of the store; an open one has every table and the
\*     last version.
\*   - SettingsHold: the getters answer what was last stored in the narrowest
\*     scope, after kills and reopenings too.
\*   - IntervalUsable: the refresh policy never gets an interval below one.
\*   - VersionNamesSettings: two loads of the same settings version see the
\*     same settings, if no kill left a stored setting uncounted (put_setting
\*     is no transaction).
\*   - AlwaysOpens: opening succeeds from a new file, from the file of an
\*     older version and after a kill, unless the kill came between two
\*     statements of one migration: migrate is no transaction, and no later
\*     opening gets past the tables it finds.
SettingsHold ==
    scenario = "settings" => Settings!TypeOK /\ Settings!SettingsHold
                                /\ Settings!IntervalUsable /\ Settings!VersionNamesSettings
                                /\ Settings!AlwaysOpens

\* InkEditor: undo and redo walk one line of pages, through erasures, moves
\* clamped at the edge, deletions from the middle of three strokes and
\* pastes: order, colours and strokes that were not moved exactly, moved ones
\* up to the rounding of their coordinates.
UndoLine ==
    /\ scenario = "undo" => Undoing!UndoLine
    /\ scenario = "order" => Ordered!UndoLine
    /\ scenario = "recolor" => Recolored!UndoLine
    /\ scenario = "reach" => Reach!UndoLine

\* ReaderInk: the ink of a document replaced at its path is preserved
\* (session.rs, verify_or_stamp_identity); a kill between putting it aside
\* and the new stamp breaks this.
StaleInkKept == scenario = "swap" => Swapped!StaleInkKept
=============================================================================
