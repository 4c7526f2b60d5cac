---------------------------- MODULE ReaderBridge ----------------------------
(***************************************************************************)
(* The boundary between the reader's Android shell and its Rust core:      *)
(* the exports of jni.rs over an opaque session handle, driven by a shell  *)
(* of two threads.  The UI thread handles taps, the stylus, timers and the *)
(* activity's life cycle and posts tasks to one engine thread, which runs  *)
(* them in order; a task reads docHandle when it runs, except the two that *)
(* capture it on the UI thread (the trailing ink flush, a search).  A      *)
(* session lives from nativeOpenDocumentWithStore to nativeCloseDocument.  *)
(*                                                                         *)
(* The shell (ReaderActivity.kt and its controllers) is not Rust and is    *)
(* modelled from its own source as the caller of the exports.  Handles are *)
(* numbered in the order of the opens and never reused.  A native call of  *)
(* the engine happens in the step that runs its task; the interval between *)
(* taking a task and running it stands for the task's duration.            *)
(***************************************************************************)
EXTENDS Integers, Sequences, FiniteSets

CONSTANTS
  MaxHandle,      \* sessions that can be opened
  PageCounts,     \* page counts a (re)pagination can yield
  MaxInputs,      \* bound: inputs of the UI thread
  Inputs,         \* the inputs a run allows
  Failures        \* whether the core's fallible calls may throw

BridgeAssumption ==
  /\ MaxHandle \in Nat \ {0}
  /\ PageCounts \subseteq Nat \ {0} /\ \E n \in PageCounts : \A m \in PageCounts : m <= n
  /\ MaxInputs \in Nat
  /\ Failures \in BOOLEAN

VARIABLES
  sess,           \* handle -> "none", "open" or "freed"
  core,           \* handle -> the session's page, page count, ink and saved position
  dict,           \* the dictionary corpus: "none", "open" or "freed"
  docHandle,      \* the shell's handle field, 0 for none
  dictHandle,     \* the dictionary controller's handle field, 0 for none
  currentPage,    \* the page the engine last blitted
  pageCount,      \* the page count the engine last read
  lastPrefetched, \* the page last handed to read-ahead
  queue,          \* the engine executor's queue
  running,        \* the task the engine thread is running
  accepting,      \* the executor has not been shut down
  pending,        \* pendingPageDelta, UI thread
  turnInFlight,   \* the coalescing latch, UI thread
  lastTurnDir,    \* direction of travel
  turnDone,       \* the latch's release has been posted to the UI thread
  flushTimer,     \* the trailing ink flush is scheduled
  phase,          \* the activity: "resumed", "paused", "destroyed"
  uiCall,         \* the handle a native call of the UI thread is using, 0 for none
  crashed,        \* an uncaught exception ended the process
  inputs,         \* inputs so far
  want            \* the page the taps since the open add up to, or Lost

coreVars == <<sess, core, dict>>
shellVars == <<docHandle, dictHandle, currentPage, pageCount, lastPrefetched>>
engineVars == <<queue, running, accepting>>
uiVars == <<pending, turnInFlight, lastTurnDir, turnDone, flushTimer, phase, uiCall>>
vars == <<coreVars, shellVars, engineVars, uiVars, crashed, inputs, want>>

Handles == 1 .. MaxHandle
Idle == [op |-> "idle", arg |-> 0]
Task(op, arg) == [op |-> op, arg |-> arg]
Pages == 0 .. (CHOOSE n \in PageCounts : \A m \in PageCounts : m <= n) - 1
Lost == -99

ClampPage(p, n) == IF p < 0 THEN 0 ELSE IF p >= n THEN n - 1 ELSE p

-----------------------------------------------------------------------------
(* The exports.  Each maps a session's state to the set of outcomes: the   *)
(* state it leaves and whether a RuntimeException reaches the shell.       *)

Returns(c) == [c |-> c, threw |-> FALSE]
Throws(c) == [c |-> c, threw |-> TRUE]
MayThrow(c) == IF Failures THEN {Throws(c)} ELSE {}

\* Borrowing the session, or the corpus, behind a handle: the null handle is refused.
session_mut(h) == h # 0
dict_ref(h) == h # 0

\* Opening yields a session at its saved page, or throws.
Fresh == {c \in [page : Pages, pages : PageCounts, ink : {"clean"}, saved : Pages] :
            c.page < c.pages /\ c.saved = c.page}
Blank == [page |-> 0, pages |-> 1, ink |-> "clean", saved |-> 0]
nativeOpenDocumentWithStore == {Returns(c) : c \in Fresh} \cup MayThrow(Blank)
nativeAttachInkStore(c) == {Returns(c)} \cup MayThrow(c)

\* Closing frees the session behind a non-null handle and nothing else.
nativeCloseDocument(h, s) == IF session_mut(h) THEN [s EXCEPT ![h] = "freed"] ELSE s

nativeOnTrimMemory(c) == {Returns(c)}

\* page count, title and author; outline and links; what the view supports.
MetadataExports(c) == {Returns(c)}
NavigationExports(c) == {Returns(c)}
SupportExports(h) == session_mut(h)

\* The render, and read-ahead, which swallows the failure of its own render.
nativeRenderPage(c) ==
  IF c.page < c.pages THEN {Returns(c)} \cup MayThrow(c) ELSE {Throws(c)}
nativePrefetchPage(c) == {Returns(c)}

\* A jump is clamped to the document; a negative page is page 0.  Leaving a page writes its
\* ink (or gives up after the retries, see ReaderInk).
Moved(c, p) == [c EXCEPT !.page = p, !.ink = IF p = c.page THEN c.ink ELSE "clean"]
nativeJumpToPage(c, p) == {Returns(Moved(c, ClampPage(p, c.pages)))}

nativeSavePosition(c) == {Returns([c EXCEPT !.saved = c.page])} \cup MayThrow(c)

\* zoom, contrast, night, fit, quality, crop: the page stays where it is.
ViewExports(c) == {Returns(c)}

\* A new viewport: the page number stays, and the next render lays a book out anew.
nativeSetViewport(c) == {Returns([c EXCEPT !.pages = n]) : n \in PageCounts} \cup MayThrow(c)

\* text scale, font, line spacing, alignment; reflow: a new layout and its page, or -1.
Layouts(c) == {d \in [page : Pages, pages : PageCounts, ink : {"clean"}, saved : {c.saved}] :
                  d.page < d.pages}
TypographyExports(c) ==
  {[c |-> d, page |-> d.page] : d \in Layouts(c)} \cup {[c |-> c, page |-> -1]}
nativeSetReflow(c) == TypographyExports(c)

\* A stroke, an undo or a redo: under the deferred autosave the ink is only marked.
InkStrokeExports(c) == {Returns([c EXCEPT !.ink = "dirty"])} \cup MayThrow(c)
HistoryExports(c) == {Returns([c EXCEPT !.ink = "dirty"])}
nativeInkSave(c) == {Returns([c EXCEPT !.ink = "clean"])} \cup MayThrow(c)
InkReadExports(c) == {Returns(c)} \cup MayThrow(c)

\* Selecting changes nothing; moving, deleting, recolouring, cutting and pasting are written
\* at once, and an edit whose write fails stays in memory.
SelectionReadExports(c) == {Returns(c)}
SelectionEditExports(c) ==
  {Returns([c EXCEPT !.ink = "clean"])} \cup MayThrow([c EXCEPT !.ink = "dirty"])

\* The export writes the ink first.
nativeExportPdf(c) == {Returns([c EXCEPT !.ink = "clean"])} \cup MayThrow(c)

\* words, selections, pins, matches of one page.
TextExports(c) == {Returns(c)}

nativeDictOpen == {"open"} \cup (IF Failures THEN {"none"} ELSE {})
nativeDictClose(h, d) == IF dict_ref(h) THEN "freed" ELSE d
\* A lookup, an import, a removal, a cached definition leave the corpus open.
DictExports(d) == {d}

-----------------------------------------------------------------------------
(* The shell's engine tasks.                                               *)

Init ==
  /\ sess = [h \in Handles |-> "none"]
  /\ core = [h \in Handles |-> Blank]
  /\ dict = "none" /\ dictHandle = 0
  /\ docHandle = 0 /\ currentPage = 0 /\ pageCount = 0 /\ lastPrefetched = -1
  /\ queue = <<>> /\ running = Idle /\ accepting = TRUE
  /\ pending = 0 /\ turnInFlight = FALSE /\ lastTurnDir = 1 /\ turnDone = FALSE
  /\ flushTimer = FALSE /\ phase = "resumed" /\ uiCall = 0
  /\ crashed = FALSE /\ inputs = 0 /\ want = Lost

\* The engine thread takes the next task.
Take ==
  /\ ~crashed /\ running = Idle /\ queue # <<>>
  /\ running' = Head(queue) /\ queue' = Tail(queue)
  /\ UNCHANGED <<coreVars, shellVars, accepting, uiVars, crashed, inputs, want>>

\* renderAndBlit of a session c with count n: on a failed render the shell keeps its page;
\* otherwise it shows c's page and hands the next one to read-ahead, which a shut-down
\* executor refuses with an exception nothing on the engine thread catches.
Ahead(c) == c.page + lastTurnDir
Prefetches(c, n) == Ahead(c) \in 0 .. n - 1 /\ Ahead(c) # lastPrefetched
Shown(c, n) ==
  {IF r.threw THEN [page |-> currentPage, ahead |-> {}, reject |-> FALSE]
   ELSE [page |-> c.page,
         ahead |-> IF Prefetches(c, n) THEN {Ahead(c)} ELSE {},
         reject |-> Prefetches(c, n) /\ ~accepting] : r \in nativeRenderPage(c)}

\* The shell's state after a render v with page count n, and the engine's after the task.
RenderAndBlit(v, n) ==
  /\ currentPage' = v.page /\ pageCount' = n
  /\ lastPrefetched' = IF v.ahead = {} THEN lastPrefetched ELSE CHOOSE a \in v.ahead : TRUE
  /\ crashed' = v.reject
  /\ queue' = IF v.reject \/ v.ahead = {} THEN queue
               ELSE Append(queue, Task("prefetch", lastPrefetched'))
  /\ running' = Idle

EndTask == running' = Idle /\ UNCHANGED <<queue, accepting, crashed, inputs>>
Runs(op) == ~crashed /\ running.op = op
Here == docHandle # 0
Session == core[docHandle]

\* postJump: jump, render, save the position; the latch is released whatever happened.
RunJump ==
  /\ Runs("turn") \/ Runs("link")
  /\ turnDone' = (turnDone \/ running.op = "turn")
  /\ UNCHANGED <<sess, dict, docHandle, dictHandle, accepting, pending, turnInFlight,
                 lastTurnDir, flushTimer, phase, uiCall, inputs>>
  /\ want' = IF running.op = "link" THEN Lost ELSE want
  /\ IF Here
     THEN \E j \in nativeJumpToPage(Session, running.arg) : \E v \in Shown(j.c, pageCount) :
            /\ RenderAndBlit(v, pageCount)
            /\ \E s \in IF v.reject THEN {j} ELSE nativeSavePosition(j.c) :
                 core' = [core EXCEPT ![docHandle] = s.c]
     ELSE /\ running' = Idle
          /\ UNCHANGED <<core, currentPage, pageCount, lastPrefetched, queue, crashed>>

\* openBook: open, attach the ink store, read the page count; then repaint.
OpenBook(h, freed) ==
  \E o \in nativeOpenDocumentWithStore :
    /\ want' = IF o.threw THEN Lost ELSE o.c.page
    /\ IF o.threw
       THEN /\ docHandle' = 0 /\ sess' = freed
            /\ UNCHANGED <<core, currentPage, pageCount, lastPrefetched, queue, crashed>>
            /\ running' = Idle
       ELSE /\ docHandle' = h /\ sess' = [freed EXCEPT ![h] = "open"]
            /\ \E a \in nativeAttachInkStore(o.c) : \E m \in MetadataExports(a.c) :
                 core' = [core EXCEPT ![h] = m.c]
            /\ \E v \in Shown(o.c, o.c.pages) : RenderAndBlit(v, o.c.pages)

NextHandle == Cardinality({h \in Handles : sess[h] # "none"}) + 1

\* onSurfaceSized: open the requested book if none is open, else resize the open one.
RunSurface ==
  /\ Runs("surface")
  /\ UNCHANGED <<dict, dictHandle, accepting, uiVars, inputs>>
  /\ \/ ~Here /\ NextHandle \in Handles /\ OpenBook(NextHandle, sess)
     \/ /\ ~Here /\ NextHandle \notin Handles   \* bound: no more sessions
        /\ running' = Idle
        /\ UNCHANGED <<sess, core, docHandle, currentPage, pageCount, lastPrefetched, queue,
                       crashed, want>>
     \/ /\ Here
        /\ \E r \in nativeSetViewport(Session) : \E v \in Shown(r.c, pageCount) :
             /\ core' = [core EXCEPT ![docHandle] = r.c]
             /\ RenderAndBlit(v, pageCount)
        /\ want' = Lost
        /\ UNCHANGED <<sess, docHandle>>

\* closeDocument's saves: the ink, then the position unless saving the ink threw.
SavedForClose(c) ==
  UNION {IF i.threw THEN {c} ELSE {s.c : s \in nativeSavePosition(i.c)} : i \in nativeInkSave(c)}

\* importAndOpen: save and close the open book, then open the imported one.
RunImport ==
  /\ Runs("import") /\ NextHandle \in Handles
  /\ UNCHANGED <<dict, dictHandle, accepting, uiVars, inputs>>
  /\ IF Here
     THEN \E c \in SavedForClose(Session), o \in nativeOpenDocumentWithStore :
            LET n == NextHandle
                freed == nativeCloseDocument(docHandle, sess)
            IN  /\ want' = IF o.threw THEN Lost ELSE o.c.page
                /\ core' = [core EXCEPT ![docHandle] = c, ![n] = o.c]
                /\ docHandle' = IF o.threw THEN 0 ELSE n
                /\ sess' = IF o.threw THEN freed ELSE [freed EXCEPT ![n] = "open"]
                /\ IF o.threw
                   THEN running' = Idle /\ UNCHANGED <<currentPage, pageCount, lastPrefetched,
                                                       queue, crashed>>
                   ELSE \E v \in Shown(o.c, o.c.pages) : RenderAndBlit(v, o.c.pages)
     ELSE OpenBook(NextHandle, sess)

\* onDestroy's task: save and close the document, free the dictionary.
RunClose ==
  /\ Runs("close") /\ EndTask
  /\ docHandle' = 0 /\ dictHandle' = 0 /\ dict' = nativeDictClose(dictHandle, dict)
  /\ sess' = nativeCloseDocument(docHandle, sess)
  /\ IF Here THEN \E c \in SavedForClose(Session) : core' = [core EXCEPT ![docHandle] = c]
             ELSE UNCHANGED core
  /\ UNCHANGED <<currentPage, pageCount, lastPrefetched, uiVars, want>>

\* onPause's task: flush the ink and, whatever came of it, save the position.
RunPauseSave ==
  /\ Runs("pauseSave") /\ EndTask
  /\ IF Here
     THEN \E i \in nativeInkSave(Session) : \E s \in nativeSavePosition(i.c) :
            core' = [core EXCEPT ![docHandle] = s.c]
     ELSE UNCHANGED core
  /\ UNCHANGED <<sess, dict, shellVars, uiVars, want>>

\* A stroke, an undo or a redo schedules the trailing flush when it returns; a selection
\* edit does not.
RunInkEdit ==
  /\ Runs("inkEdit") /\ EndTask
  /\ IF Here
     THEN \/ \E e \in InkStrokeExports(Session) \cup HistoryExports(Session) :
               /\ core' = [core EXCEPT ![docHandle] = e.c]
               /\ flushTimer' = (flushTimer \/ ~e.threw)
          \/ \E e \in SelectionEditExports(Session) \cup SelectionReadExports(Session) :
               /\ core' = [core EXCEPT ![docHandle] = e.c]
               /\ UNCHANGED flushTimer
     ELSE UNCHANGED <<core, flushTimer>>
  /\ UNCHANGED <<sess, dict, shellVars, pending, turnInFlight, lastTurnDir, turnDone, phase,
                 uiCall, want>>

\* The trailing flush saves through the handle its timer captured.  On a session freed
\* since, the call is undefined: it may do nothing that shows or end the process.
RunFlush ==
  /\ Runs("flush")
  /\ running' = Idle /\ UNCHANGED <<queue, accepting, inputs>>
  /\ IF sess[running.arg] = "open"
     THEN /\ \E i \in nativeInkSave(core[running.arg]) : core' = [core EXCEPT ![running.arg] = i.c]
          /\ UNCHANGED crashed
     ELSE crashed' \in BOOLEAN /\ UNCHANGED core
  /\ UNCHANGED <<sess, dict, shellVars, uiVars, want>>

\* A reflow setting or a view setting: apply, re-read the page count, repaint.
RunReflow ==
  /\ Runs("reflow")
  /\ UNCHANGED <<sess, dict, docHandle, dictHandle, accepting, uiVars, inputs>>
  /\ IF Here
     THEN \E r \in TypographyExports(Session) \cup nativeSetReflow(Session) :
            /\ core' = [core EXCEPT ![docHandle] = r.c]
            /\ IF r.page >= 0
               THEN want' = Lost /\ \E v \in Shown(r.c, r.c.pages) : RenderAndBlit(v, r.c.pages)
               ELSE /\ running' = Idle
                    /\ UNCHANGED <<want, currentPage, pageCount, lastPrefetched, queue, crashed>>
     ELSE /\ running' = Idle
          /\ UNCHANGED <<core, want, currentPage, pageCount, lastPrefetched, queue, crashed>>

RunView ==
  /\ Runs("view")
  /\ UNCHANGED <<sess, dict, docHandle, dictHandle, accepting, uiVars, inputs, want>>
  /\ IF Here
     THEN \E r \in ViewExports(Session) : \E v \in Shown(r.c, pageCount) :
            core' = [core EXCEPT ![docHandle] = r.c] /\ RenderAndBlit(v, pageCount)
     ELSE /\ running' = Idle
          /\ UNCHANGED <<core, currentPage, pageCount, lastPrefetched, queue, crashed>>

\* A search runs through the handle captured with its query, but only while it is still
\* the open document's.
Searches == running.arg = docHandle /\ Here

\* Tasks that leave the shell alone: read-ahead, memory pressure, a search, the contents and
\* annotation lists, an export.
RunRead ==
  /\ \/ Runs("prefetch") \/ Runs("trim") \/ Runs("search") \/ Runs("lists") \/ Runs("export")
  /\ EndTask
  /\ \/ /\ IF running.op = "search" THEN Searches ELSE Here
        /\ \E r \in CASE running.op = "prefetch" -> nativePrefetchPage(Session)
                      [] running.op = "trim" -> nativeOnTrimMemory(Session)
                      [] running.op = "search" -> TextExports(Session)
                      [] running.op = "lists" -> NavigationExports(Session) \cup InkReadExports(Session)
                      [] running.op = "export" -> nativeExportPdf(Session) :
             core' = [core EXCEPT ![docHandle] = r.c]
     \/ ~Here /\ UNCHANGED core
     \/ running.op = "search" /\ ~Searches /\ UNCHANGED core
  /\ UNCHANGED <<sess, dict, shellVars, uiVars, want>>

\* A lookup: the corpus is opened on first use and stays open until teardown.
RunDefine ==
  /\ Runs("define") /\ EndTask
  /\ IF Here
     THEN \E d \in IF dict_ref(dictHandle) THEN {dict} ELSE nativeDictOpen :
            dict' \in DictExports(d) /\ dictHandle' = IF d = "open" THEN 1 ELSE 0
     ELSE UNCHANGED <<dict, dictHandle>>
  /\ UNCHANGED <<sess, core, docHandle, currentPage, pageCount, lastPrefetched, uiVars, want>>

-----------------------------------------------------------------------------
(* The UI thread: never while it is inside a native call of its own.       *)

Ui == ~crashed /\ uiCall = 0
Input(i) == Ui /\ i \in Inputs /\ inputs < MaxInputs /\ inputs' = inputs + 1
Post(t) == queue' = Append(queue, t) /\ UNCHANGED <<running, accepting>>

\* Inputs that post a task: the surface, a link, an ink edit, a setting, memory pressure,
\* a lookup, a list, an export, a search with the handle of the moment.
PostInput(i) ==
  /\ Input(i)
  /\ phase = "resumed" \/ (i = "trim" /\ phase # "destroyed")
  /\ \/ i \in {"surface", "inkEdit", "reflow", "view", "trim", "define", "lists", "export"} /\ Post(Task(i, 0))
     \/ i = "link" /\ \E p \in Pages : Post(Task("link", p))
     \/ i = "search" /\ Here /\ Post(Task("search", docHandle))
  /\ UNCHANGED <<coreVars, shellVars, uiVars, crashed, want>>

FlushKeepsDelta(d) ==
  LET target == ClampPage(currentPage + d, IF pageCount < 1 THEN 1 ELSE pageCount)
      jumps  == d # 0 /\ target # currentPage
  IN  /\ pending' = IF jumps THEN d ELSE 0
      /\ turnInFlight' = jumps
      /\ IF jumps /\ accepting THEN Post(Task("turn", target)) ELSE UNCHANGED engineVars
      /\ crashed' = (jumps /\ ~accepting)

\* flushPageTurns with delta d: one jump for the whole delta, unless one is in flight.
FlushTurns(d) ==
  LET target == ClampPage(currentPage + d, IF pageCount < 1 THEN 1 ELSE pageCount)
      jumps  == d # 0 /\ target # currentPage
  IN  /\ pending' = 0
      /\ turnInFlight' = jumps
      /\ IF jumps /\ accepting THEN Post(Task("turn", target)) ELSE UNCHANGED engineVars
      /\ crashed' = (jumps /\ ~accepting)

\* queuePageTurn: add to the net delta; taps during a jump wait for it.
Tap ==
  \E d \in {-1, 1} :
    /\ Input("tap") /\ phase = "resumed"
    /\ lastTurnDir' = d
    /\ IF turnInFlight
       THEN pending' = pending + d /\ UNCHANGED <<turnInFlight, engineVars, crashed>>
       ELSE FlushTurns(pending + d)
    /\ want' = IF want # Lost /\ want + d \in 0 .. pageCount - 1 THEN want + d ELSE Lost
    /\ UNCHANGED <<coreVars, shellVars, turnDone, flushTimer, phase, uiCall>>

\* The latch's release, on the UI thread: drain what accumulated.
TurnDone ==
  /\ Ui /\ turnDone /\ turnDone' = FALSE
  /\ FlushTurns(pending)
  /\ UNCHANGED <<coreVars, shellVars, lastTurnDir, flushTimer, phase, uiCall, inputs, want>>

\* The trailing flush: the handle is read now, the save runs later.
FlushTimer ==
  /\ Ui /\ "flush" \in Inputs /\ flushTimer /\ flushTimer' = FALSE
  /\ IF Here /\ accepting THEN Post(Task("flush", docHandle)) ELSE UNCHANGED engineVars
  /\ crashed' = (Here /\ ~accepting)
  /\ UNCHANGED <<coreVars, shellVars, pending, turnInFlight, lastTurnDir, turnDone, phase,
                 uiCall, inputs, want>>

\* The adjust sheet asks the core about reflow, and the selection toolbar about the
\* clipboard, on the UI thread.
UiCallEnter ==
  /\ Input("sheet") /\ phase = "resumed" /\ SupportExports(docHandle)
  /\ uiCall' = docHandle
  /\ UNCHANGED <<coreVars, shellVars, engineVars, pending, turnInFlight, lastTurnDir, turnDone,
                 flushTimer, phase, crashed, want>>
UiCallReturn ==
  /\ ~crashed /\ uiCall # 0 /\ uiCall' = 0
  /\ crashed' \in IF sess[uiCall] = "freed" THEN BOOLEAN ELSE {FALSE}
  /\ UNCHANGED <<coreVars, shellVars, engineVars, pending, turnInFlight, lastTurnDir, turnDone,
                 flushTimer, phase, inputs, want>>

\* onPause cancels the trailing flush and posts an explicit save.
Pause ==
  /\ Input("pause") /\ phase = "resumed" /\ phase' = "paused"
  /\ flushTimer' = FALSE /\ Post(Task("pauseSave", 0))
  /\ UNCHANGED <<coreVars, shellVars, pending, turnInFlight, lastTurnDir, turnDone, uiCall,
                 crashed, want>>

Resume ==
  /\ Ui /\ phase = "paused" /\ phase' = "resumed"
  /\ UNCHANGED <<coreVars, shellVars, engineVars, pending, turnInFlight, lastTurnDir, turnDone,
                 flushTimer, uiCall, crashed, inputs, want>>

\* The file picker answers before the activity resumes.
PickedDocument ==
  /\ Input("import") /\ phase = "paused"
  /\ Cardinality({i \in 1 .. Len(queue) : queue[i].op = "import"}) + NextHandle \in Handles
  /\ running.op # "import"
  /\ Post(Task("import", 0))
  /\ UNCHANGED <<coreVars, shellVars, uiVars, crashed, want>>

\* onDestroy posts the close, then shuts the executor down.
Destroy ==
  /\ Input("destroy") /\ phase = "paused" /\ phase' = "destroyed"
  /\ queue' = Append(queue, Task("close", 0)) /\ accepting' = FALSE
  /\ UNCHANGED <<coreVars, shellVars, running, pending, turnInFlight, lastTurnDir, turnDone,
                 flushTimer, uiCall, crashed, want>>

-----------------------------------------------------------------------------
Engine == \/ Take \/ RunJump \/ RunSurface \/ RunImport \/ RunClose \/ RunPauseSave
          \/ RunInkEdit \/ RunFlush \/ RunReflow \/ RunView \/ RunRead \/ RunDefine
UiThread == \/ \E i \in Inputs : PostInput(i)
            \/ Tap \/ TurnDone \/ FlushTimer \/ UiCallEnter \/ UiCallReturn
            \/ Pause \/ Resume \/ PickedDocument \/ Destroy
Next == Engine \/ UiThread

Spec == Init /\ [][Next]_vars
\* The executor's thread and the main looper run whatever has been posted to them.
FairSpec == Spec /\ WF_vars(Engine) /\ WF_vars(TurnDone) /\ WF_vars(FlushTimer)
                 /\ WF_vars(UiCallReturn)

-----------------------------------------------------------------------------
(* Properties.                                                             *)

\* The state keeps its shape.
TypeOK ==
  /\ sess \in [Handles -> {"none", "open", "freed"}]
  /\ \A h \in Handles : core[h].page \in Pages /\ core[h].ink \in {"clean", "dirty"}
  /\ docHandle \in 0 .. MaxHandle /\ uiCall \in 0 .. MaxHandle
  /\ currentPage \in Pages /\ lastTurnDir \in {-1, 1} /\ pending \in Int
  /\ dict \in {"none", "open", "freed"} /\ dictHandle \in {0, 1}
  /\ \A i \in 1 .. Len(queue) : queue[i].op # "idle"

\* Every native call finds a live session: the handle field, the handle a posted flush
\* carries when it runs and the one the UI thread is inside of were returned by an open and
\* not yet closed, as session_mut's safety comment requires.
LiveHandle ==
  crashed \/
    /\ docHandle # 0 => sess[docHandle] = "open"
    /\ dictHandle # 0 => dict = "open"
    /\ uiCall # 0 => sess[uiCall] = "open"
    /\ running.op = "flush" => sess[running.arg] = "open"

\* Sessions are never leaked: at most the handle field's session is open, so once the close
\* posted at teardown has run none is.
NoLeak == \A h \in Handles : sess[h] = "open" => h = docHandle

\* Nothing is lost at a close: a session is freed with its ink on disk and its position
\* saved (when no save fails), whichever tasks ran before the close and in which order.
SavedBeforeFreeStep ==
    \A h \in Handles : sess[h] = "open" /\ sess'[h] = "freed"
      => core'[h].ink = "clean" /\ core'[h].saved = core'[h].page
SavedBeforeFree == [][SavedBeforeFreeStep]_vars

\* Coalescing neither drops nor doubles a tap: at rest, the core is on the page the taps add
\* up to, as long as they stayed inside the document and nothing else moved the page.
AtRest == queue = <<>> /\ running = Idle /\ ~turnInFlight /\ ~turnDone
TurnsLand == AtRest /\ Here /\ want # Lost => Session.page = want

\* The coalescing latch is always released again, also when the jump failed or found no
\* document.
LatchReleased == turnInFlight ~> (~turnInFlight \/ crashed)

\* Deferred ink reaches the disk: an edited open session is eventually saved, by the
\* trailing flush, a pause or its close, although a pause cancels a scheduled flush.
Unsaved(h) == sess[h] = "open" /\ core[h].ink = "dirty"
InkReachesDisk == \A h \in Handles : Unsaved(h) ~> (core[h].ink = "clean" \/ crashed)
=============================================================================
