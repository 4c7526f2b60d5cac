---------------------------- MODULE MCLiveDevices ---------------------------
(***************************************************************************)
(* What must happen on the devices: edits made one at a time reach         *)
(* everyone, a PDF comes back to its name, baselines catch up, saves are   *)
(* uploaded, publishers are answered, ink reaches the disk. A spread view  *)
(* is regenerated beside it (SpreadRegeneration, which is extended here),  *)
(* where only safety is checked. A behaviour follows one instance, the     *)
(* scenario; the variables of the other modules are Parked, those of a     *)
(* module it EXTENDS at rest.                                              *)
(***************************************************************************)
EXTENDS Naturals, Sequences, SequencesExt, SpreadRegeneration

CONSTANTS Scenarios, Parked, p1, p2

VARIABLES scenario,   \* the instance a behaviour follows
          resolved, pdf, ink, incoming, acked, exports, status,
          device, retired, ack, sending, inPdf, inDesc, outPdf, outDesc, markers, noted,
          seen,
          windows, dest, backup, delivered, unpublished, published, expect, target, edits,
          frontier, cache, jobs, job, keep, built, sent, left,
          file, written, saving, saves, stops, obs, late, content, posted, open,
          pinned, holder, docDir, entry, possible, files, synced, detached, deaths, losses,
          sess, core, dict, docHandle, dictHandle, currentPage, pageCount, lastPrefetched,
          queue, running, accepting, turnInFlight, lastTurnDir, turnDone, flushTimer,
          phase, uiCall, crashed, inputs, want,
          canon, uploads, processed, conflicts, view, manifests, generation, saved, work,
          pc, todo, used, accepted, uploaded, pending, crashes, errors, journal

pollVars == <<resolved, pdf, ink, incoming, acked, exports, status>>
handoffVars == <<device, retired, ack, sending, inPdf, inDesc, outPdf, outDesc, markers,
                noted, seen>>
installVars == <<windows, dest, backup, delivered, unpublished, published, expect, target,
                edits>>
baselineVars == <<frontier, cache, jobs, job, keep, built, sent, left>>
settleVars == <<file, written, saving, saves, stops, obs, late, content, posted, open>>
cacheVars == <<pinned, holder, docDir, entry, possible, files, synced, detached, deaths,
              losses>>
bridgeVars == <<sess, core, dict, docHandle, dictHandle, currentPage, pageCount,
               lastPrefetched, queue, running, accepting, turnInFlight, lastTurnDir,
               turnDone, flushTimer, phase, uiCall, crashed, inputs, want>>
suiteVars == <<scenario, pollVars, handoffVars, installVars, baselineVars, settleVars,
          cacheVars, bridgeVars, vars, canon, uploads, processed, conflicts, view,
          manifests, generation, saved, work, pc, todo, used, accepted, uploaded, pending,
          crashes, errors, journal>>

\* A page, a batch of two pages and a malformed export.
Text(schema, form, pages) == [schema |-> schema, form |-> form, pages |-> pages]
SomeTexts == {Text("2", "page", <<1>>), Text("1", "pages", <<1, 0>>), Text("3", "page", <<0>>)}

Installing == scenario = "install"

Folder == INSTANCE FolderTransport
    WITH Pages <- {1}, MaxBooxEdits <- 1, MaxSupernoteEdits <- 2, MaxExports <- 3,
         MaxCrashes <- 1, MaxDrops <- 1, Sequential <- TRUE
Handoff == INSTANCE BooxHandoff
    WITH MaxBooxEdits <- 1, MaxSupernoteEdits <- 1, MaxLateEdits <- 0, MaxCrashes <- 0,
         MaxDrops <- 1, MaxLosses <- 0, Sequential <- TRUE
Install == INSTANCE LocalInstall
    WITH MaxEdits <- 2, MaxViews <- 2, MaxCrashes <- 1, MaxErrors <- 1
Baselines == INSTANCE AcceptedBaselines
    WITH Texts <- SomeTexts, MaxUploads <- 2, MaxRivals <- 0, MaxDamage <- 1,
         MaxFaults <- 1
Settling == INSTANCE FileSettle
    WITH Chunks <- 2, Settle <- 2, MaxPass <- 1, MaxSaves <- 2, MaxStops <- 0,
         MaxCrashes <- 0, SameStamp <- TRUE
Cache == INSTANCE SpreadCache
    WITH Procs <- {p1, p2}, Bytes <- [p \in {p1, p2} |-> "x"], MaxDirs <- 3,
         MaxDeaths <- 1, MaxLosses <- 0, MaxErrors <- 1, MaxDetaches <- 0
Saves == INSTANCE ReaderBridge
    WITH MaxHandle <- 1, PageCounts <- {2}, MaxInputs <- 4,
         Inputs <- {"surface", "tap", "inkEdit", "flush", "pause", "destroy"},
         Failures <- FALSE
Faulty == INSTANCE ReaderBridge
    WITH MaxHandle <- 1, PageCounts <- {2}, MaxInputs <- 4,
         Inputs <- {"surface", "tap", "inkEdit", "flush", "sheet", "pause", "trim"},
         Failures <- TRUE

ASSUME Folder!TransportAssumption /\ Handoff!HandoffAssumption /\ Install!InstallAssumption
       /\ Baselines!BaselineAssumption /\ Settling!SettleAssumption
       /\ Cache!SpreadCacheAssumption /\ Saves!BridgeAssumption /\ Faulty!BridgeAssumption
       /\ RegenerationAssumption

NoPoll == resolved = Parked /\ pdf = Parked /\ ink = Parked /\ incoming = Parked
       /\ acked = Parked /\ exports = Parked /\ status = Parked
NoHandoff == device = Parked /\ retired = Parked /\ ack = Parked /\ sending = Parked
          /\ inPdf = Parked /\ inDesc = Parked /\ outPdf = Parked /\ outDesc = Parked
          /\ markers = Parked /\ noted = Parked /\ seen = Parked
NoInstall == windows = Parked /\ dest = Parked /\ backup = Parked /\ delivered = Parked
          /\ unpublished = Parked /\ published = Parked /\ expect = Parked
          /\ target = Parked /\ edits = Parked
NoBaseline == frontier = Parked /\ cache = Parked /\ jobs = Parked /\ job = Parked
           /\ keep = Parked /\ built = Parked /\ sent = Parked /\ left = Parked
NoSettle == file = Parked /\ written = Parked /\ saving = Parked /\ saves = Parked
         /\ stops = Parked /\ obs = Parked /\ late = Parked /\ content = Parked
         /\ posted = Parked /\ open = Parked
NoCache == pinned = Parked /\ holder = Parked /\ docDir = Parked /\ entry = Parked
        /\ possible = Parked /\ files = Parked /\ synced = Parked /\ detached = Parked
        /\ deaths = Parked /\ losses = Parked
NoBridge == sess = Parked /\ core = Parked /\ dict = Parked /\ docHandle = Parked
         /\ dictHandle = Parked /\ currentPage = Parked /\ pageCount = Parked
         /\ lastPrefetched = Parked /\ queue = Parked /\ running = Parked
         /\ accepting = Parked /\ turnInFlight = Parked /\ lastTurnDir = Parked
         /\ turnDone = Parked /\ flushTimer = Parked /\ phase = Parked /\ uiCall = Parked
         /\ crashed = Parked /\ inputs = Parked /\ want = Parked

\* The extended module at rest, while another is followed.
Resting == tx = Unbegun /\ live = FALSE

SuiteInit ==
    /\ scenario \in Scenarios
    /\ \/ scenario = "folder" /\ Folder!Init /\ accepted = Parked /\ uploaded = Parked
          /\ pending = Parked /\ crashes = Parked /\ errors = Parked /\ journal = Parked
          /\ NoHandoff /\ NoInstall /\ NoBaseline /\ NoSettle /\ NoCache /\ NoBridge
          /\ Resting
       \/ scenario = "handoff" /\ Handoff!Init /\ uploaded = Parked /\ pending = Parked
          /\ crashes = Parked /\ errors = Parked /\ journal = Parked /\ NoPoll /\ NoInstall
          /\ NoBaseline /\ NoSettle /\ NoCache /\ NoBridge /\ Resting
       \/ scenario = "install" /\ Install!Init /\ canon = Parked /\ uploads = Parked
          /\ processed = Parked /\ conflicts = Parked /\ manifests = Parked
          /\ generation = Parked /\ saved = Parked /\ work = Parked /\ todo = Parked
          /\ used = Parked /\ accepted = Parked /\ journal = Parked /\ NoPoll /\ NoHandoff
          /\ NoBaseline /\ NoSettle /\ NoCache /\ NoBridge /\ Resting
       \/ scenario = "baselines" /\ Baselines!Init /\ canon = Parked /\ processed = Parked
          /\ conflicts = Parked /\ view = Parked /\ manifests = Parked
          /\ generation = Parked /\ saved = Parked /\ work = Parked /\ todo = Parked
          /\ used = Parked /\ uploaded = Parked /\ pending = Parked /\ crashes = Parked
          /\ errors = Parked /\ NoPoll /\ NoHandoff /\ NoInstall /\ NoSettle /\ NoCache
          /\ NoBridge /\ Resting
       \/ scenario = "settle" /\ Settling!Init /\ canon = Parked /\ uploads = Parked
          /\ processed = Parked /\ conflicts = Parked /\ view = Parked
          /\ manifests = Parked /\ generation = Parked /\ saved = Parked /\ work = Parked
          /\ todo = Parked /\ used = Parked /\ accepted = Parked /\ errors = Parked
          /\ NoPoll /\ NoHandoff /\ NoInstall /\ NoBaseline /\ NoCache /\ NoBridge
          /\ Resting
       \/ scenario = "cache" /\ Cache!Init /\ canon = Parked /\ uploads = Parked
          /\ processed = Parked /\ conflicts = Parked /\ view = Parked
          /\ manifests = Parked /\ generation = Parked /\ saved = Parked /\ work = Parked
          /\ todo = Parked /\ used = Parked /\ accepted = Parked /\ uploaded = Parked
          /\ pending = Parked /\ crashes = Parked /\ journal = Parked /\ NoPoll
          /\ NoHandoff /\ NoInstall /\ NoBaseline /\ NoSettle /\ NoBridge /\ Resting
       \/ scenario = "saves" /\ Saves!Init /\ canon = Parked /\ uploads = Parked
          /\ processed = Parked /\ conflicts = Parked /\ view = Parked
          /\ manifests = Parked /\ generation = Parked /\ saved = Parked /\ work = Parked
          /\ pc = Parked /\ todo = Parked /\ used = Parked /\ accepted = Parked
          /\ uploaded = Parked /\ crashes = Parked /\ errors = Parked /\ journal = Parked
          /\ NoPoll /\ NoHandoff /\ NoInstall /\ NoBaseline /\ NoSettle /\ NoCache
          /\ Resting
       \/ scenario = "faults" /\ Faulty!Init /\ canon = Parked /\ uploads = Parked
          /\ processed = Parked /\ conflicts = Parked /\ view = Parked
          /\ manifests = Parked /\ generation = Parked /\ saved = Parked /\ work = Parked
          /\ pc = Parked /\ todo = Parked /\ used = Parked /\ accepted = Parked
          /\ uploaded = Parked /\ crashes = Parked /\ errors = Parked /\ journal = Parked
          /\ NoPoll /\ NoHandoff /\ NoInstall /\ NoBaseline /\ NoSettle /\ NoCache
          /\ Resting
       \/ scenario = "record" /\ Init /\ canon = Parked /\ uploads = Parked
          /\ processed = Parked /\ conflicts = Parked /\ view = Parked
          /\ manifests = Parked /\ generation = Parked /\ saved = Parked /\ work = Parked
          /\ pc = Parked /\ todo = Parked /\ used = Parked /\ accepted = Parked
          /\ uploaded = Parked /\ pending = Parked /\ crashes = Parked /\ errors = Parked
          /\ journal = Parked /\ NoPoll /\ NoHandoff /\ NoInstall /\ NoBaseline /\ NoSettle
          /\ NoCache /\ NoBridge

SuiteNext ==
    /\ UNCHANGED scenario
    /\ \/ /\ scenario = "folder" /\ Folder!Next
          /\ UNCHANGED <<accepted, uploaded, pending, crashes, errors, journal,
                         handoffVars, installVars, baselineVars, settleVars, cacheVars,
                         bridgeVars, vars>>
       \/ /\ scenario = "handoff" /\ Handoff!Next
          /\ UNCHANGED <<uploaded, pending, crashes, errors, journal, pollVars,
                         installVars, baselineVars, settleVars, cacheVars, bridgeVars, vars>>
       \/ /\ scenario = "install" /\ Install!Next
          /\ UNCHANGED <<canon, uploads, processed, conflicts, manifests, generation,
                         saved, work, todo, used, accepted, journal, pollVars, handoffVars,
                         baselineVars, settleVars, cacheVars, bridgeVars, vars>>
       \/ /\ scenario = "baselines" /\ Baselines!Next
          /\ UNCHANGED <<canon, processed, conflicts, view, manifests, generation, saved,
                         work, todo, used, uploaded, pending, crashes, errors, pollVars,
                         handoffVars, installVars, settleVars, cacheVars, bridgeVars, vars>>
       \/ /\ scenario = "settle" /\ Settling!Next
          /\ UNCHANGED <<canon, uploads, processed, conflicts, view, manifests, generation,
                         saved, work, todo, used, accepted, errors, pollVars, handoffVars,
                         installVars, baselineVars, cacheVars, bridgeVars, vars>>
       \/ /\ scenario = "cache" /\ Cache!Next
          /\ UNCHANGED <<canon, uploads, processed, conflicts, view, manifests, generation,
                         saved, work, todo, used, accepted, uploaded, pending, crashes,
                         journal, pollVars, handoffVars, installVars, baselineVars,
                         settleVars, bridgeVars, vars>>
       \/ /\ scenario = "saves" /\ Saves!Next
          /\ UNCHANGED <<canon, uploads, processed, conflicts, view, manifests, generation,
                         saved, work, pc, todo, used, accepted, uploaded, crashes, errors,
                         journal, pollVars, handoffVars, installVars, baselineVars,
                         settleVars, cacheVars, vars>>
       \/ /\ scenario = "faults" /\ Faulty!Next
          /\ UNCHANGED <<canon, uploads, processed, conflicts, view, manifests, generation,
                         saved, work, pc, todo, used, accepted, uploaded, crashes, errors,
                         journal, pollVars, handoffVars, installVars, baselineVars,
                         settleVars, cacheVars, vars>>
       \/ /\ scenario = "record" /\ Next
          /\ UNCHANGED <<canon, uploads, processed, conflicts, view, manifests, generation,
                         saved, work, pc, todo, used, accepted, uploaded, pending, crashes,
                         errors, journal, pollVars, handoffVars, installVars, baselineVars,
                         settleVars, cacheVars, bridgeVars>>

\* The fairness of each module, in its scenario.
Fairness ==
    /\ WF_(Folder!vars)(scenario = "folder" /\ Folder!Poll)
    /\ WF_(Folder!vars)(scenario = "folder" /\ Folder!ApplyManifest)
    /\ WF_(Folder!vars)(scenario = "folder" /\ \E u \in uploads : Folder!Process(u))
    /\ WF_(Folder!vars)(scenario = "folder" /\ \E u \in uploads : Folder!Resolve(u))
    /\ WF_(Folder!vars)(scenario = "folder" /\ Folder!Unsent(1) /\ Folder!Export(1))
    /\ WF_(Handoff!vars)(scenario = "handoff" /\ Handoff!Poll)
    /\ WF_(Handoff!vars)(scenario = "handoff" /\ Handoff!Finalize)
    /\ WF_(Handoff!vars)(scenario = "handoff" /\ Handoff!Acknowledge)
    /\ WF_(Handoff!vars)(scenario = "handoff" /\ \E d \in inPdf : Handoff!Install(d))
    /\ WF_(Handoff!vars)(scenario = "handoff" /\ \E f \in sending : Handoff!Mirror(f))
    /\ WF_(Handoff!vars)(scenario = "handoff" /\ \E u \in uploads : Handoff!Process(u))
    /\ WF_(Handoff!vars)(scenario = "handoff" /\ \E u \in uploads : Handoff!Resolve(u))
    /\ WF_(Install!vars)(Installing /\ UNCHANGED windows /\ Install!Deliver)
    /\ WF_(Install!vars)(Installing /\ UNCHANGED windows /\ Install!Upload)
    /\ WF_(Baselines!vars)(scenario = "baselines" /\ Baselines!BrokerAccepts)
    /\ WF_(Baselines!vars)(scenario = "baselines" /\ Baselines!Recovery)
    /\ WF_(Baselines!vars)(scenario = "baselines" /\ (Baselines!Build \/ Baselines!Send))
    /\ WF_(Settling!vars)(scenario = "settle" /\ Settling!Tick)
    /\ WF_(Settling!vars)(scenario = "settle" /\ Settling!WriteChunk)
    /\ WF_(Settling!vars)(scenario = "settle" /\ Settling!Poll)
    /\ SF_(Baselines!vars)(scenario = "baselines" /\ Baselines!BeginRecovery)
    /\ SF_(Settling!vars)(scenario = "settle" /\ Settling!Accepted)
    /\ \A p \in {p1, p2} : WF_(Cache!vars)(scenario = "cache" /\ Cache!Steps(p))
    /\ WF_(Saves!vars)(scenario = "saves" /\ Saves!Engine) /\ WF_(Saves!vars)(scenario = "saves" /\ Saves!TurnDone)
    /\ WF_(Saves!vars)(scenario = "saves" /\ Saves!FlushTimer) /\ WF_(Saves!vars)(scenario = "saves" /\ Saves!UiCallReturn)
    /\ WF_(Faulty!vars)(scenario = "faults" /\ Faulty!Engine) /\ WF_(Faulty!vars)(scenario = "faults" /\ Faulty!TurnDone)
    /\ WF_(Faulty!vars)(scenario = "faults" /\ Faulty!FlushTimer) /\ WF_(Faulty!vars)(scenario = "faults" /\ Faulty!UiCallReturn)

SuiteSpec == SuiteInit /\ [][SuiteNext]_suiteVars /\ Fairness
-----------------------------------------------------------------------------
\* FolderTransport and BooxHandoff: edits made one device at a time end up
\* everywhere.
\*   - FolderConverges: with edits made one device at a time, everything ends
\*     up everywhere, whatever crashes and lost deliveries come between.
\*   - HandoffConverges: edits made one at a time reach the broker and the
\*     BOOX, in spite of a file the sync client lost.
EditsConverge ==
    /\ <>[](scenario = "folder" => Folder!InStep)
    /\ <>[](scenario = "handoff" => Handoff!AllArrived)

\* LocalInstall, AcceptedBaselines, FileSettle, SpreadCache and ReaderBridge:
\* what was interrupted or deferred is done in the end.
\*   - PdfReturns: whatever fails or crashes while the PDF is staged, a later
\*     poll puts a PDF back at its name.
\*   - BaselinesCatchUp: whatever is accepted is journalled in the end;
\*     damage, failed downloads and crashes only delay it.
\*   - LastSaveUploads: the last save is uploaded in the end, if its writer
\*     finished it.
\*   - EveryoneAnswered: every publisher is answered.
\*   - InkReachesDisk: an edited open session is saved in the end, by the
\*     trailing flush, a pause or its close, although a pause cancels a
\*     scheduled flush.
\*   - LatchReleased: the latch that coalesces page turns is always released
\*     again, also when the jump failed or found no document.
WorkFinishes ==
    /\ (Installing /\ backup # Install!Missing) ~> (Installing /\ dest # Install!Missing)
    /\ \A n \in 1 .. 2 : (scenario = "baselines" /\ frontier = n) ~> (scenario = "baselines" /\ journal.rev >= n)
    /\ (scenario = "settle" /\ Settling!Saved) ~> (scenario = "settle" /\ uploaded = file.chunks)
    /\ <>[](scenario = "cache" => Cache!Answered)
    /\ (scenario = "saves" /\ Saves!Unsaved(1)) ~> (scenario = "saves" /\ (core[1].ink = "clean" \/ crashed))
    /\ (scenario = "faults" /\ turnInFlight) ~> (scenario = "faults" /\ (~turnInFlight \/ crashed))
=============================================================================
