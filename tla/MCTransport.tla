----------------------------- MODULE MCTransport ----------------------------
(***************************************************************************)
(* The folder transport: its poll against the broker and both devices, the *)
(* accepted baselines behind its manifests, and the settling of a file     *)
(* before it is uploaded, and the handoff with the BOOX companion when     *)
(* edits race with the polls, the transport crashes, or a mirror or        *)
(* checkpoint is lost. A behaviour follows one instance, the scenario; the *)
(* variables of the other modules are Parked, those of a module it EXTENDS *)
(* at rest.                                                                *)
(***************************************************************************)
EXTENDS Integers, Sequences, TLC, FolderTransport

CONSTANTS Scenarios, Parked, s1, o1, n1

VARIABLES scenario,   \* the instance a behaviour follows
          frontier, cache, jobs, job, keep, built, sent, left,
          file, written, saving, saves, stops, crashes, obs, uploaded, pending, late,
          content, posted, open,
          theirProcessed, theirConflicts, theirManifests, theirGeneration, device, retired,
          ack, sending, inPdf, inDesc, outPdf, outDesc, markers, noted, theirSaved,
          theirWork, theirTodo, seen, theirUsed,
          original, theirPdf, baseline, fresh, operations, phase, edits, rounds,
          m, verdict,
          theirUploads, journal, theirPc, accepted, theirCanon, theirView

baselineVars == <<frontier, cache, jobs, job, keep, built, sent, left>>
settleVars == <<file, written, saving, saves, stops, crashes, obs, uploaded, pending, late,
               content, posted, open>>
handoffVars == <<theirProcessed, theirConflicts, theirManifests, theirGeneration, device,
                retired, ack, sending, inPdf, inDesc, outPdf, outDesc, markers, noted,
                theirSaved, theirWork, theirTodo, seen, theirUsed>>
inkVars == <<original, theirPdf, baseline, fresh, operations, phase, edits, rounds>>
mappingVars == <<m, verdict>>
suiteVars == <<scenario, baselineVars, settleVars, handoffVars, inkVars, mappingVars, vars,
          theirUploads, journal, theirPc, accepted, theirCanon, theirView>>

\* Exports of two pages: single pages, batches in either order, and malformed ones.
Text(schema, form, pages) == [schema |-> schema, form |-> form, pages |-> pages]
AnyTexts == {Text(None, "page", <<0>>), Text("2", "page", <<1>>), Text("1", "pages", <<1, 0>>),
             Text("1", "pages", <<0, 0>>), Text("2", "pages", <<0, 1>>), Text("3", "page", <<0>>),
             Text("1", "both", <<0>>), Text("1", "pages", <<>>)}

\* A page turned once and one upside down and away from the origin.
Turned == (0 :> 90) @@ (1 :> 180)
PageBoxes == (0 :> [left |-> 0, bottom |-> 0, w |-> 2, h |-> 4]) @@ (1 :> [left |-> 3, bottom |-> 5, w |-> 4, h |-> 2])

\* Originals with ink of their own: named, nameless, under a name InkBridge uses, damaged.
OfOriginal(id, shape) ==
    [id |-> id, page |-> 0, at |-> <<1, 2>>, thick |-> 400, color |-> 0, kind |-> "ink", owned |-> FALSE, shape |-> shape]
InkedOriginals == {{OfOriginal(o1, "ok")}, {OfOriginal(None, "ok"), OfOriginal(s1, "ok")}, {OfOriginal(o1, "damaged")}}

Crashing == INSTANCE FolderTransport
    WITH Pages <- {1}, MaxBooxEdits <- 2, MaxSupernoteEdits <- 1, MaxExports <- 2,
         MaxCrashes <- 1, MaxDrops <- 0, Sequential <- FALSE
Baselines == INSTANCE AcceptedBaselines
    WITH Texts <- AnyTexts, MaxUploads <- 2, MaxRivals <- 1, MaxDamage <- 1,
         MaxFaults <- 1, uploads <- theirUploads, pc <- theirPc
Settling == INSTANCE FileSettle
    WITH Chunks <- 2, Settle <- 3, MaxPass <- 1, MaxSaves <- 2, MaxStops <- 1,
         MaxCrashes <- 1, SameStamp <- FALSE, pc <- theirPc
LateEdits == INSTANCE BooxHandoff
    WITH MaxBooxEdits <- 1, MaxSupernoteEdits <- 1, MaxLateEdits <- 1, MaxCrashes <- 0,
         MaxDrops <- 0, MaxLosses <- 0, Sequential <- FALSE, canon <- theirCanon,
         uploads <- theirUploads, processed <- theirProcessed, conflicts <- theirConflicts,
         view <- theirView, manifests <- theirManifests, generation <- theirGeneration,
         saved <- theirSaved, work <- theirWork, pc <- theirPc, todo <- theirTodo,
         used <- theirUsed
Restarting == INSTANCE BooxHandoff
    WITH MaxBooxEdits <- 1, MaxSupernoteEdits <- 1, MaxLateEdits <- 0, MaxCrashes <- 1,
         MaxDrops <- 0, MaxLosses <- 1, Sequential <- FALSE, canon <- theirCanon,
         uploads <- theirUploads, processed <- theirProcessed, conflicts <- theirConflicts,
         view <- theirView, manifests <- theirManifests, generation <- theirGeneration,
         saved <- theirSaved, work <- theirWork, pc <- theirPc, todo <- theirTodo,
         used <- theirUsed
Lossy == INSTANCE BooxHandoff
    WITH MaxBooxEdits <- 1, MaxSupernoteEdits <- 1, MaxLateEdits <- 0, MaxCrashes <- 0,
         MaxDrops <- 1, MaxLosses <- 1, Sequential <- FALSE, canon <- theirCanon,
         uploads <- theirUploads, processed <- theirProcessed, conflicts <- theirConflicts,
         view <- theirView, manifests <- theirManifests, generation <- theirGeneration,
         saved <- theirSaved, work <- theirWork, pc <- theirPc, todo <- theirTodo,
         used <- theirUsed
Deltas == INSTANCE BooxInk
    WITH Compact <- TRUE, Ids <- {s1, o1, n1}, FreshIds <- {n1}, Pages <- {0, 1},
         Rotation <- Turned, Box <- PageBoxes, Points <- {<<0, 1>>, <<2, 2>>}, Grid <- 2,
         Thicknesses <- {400}, Colors <- {0}, OriginalSets <- InkedOriginals,
         MaxEdits <- 2, MaxRounds <- 1, canon <- theirCanon, view <- theirView,
         pdf <- theirPdf
FullViews == INSTANCE BooxInk
    WITH Compact <- FALSE, Ids <- {s1, o1, n1}, FreshIds <- {n1}, Pages <- {0, 1},
         Rotation <- Turned, Box <- PageBoxes, Points <- {<<0, 1>>, <<2, 2>>}, Grid <- 2,
         Thicknesses <- {400}, Colors <- {0}, OriginalSets <- InkedOriginals,
         MaxEdits <- 2, MaxRounds <- 1, canon <- theirCanon, view <- theirView,
         pdf <- theirPdf
Rounds == INSTANCE BooxInk
    WITH Compact <- TRUE, Ids <- {s1, n1}, FreshIds <- {n1}, Pages <- {0, 1},
         Rotation <- Turned, Box <- PageBoxes, Points <- {<<0, 1>>, <<2, 2>>}, Grid <- 2,
         Thicknesses <- {40, 400}, Colors <- {0, 201}, OriginalSets <- {{}}, MaxEdits <- 1,
         MaxRounds <- 3, canon <- theirCanon, view <- theirView, pdf <- theirPdf
\* an upright page and a square one away from the origin
Spread == INSTANCE SpreadMapping
    WITH MaxPages <- 3, Boxes <- {<<0, 0, 2, 4>>, <<2, -4, 6, -2>>},
         Sheets <- {[w |-> 10, h |-> 8, gutter |-> 2], [w |-> 12, h |-> 4, gutter |-> 0]},
         Grid <- 2

ASSUME TransportAssumption /\ Crashing!TransportAssumption /\ Baselines!BaselineAssumption
       /\ Settling!SettleAssumption /\ LateEdits!HandoffAssumption
       /\ Restarting!HandoffAssumption /\ Lossy!HandoffAssumption
       /\ Deltas!BooxInkAssumption /\ FullViews!BooxInkAssumption
       /\ Rounds!BooxInkAssumption /\ Spread!SpreadMappingAssumption

NoBaseline == frontier = Parked /\ cache = Parked /\ jobs = Parked /\ job = Parked
           /\ keep = Parked /\ built = Parked /\ sent = Parked /\ left = Parked
NoSettle == file = Parked /\ written = Parked /\ saving = Parked /\ saves = Parked
         /\ stops = Parked /\ crashes = Parked /\ obs = Parked /\ uploaded = Parked
         /\ pending = Parked /\ late = Parked /\ content = Parked /\ posted = Parked
         /\ open = Parked
NoHandoff == theirProcessed = Parked /\ theirConflicts = Parked /\ theirManifests = Parked
          /\ theirGeneration = Parked /\ device = Parked /\ retired = Parked
          /\ ack = Parked /\ sending = Parked /\ inPdf = Parked /\ inDesc = Parked
          /\ outPdf = Parked /\ outDesc = Parked /\ markers = Parked /\ noted = Parked
          /\ theirSaved = Parked /\ theirWork = Parked /\ theirTodo = Parked
          /\ seen = Parked /\ theirUsed = Parked
NoInk == original = Parked /\ theirPdf = Parked /\ baseline = Parked /\ fresh = Parked
      /\ operations = Parked /\ phase = Parked /\ edits = Parked /\ rounds = Parked
NoMapping == m = Parked /\ verdict = Parked

\* The extended module at rest, while another is followed.
Resting == Init

SuiteInit ==
    /\ scenario \in Scenarios
    /\ \/ scenario = "race" /\ Init /\ theirUploads = Parked /\ journal = Parked
          /\ theirPc = Parked /\ accepted = Parked /\ theirCanon = Parked
          /\ theirView = Parked /\ NoBaseline /\ NoSettle /\ NoHandoff /\ NoInk
          /\ NoMapping
       \/ scenario = "crash" /\ Crashing!Init /\ theirUploads = Parked /\ journal = Parked
          /\ theirPc = Parked /\ accepted = Parked /\ theirCanon = Parked
          /\ theirView = Parked /\ NoBaseline /\ NoSettle /\ NoHandoff /\ NoInk
          /\ NoMapping
       \/ scenario = "baselines" /\ Baselines!Init /\ theirCanon = Parked
          /\ theirView = Parked /\ NoSettle /\ NoHandoff /\ NoInk /\ NoMapping /\ Resting
       \/ scenario = "settle" /\ Settling!Init /\ theirUploads = Parked
          /\ accepted = Parked /\ theirCanon = Parked /\ theirView = Parked /\ NoBaseline
          /\ NoHandoff /\ NoInk /\ NoMapping /\ Resting
       \/ scenario = "late" /\ LateEdits!Init /\ journal = Parked /\ NoBaseline /\ NoSettle
          /\ NoInk /\ NoMapping /\ Resting
       \/ scenario = "restart" /\ Restarting!Init /\ journal = Parked /\ NoBaseline
          /\ NoSettle /\ NoInk /\ NoMapping /\ Resting
       \/ scenario = "lossy" /\ Lossy!Init /\ journal = Parked /\ NoBaseline /\ NoSettle
          /\ NoInk /\ NoMapping /\ Resting
       \/ scenario = "deltas" /\ Deltas!Init /\ theirUploads = Parked /\ journal = Parked
          /\ theirPc = Parked /\ accepted = Parked /\ NoBaseline /\ NoSettle /\ NoHandoff
          /\ NoMapping /\ Resting
       \/ scenario = "views" /\ FullViews!Init /\ theirUploads = Parked /\ journal = Parked
          /\ theirPc = Parked /\ accepted = Parked /\ NoBaseline /\ NoSettle /\ NoHandoff
          /\ NoMapping /\ Resting
       \/ scenario = "rounds" /\ Rounds!Init /\ theirUploads = Parked /\ journal = Parked
          /\ theirPc = Parked /\ accepted = Parked /\ NoBaseline /\ NoSettle /\ NoHandoff
          /\ NoMapping /\ Resting
       \/ scenario = "spread" /\ Spread!Init /\ theirUploads = Parked /\ journal = Parked
          /\ theirPc = Parked /\ accepted = Parked /\ theirCanon = Parked
          /\ theirView = Parked /\ NoBaseline /\ NoSettle /\ NoHandoff /\ NoInk /\ Resting

SuiteNext ==
    /\ UNCHANGED scenario
    /\ \/ /\ scenario = "race" /\ Next
          /\ UNCHANGED <<theirUploads, journal, theirPc, accepted, theirCanon, theirView,
                         baselineVars, settleVars, handoffVars, inkVars, mappingVars>>
       \/ /\ scenario = "crash" /\ Crashing!Next
          /\ UNCHANGED <<theirUploads, journal, theirPc, accepted, theirCanon, theirView,
                         baselineVars, settleVars, handoffVars, inkVars, mappingVars>>
       \/ /\ scenario = "baselines" /\ Baselines!Next
          /\ UNCHANGED <<theirCanon, theirView, vars, settleVars, handoffVars, inkVars,
                         mappingVars>>
       \/ /\ scenario = "settle" /\ Settling!Next
          /\ UNCHANGED <<theirUploads, accepted, theirCanon, theirView, vars, baselineVars,
                         handoffVars, inkVars, mappingVars>>
       \/ /\ scenario = "late" /\ LateEdits!Next
          /\ UNCHANGED <<journal, vars, baselineVars, settleVars, inkVars, mappingVars>>
       \/ /\ scenario = "restart" /\ Restarting!Next
          /\ UNCHANGED <<journal, vars, baselineVars, settleVars, inkVars, mappingVars>>
       \/ /\ scenario = "lossy" /\ Lossy!Next
          /\ UNCHANGED <<journal, vars, baselineVars, settleVars, inkVars, mappingVars>>
       \/ /\ scenario = "deltas" /\ Deltas!Next
          /\ UNCHANGED <<theirUploads, journal, theirPc, accepted, vars, baselineVars,
                         settleVars, handoffVars, mappingVars>>
       \/ /\ scenario = "views" /\ FullViews!Next
          /\ UNCHANGED <<theirUploads, journal, theirPc, accepted, vars, baselineVars,
                         settleVars, handoffVars, mappingVars>>
       \/ /\ scenario = "rounds" /\ Rounds!Next
          /\ UNCHANGED <<theirUploads, journal, theirPc, accepted, vars, baselineVars,
                         settleVars, handoffVars, mappingVars>>
       \/ /\ scenario = "spread" /\ Spread!Next
          /\ UNCHANGED <<theirUploads, journal, theirPc, accepted, theirCanon, theirView,
                         vars, baselineVars, settleVars, handoffVars, inkVars>>

SuiteSpec == SuiteInit /\ [][SuiteNext]_suiteVars
-----------------------------------------------------------------------------
\* FolderTransport: neither side writes over ink it has not seen, and none
\* that it should see passes it by.
\*   - NoManifestSkipped: the journal counts a manifest as delivered only if
\*     it was put in the incoming folder, where each is a delta the next ones
\*     build on, unless a resolved conflict shares its revision with another
\*     upload.
\*   - JournalBehindBroker: no journal, saved or being worked on, runs ahead
\*     of the broker, and what it calls pending has not been overtaken.
\*   - NoCanonicalInkLost: an accepted upload contains the canonical ink it
\*     replaces.
\*   - BooxInkSafe: BOOX ink is in the PDF or in an upload; no delivery
\*     covers an edit that has not left the device.
NoInkLost ==
    /\ [](/\ scenario = "race" => NoManifestSkipped
          /\ scenario = "crash" => Crashing!TypeOK /\ Crashing!NoManifestSkipped
                                   /\ Crashing!JournalBehindBroker
          /\ scenario = "baselines" => Baselines!TypeOK
          /\ scenario = "settle" => Settling!TypeOK
          /\ scenario = "late" => LateEdits!TypeOK
          /\ scenario = "restart" => Restarting!TypeOK
          /\ scenario = "lossy" => Lossy!TypeOK
          /\ scenario = "deltas" => Deltas!TypeOK
          /\ scenario = "views" => FullViews!TypeOK
          /\ scenario = "rounds" => Rounds!TypeOK
          /\ scenario = "spread" => Spread!TypeOK)
    /\ [][/\ scenario = "race" => NoCanonicalInkLostStep
          /\ scenario = "crash" => Crashing!NoCanonicalInkLostStep /\ Crashing!BooxInkSafeStep]_suiteVars

\* AcceptedBaselines and FileSettle: what is uploaded is whole and computed
\* from what the broker accepted.
\*   - JournalIsCanonical: the baselines the journal vouches for are the
\*     bytes the broker accepted, whatever was damaged, interrupted or
\*     uploaded by another transport.
\*   - SentIsCanonical: a manifest is computed from the accepted bytes of one
\*     revision only.
\*   - UploadedWhole: what is uploaded is a whole save, never a torn or mixed
\*     one.
\*   - UploadIsQuiet: an export is uploaded only after the quiet period, less
\*     the length of the poll that first saw it.
UploadsFaithful ==
    /\ [](/\ scenario = "baselines" => Baselines!JournalIsCanonical /\ Baselines!SentIsCanonical
          /\ scenario = "settle" => Settling!UploadedWhole)
    /\ [][scenario = "settle" => Settling!UploadIsQuietStep]_suiteVars

\* BooxHandoff: nothing is removed from the handoff folders while the
\* companion or the next upload needs it.
\*   - BooxInkKept: ink drawn on the BOOX is on the device, in a finalized
\*     pair not yet retired or uploaded, through late edits of a retired
\*     predecessor, retirement and crashes.
\*   - RecoveryPairKept: the pair of the view the companion acknowledged
\*     stays in incoming, its recovery copy, while the receipt the transport
\*     holds is that acknowledgement and the sync client has lost nothing.
\*   - FrontierCoversReceipt: the frontier of the saved journal, and of the
\*     one a poll works with, covers the receipt recorded in it: after a lost
\*     checkpoint there is none until the poll has verified the
\*     acknowledgement.
HandoffKeepsInk ==
    /\ scenario = "late" => LateEdits!BooxInkKept /\ LateEdits!RecoveryPairKept
                            /\ LateEdits!FrontierCoversReceipt
    /\ scenario = "restart" => Restarting!BooxInkKept /\ Restarting!RecoveryPairKept
                               /\ Restarting!FrontierCoversReceipt
    /\ scenario = "lossy" => Lossy!RecoveryPairKept /\ Lossy!FrontierCoversReceipt

\* BooxInk: the journey of the ink to the BOOX PDF and back changes what was
\* edited there and nothing else.
\*   - EditsArrive: a stroke that comes back readable from the BOOX PDF is,
\*     in the canonical document, where and how NeoReader showed it.
\*   - NativeSurvives: what a PDF cannot hold survives the journey: layer and
\*     pen always, pressure unless the width was changed on the BOOX.
\*   - NamedIsNeverDeleted: a stroke whose damaged or duplicated annotation
\*     still names it is not deleted.
\*   - ErasedIsDeleted: a stroke erased in NeoReader is deleted unless its
\*     page could not be read; erased with the marker it is deleted even
\*     then.
\*   - NoPhantomEdits: with compact manifests, opening and closing the
\*     document changes nothing.
\*   - OriginalStaysOut: the original's own annotations never become
\*     canonical strokes.
\*   - RefusedOnlyIfAmbiguous: the broker refuses a companion's operations
\*     only when the PDF names a stroke twice.
ConversionFaithful ==
    /\ scenario = "deltas" => Deltas!EditsArrive /\ Deltas!NativeSurvives
                              /\ Deltas!NamedIsNeverDeleted /\ Deltas!ErasedIsDeleted
                              /\ Deltas!NoPhantomEdits /\ Deltas!OriginalStaysOut
                              /\ Deltas!RefusedOnlyIfAmbiguous
    /\ scenario = "views" => FullViews!EditsArrive /\ FullViews!NativeSurvives
                             /\ FullViews!NamedIsNeverDeleted /\ FullViews!ErasedIsDeleted
    /\ scenario = "rounds" => Rounds!EditsArrive /\ Rounds!NativeSurvives
                              /\ Rounds!RefusedOnlyIfAmbiguous

\* SpreadMapping: pages and points of a spread are those of the book.
\*   - EveryPageOnceInOrder: every page is on exactly one half of one spread,
\*     no spread is blank, and right half first gives the pages in order.
\*   - Upright: a page reads upright on its spread whatever its rotation.
\*   - RoundTrip: an annotation written on the spread comes back to the point
\*     of the page it was drawn at.
\*   - PagesApart: two pages of a spread stay inside the sheet and a gutter
\*     apart.
\*   - MadeAccepted: the parser accepts every manifest the planner makes.
SpreadFaithful ==
    /\ [](scenario = "spread" => Spread!EveryPageOnceInOrder /\ Spread!Upright /\ Spread!RoundTrip
                                    /\ Spread!PagesApart)
    /\ [][scenario = "spread" => Spread!MadeAcceptedStep]_suiteVars
=============================================================================
