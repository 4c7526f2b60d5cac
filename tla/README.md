# InkBridge: TLA+ models and proofs

InkBridge keeps the ink of one PDF in step between a BOOX tablet and a
Supernote tablet: a broker in the cloud, a folder transport or a Google Drive
gateway at the edge, a companion app and a plugin on the devices. The same
repository holds the `inkread` reader. This directory holds the specifications
of both, the TLC configurations that check them, and machine-checked proofs
about the parts whose failure would lose somebody's ink.

## 1. Inventory

| Part | State it keeps | Operations | How it interacts | What must be right |
|---|---|---|---|---|
| **Durable outbox** `inkbridge-cloud-runtime/src/{outbox,firestore,gcs}.rs` | per document a Firestore record (active state pointer, one pending commit), versioned objects and staged payloads in Cloud Storage | stage, reserve, deliver, checkpoint, finalize, release, complete, clean up, recover | called by the broker through `BrokerStorage`; two stores without a common transaction | one linear history; outputs before state before marker; no lost or repeated write; recovery ends |
| **Request runtime** `runtime.rs`, `eventarc.rs`, `http.rs` | none | Eventarc event, registration, list/inspect/resolve | HTTP front of broker and outbox; 5xx asks for redelivery, 2xx ends it | nothing acknowledged and lost |
| **Broker core** `inkbridge-broker/src/{broker,model,storage}.rs` | `CanonicalDocumentState`: frontiers, strokes with provenance, processed events, conflicts, resolutions, generated views | register, process | reads uploads, commits state and device views | ink of neither device silently lost or overwritten; every event accounted for once |
| **Conflict resolution** `inkbridge-broker/src/conflict.rs` | the same document | list, inspect, resolve, supersede | an operator decides on an analysis made earlier | decisions apply to the state they were made for; rejected ink stays rejected; no conflict blocks for ever |
| **BOOX view writer** `pdf_view.rs`, `boox_snapshot.rs` | none | render canonical strokes into a PDF, read them back | called by the broker | round trip of strokes |
| **Folder transport** `inkbridge-folder-transport` | a journal of per-document frontiers, pending uploads, delivered generations, baselines | scan, upload, recover uploads, deliver outputs, defer, adopt resolutions | polls folders and the bucket; talks to the companion and the plugin | one revision per edit; outputs installed in order and only over unedited files |
| **BOOX handoff** `boox_handoff.rs`, `boox-companion` (Kotlin) | files and descriptors on both sides, an on-device intent | publish, install, return, acknowledge, retire | file exchange without a lock | descriptor last; a crash never mixes two generations |
| **Virtual spread cache** `virtual_spread_cache.rs`, `convert/virtual_spread.rs` | cache directory, a regeneration transaction | publish, validate, regenerate, activate, roll back | used by the transport | a published pair belongs together; an activation is justified |
| **Drive gateway and runtime** `inkbridge-drive-gateway`, `inkbridge-drive-runtime` | change cursor, per-file observed frontiers, pending inputs, delivered outputs | plan a change, relay input, publish output, advance cursor | Google Drive on one side, the bucket and the broker on the other | no change skipped; its own output is not an edit |
| **Supernote plugin** `supernote-poc` | applied-manifest journal on the device | apply manifest, verify return | files of the transport | a manifest is applied once and wholly |
| **Converter** `inkbridge-convert`, `inkbridge-boox-native` | none | parse PDF ink, diff, transform | broker, transport | what was not edited is not changed |
| **Reader** `reader-core`, `inkread-ink`, `device-eink`, `app` | session, layout, render cache, ink with undo and redo, settings store, refresh policy | navigation, rendering, inking, settings | JNI to the Android activity and its engine thread | ink survives; undo leads back; pages and settings are the right ones; the panel is cleaned in time |
| **Text, dictionary, update crates; infrastructure** | none that outlives a call | parsing, lookup, download; Terraform | - | not modelled (section 8) |

What is hard here: two stores updated one after the other; requests that
overlap because a timed-out one keeps running while its event is delivered
again; crashes between any two writes; events duplicated and out of order;
devices that edit the very files the broker writes; decisions made on an
analysis that is stale by the time they arrive; chains of preserved exports
whose later links carry rejected ink; files exchanged by rename over a file
system that may refuse any call; a native session shared by two threads.
`PROJECT.json` lists each hazard at the line where it bites, with the
properties that watch it.

## 2. How the project is organised

**Components.** One module per part, parameterised by constants, with its own
`TypeOK`, properties and named assumption. **Proof modules** (`XProofs`) EXTEND
their component and TLAPS. **Suites** (`MC...`) instantiate components for TLC.

A suite checks several components, or several instances of one, in one run. Its
variable `scenario` is chosen in the initial state and never changes: a
behaviour follows exactly one instance, whose `Init` and `Next` are used
unchanged, while the variables of the other modules are `Parked` and unchanged.
Five suites (`MCBrokerModes`, `MCFiles`, `MCLiveDevices`, `MCReader`,
`MCTransport`) EXTEND a component whose theorems are proved, so that the property
the run checks is the very definition the theorem states; the component rests in
a fixed state (`Resting`) while another instance is followed. The union of the
behaviours is that of separate runs: no step of one instance can change the
truth of a property of another. `MCOutbox`, `MCBroker` and `MCDrive` follow one
instance only.

| Module | Models | Checked in | Proved in |
|---|---|---|---|
| `CanonicalLog` | what the outbox promises: deliver, publish once, release | `Outbox` refines it | `OutboxProofs` |
| `Outbox` | the outbox, its stores, overlapping workers, in-place edits | `MCOutbox`, `MCLiveCloud` | `OutboxProofs` |
| `Registration` | registering an original from several requests and services | `MCBrokerModes`, `MCLiveCloud` | `RegistrationProofs` |
| `Broker` | `process`, conflicts and their resolution, event delivery, the devices as the broker sees them | `MCBroker`, `MCBrokerModes` | `BrokerProofs` |
| `FolderTransport` | `sync_document` with the PDF itself as BOOX endpoint, the plugin | `MCTransport`, `MCLiveDevices` | `FolderTransportProofs` |
| `BooxHandoff` | the same with the companion's handoff root | `MCTransport`, `MCLiveDevices` | `FolderTransportProofs` |
| `AcceptedBaselines` | reconstruction and choice of Supernote baselines | `MCTransport`, `MCLiveDevices` | `LocalInstallProofs` |
| `FileSettle` | when an export counts as finished | `MCTransport`, `MCLiveDevices` | `LocalInstallProofs` |
| `LocalInstall` | replacing the local PDF through a backup name | `MCFiles`, `MCLiveDevices` | `LocalInstallProofs` |
| `AtomicCheckpoint` | what the transport relies on when it saves | `StateFile` refines it | `LocalInstallProofs` |
| `StateFile` | load and save of the journal, call by call | `MCFiles` | `LocalInstallProofs` |
| `ConfigPaths` | which configurations are accepted | `MCFiles` | |
| `SpreadCache` | publication of a view by several processes | `MCFiles`, `MCLiveDevices` | `SpreadProofs` |
| `SpreadRegeneration` | the regeneration transaction and its validation | `MCLiveDevices` | `SpreadProofs` |
| `SpreadMapping` | geometry of a spread and the parser of its manifest | `MCTransport` | |
| `BooxInk` | a stroke's journey into the BOOX PDF and back | `MCTransport` | |
| `DriveGateway` | planner and job, Drive, bucket and broker as they use them | `MCDrive`, `MCLiveCloud` | `DriveGatewayProofs` |
| `InkLayer`, `InkEditor` | a page of ink; its public calls and its undo history | `MCReader` | |
| `ReaderInk` | ink over page turns, failed saves, kills, document swaps | `MCReader` | |
| `ReaderBridge` | the JNI boundary and the activity's two threads | `MCReader`, `MCLiveDevices` | `EinkPolicyProofs` |
| `PageView` | navigation, layout, render cache, resume | `MCReader` | |
| `ReaderStore` | SQLite store, migrations, settings | `MCReader` | `EinkPolicyProofs` |
| `EinkPolicy` | refresh policy, wire codecs, capabilities, the panel | `MCReader` | `EinkPolicyProofs` |

## 3. The components

### Outbox

| Variable | Code |
|---|---|
| `active` | `StateRecord.active`: generation and payload pointer |
| `pending` | `StateRecord.pending`: `PendingCommit` with its `delivered` map |
| `objects` | Cloud Storage: for each path its versions, so the generation is the number of versions |
| `payloads` | staged payloads, one per (commit, path), the state payload under `None` |
| `worker` | the local variables and program counter of each running request |
| `edited`, `faults` | the in-place edits made; the bound on crashes |

Each action runs from one remote call to the next and no further: `Receive`
(up to `recover`), `ReadState`, `Plan`, `Stage`, `Reserve`, `DeliverObject`,
`DeliverRelease`, `SavePending`, `Finalize`, `Complete`, `Cleanup`,
`Delivered`; `Crash` loses a request between two steps or fails a remote call;
`DeviceEdit` is a device that saves its generated view in place. A commit is a
function of the event and of what was read, so a record stands for its SHA-256
id. Every conditional Firestore commit is one step, since the update-time
precondition joins its read and its write; losing that race is a `Crash`.

### Broker and Registration

`doc` is `CanonicalDocumentState`. `Process(n)` has one action per outcome of
`Broker::process`: `Duplicate`, `IgnoreStale`, `PreserveConflict`, `Apply`,
`Reject`, and `IgnoreBrokerOutput` for an echo. `Inspect`, `ResolveConflict`
(three strategies) and `SupersedeConflict` are `conflict.rs`. `Export`,
`Record` and `Sync` are as much of the devices and the transport as the broker
can see. An action is one committed call, as the refinement proved in
`OutboxProofs` justifies: every commit extends exactly the state it was
computed from. A stroke snapshot is the number of the export that drew it, and a
stroke stays on one page. `BooxKind` chooses full PDF views or manifests of
operations; `Pipelined` lets a device export again before its last export has
settled; `Retries` lets the transport die between upload and checkpoint.

`Registration` follows an original from its upload through the record to the
answer: several workers with several names, requests made again, expired
objects. It does not call `recover`, as `register_document` does not.

### The transport

`FolderTransport` is a poll of `sync_document` step by step (recovery of
uploads, upload, listing, delivery, checkpoint), the plugin's three calls and a
broker reduced to what `Broker` shows of it. `BooxHandoff` is the same poll with
a handoff root: versioned pairs under incoming and outgoing, acknowledgement,
receipts, retirement markers, the companion's decisions; its sync client
mirrors files one by one, in any order, and may lose one. `AcceptedBaselines`
rebuilds the newest accepted snapshot of every set of pages from immutable
uploads; `FileSettle` interleaves chunked writes with chunked reads. The quiet
period it promises is dated from the start of the poll that first saw the file,
which is what the code stores. `LocalInstall`, `StateFile` and `SpreadCache`
are call-by-call models of the file exchanges; `ConfigPaths` models a path as a
sequence of components over a file system with symbolic links, on Windows with
its spellings.

### Conversion

`BooxInk` keeps of a stroke what the two formats hold or drop: place, width,
grey, identity, layer, pen, pressure. `SpreadMapping` computes affine maps on
integer lengths; the rotations, halves and right-to-left order are the code's.

### The Drive gateway

`DriveGateway` is the job of `runtime.rs` around the planner: a checkpoint
compared and swapped as a value, pending inputs and outputs, one page of
changes, the token. Every remote call is a step; jobs overlap and crash, people
edit and move files, Eventarc announces the uploaded evidence by itself. `base`
and `cp` of a job are the Firestore document it loaded and its own copy, the
`commit_*` operators what the planner makes of that copy, `Persist` its validation
and the compare-and-swap. How much may happen in a behaviour is the variable
`left`, which starts at one of the constant's `Budgets`.

### The reader

`InkLayer` holds `model.rs` as operators, `InkEditor` its public calls in any
order, `ReaderInk` the session around it with the sidecar files. Coordinates are
floating-point numbers with a significand of `Bits` bits, so `Round` makes
`(x + d) - d` differ from `x` as in the code; the variable `line` of `InkEditor`
keeps the page as it was first shown at each place of the undo timeline, and
`moves` how often each stroke was moved, which bounds the rounding.
`ReaderBridge` has the UI thread, the engine queue and the interval a UI call is
inside the core. `PageView` lays text out again only when a page is drawn, so a
session's page number may belong to an older layout. `ReaderStore` commits
statement by statement, those of a migration included, and its history variable
`torn` says whether a kill cut a migration in two. `EinkPolicy` sends every
command through both wire codecs to a panel that counts the page turns since the
last Full (`since`) and those since a scroll began, too (`streak`), and notes
what sent a flash over a running update (`over`).

## 4. Runs

| Run | Suite | What it shows |
|---|---|---|
| `broker` | `MCBroker`: 3 exports, 2 strokes on 2 pages, manifests, pipelined, one retry | `NothingLost`, `NoRevisionSkipped`, `MergesAsAnalysed`, `UnseenInkStands` |
| `broker_modes` | `MCBrokerModes`: `serial` (a transport that waits), `pipe` (full views), `supersede` (frontiers that overtake a conflict), `register` (two requests under two names) | `AnsweredIsRegistered`, `FirstNameStays`; `DecisionsHold` with `NothingLost` and its kin in the other modes; some conflict can always be decided; a waiting transport loses no acknowledged export |
| `outbox` | `MCOutbox`: 2 workers, 4 events, 1 fault, in-place edits | `TypeOK`, `ViewsBeforeState`, `NoPrematureMarker`, `NoDuplicateUpload`, `RecoverablePayloads`, `EditsNeverOverwritten`, `ImplementsCanonicalLog` |
| `transport` | `MCTransport`: the transport raced and crashed, baselines, settling, handoff with late edits, restarts and losses, conversion with manifests, views and rounds, spreads | `TransportSound`, `NoInkLost`, `UploadsFaithful`, `HandoffKeepsInk`, `ConversionFaithful`, `SpreadFaithful` |
| `files` | `MCFiles`: the journal, the installation on both platforms, agreed and rival publishers, configurations | `AtomicJournal`, `EditPreserved`, `OnlyKnownContentRetired`, `PublishedPairs`, `RolesKeepApart` |
| `drive` | `MCDrive`: crashing job, two jobs, other devices, moved files | `DriveInputsSafe`, `DriveOutputsOnce` |
| `reader` | `MCReader`: undo in four shapes, editing, failed flushes, kills, a document swapped and killed at any point of its opening, page turns and imports across threads; an EPUB, a PDF, a reflowed PDF, the store, the panel | `InkKept`, `UndoLine`, `BridgeSound`, `PagesRight`, `SettingsHold`, `PanelSound` |
| `live_cloud` | `MCLiveCloud`: commits, registrations, Drive jobs, with fairness | `CommitsEnd`, `DriveArrives` |
| `live_devices` | `MCLiveDevices`: transport, handoff, installation, baselines, settling, cache, reader threads, with fairness; and the regeneration of a view | `EditsConverge`, `WorkFinishes`, `ReloadAccepts`, `ActivationJustified`, `EvidenceStands` |
| `outbox_checkpoint` | `MCOutbox`: 2 workers on one resolution, fairness | **violated** `PendingResolves`, finding 1 |
| `broker_stuck` | `MCBroker`: 3 pipelined manifests | **violated** `KeepCurrentResolves`, finding 2 |
| `reader_ink_stale` | `MCReader`, the swapped document alone: one kill | **violated** `StaleInkKept`, finding 3 |

A property with a plural name is a conjunction; the comment before it in the
suite states each part. Every property has a mutant of the code in
`PROJECT.json` (a dropped guard, a missing reset, a swapped order) that breaks it.

### Bounds, and why they suffice

* *Outbox.* Cloud Run serves one request at a time (`infra/gcp/main.tf`), so
  requests overlap when one outlives its timeout or during a deployment: two
  workers. The four events are one of each shape a commit has: none before it,
  one guarded output, a guarded output with a release signal, and an in-place
  edit. The resolution of this run leaves the Supernote as it is, so it writes no
  manifest; one that writes both outputs is in `live_cloud` and `outbox_checkpoint`.
  One fault allows a crash and a recovery beside a live
  request. The proofs cover any number of each.
* *Broker.* Three exports are the shortest history with a common base, a
  competitor and a successor to either; two strokes on one page tell a page
  replacement from an operation, on two pages they tell pages apart.
* *Transport and handoff.* One or two BOOX edits, a Supernote edit, three exports
  and in each scenario one crash, late edit, lost checkpoint or dropped file give
  an edit on either side of every delivery and one that finds another half-way.
* *Files.* One process death, one failing call and one loss of power between any
  two calls (the failing call and the third staging directory are in separate
  scenarios); two publishers; two saves and two views. Configurations differ from a
  sound one in two roles, each with sixteen other paths; with a file system that
  ignores case, for four of the fourteen pairs of roles.
* *Drive.* Four budgets (`TestBudgets`): two edits around a crash; two jobs and a
  crash; an edit, another device's event and a crash; an edit and a move while
  Eventarc delivers too. Five files, four in `live_cloud`. The proofs take any.
* *Reader.* Two pages, two strokes with three ids, an undo history of two (four
  where failed saves and a swapped document are checked); three strokes where
  deletions are taken back into the middle, and coordinates of two bits where strokes
  are moved, so that some move is not undone exactly. One kill, at any point of the
  opening of a swapped document and between any two statements of the store; no
  metadata read and no move of the old ink fails (`FaultKinds` is empty there). Four
  or five inputs to the activity, no trailing flush and no adjust sheet, which reach
  a freed session (section 5). Books of two chapters, a PDF of two pages and a
  reflowed one of three with two layouts each, a cache of two. A laid-out book has
  one viewport and one quality and is reopened at the scale it was closed with:
  `PagesRight` says nothing of a new layout by `set_viewport`, nor of a resume after
  the font size was changed elsewhere.
* *E-ink.* Intervals 0, 2 and 3, the three device profiles truncated to 2, 4 and
  12 flags, and six page turns that only add ghost. The proofs drop all of them.

Deadlock is checked for `MCOutbox` (Eventarc may always deliver). The other
suites set `CHECK_DEADLOCK FALSE`: edits, exports and crashes are bounded, so
once they are used up and every event is acknowledged there is nothing left to do.

### Fairness, and why the code justifies it

* A running request is scheduled until it returns (`WF` of `Step`): the handler
  runs on a thread of its own. Eventarc redelivers an event until it is
  acknowledged and a caller repeats a failed request (`SF` of `Redelivered`):
  strong, because the single worker may be busy whenever it is tried.
* The transport's daemon and the Drive job's schedule poll again and again (`WF`
  of `Poll`, `Deliver`, `Upload`, `JobStep`); sync clients mirror every file;
  the plugin and the companion run when their app is used; the broker processes
  an upload and an operator decides a conflict some time.
* `SF` of `BeginRecovery` and of `Settling!Accepted`: a poll, and the broker, get
  their turn although uploads go on.
* The engine executor, the timers and a returning UI call make progress.
* Nothing is fair about crashes, edits, losses or damage; their number is
  bounded, so liveness is claimed once they stop.

## 5. Findings

Three runs expect a violation; `PROJECT.json` quotes the sentence each refutes.

1. *Checkpoint of an older copy* (`outbox_checkpoint`). `save_pending` replaces
   the whole `delivered` map by the caller's own copy. Two requests deliver the
   same commit; the slow one writes back its smaller map after the fast one has
   promoted the state, and both end. Recovery then skips the object writes
   because the state is active, and `finalize` refuses because they are not
   recorded: on every retry.
2. *Unresolvable conflict* (`broker_stuck`). `keep_current` rejects a manifest
   that adds a stroke; the preserved successor that edits the stroke then names
   one the document has never had, and every strategy refuses it, `keep_current`
   included.
3. *Ink put aside and deleted* (`reader_ink_stale`). When another document lies at
   a path, `verify_or_stamp_identity` renames the old ink to `annotations.stale`
   and then stamps the new identity, and looks at neither result. A kill (or a
   failing `save_metadata`) in between leaves the old metadata; the next open takes
   the same branch, and `reset_stale_annotations` first removes `annotations.stale`
   (`ink_store.rs:227`): the only copy of the ink the comment (`session.rs:1035`)
   says is preserved. `InkKept` holds in all other behaviours of the same instance.

Other places where the models showed the code to do something else than its
comments or documents say. No run checks them; where one concerns a behaviour a
run covers, the run's instance leaves out what triggers it, as noted.

*Broker and outbox.*
- An export delivered before its predecessor is an `InvalidEvent`, answered with
  200 and not delivered again, although a broker test relies on the retry
  (`runtime.rs:101`); a transport that waits never meets it (`broker_modes`).
- A view edited in place after the pending commit uploaded it, followed by a
  crash, makes every later recovery fail (`outbox.rs:441`); `live_cloud` has no
  in-place edits.
- Registration does not recover, so a reservation left by a request whose
  staged object has expired blocks every other name of that PDF
  (`runtime.rs:137`); `live_cloud` lets none expire.

*Transport.*
- `reconcile_staged_backup` compares the destination with the view being
  delivered, so a crash before the backup is removed is recovered only while the
  broker offers the same view (`transport.rs:2669`).
- After a resolved BOOX conflict `boox.pending` stays set and nothing moves any
  more on the legacy path (`transport.rs:1774`); the manifest of a resolved
  Supernote conflict keeps its BOOX revision and is refused by the plugin
  (`InkBridgeFolderModule.kt.template:572`). `live_devices` has edits one
  device at a time.
- A restart after an upload whose checkpoint was lost may upload other bytes
  under the same revision (`transport.rs:1652`). Such a pair, of two Supernote
  pages, can make the transport skip a manifest: the loser's conflict is resolved
  between the two listings of a poll (`:584`), a further upload is accepted, and
  the view of that one, which was listed, moves the frontier past the manifest of
  the resolution, which was not. It takes two pages, three exports and a crash
  (a trace of 54 steps). `NoManifestSkipped` is therefore claimed while every
  resolved conflict is `Alone` with its revision. Also, uploads at or below the frontier
  count as accepted although a resolution may have turned them down
  (`transport.rs:212`, `:228`); a view installed just before a crash may count as
  an unpublished edit (`transport.rs:1788`).
- In handoff mode a view published between the listing of manifests and that of
  views moves the frontier past a manifest that was not listed
  (`transport.rs:583`). The companion takes any larger BOOX revision as proof of
  acceptance (`BooxHandoffModels.kt:394`), and with no Supernote edit an accepted
  finalization stays pending (`broker.rs:317`).
- `resolve_existing_ancestor` normalises `missing/../alias` lexically and so does
  not resolve `alias` (`model.rs:509`); the `files` configurations have no link
  behind such a detour.

*Drive.* Evidence is named by the Drive event but carries a revision computed
from the present frontier, so a retry finds other metadata (`runtime.rs:743`);
the view of a pending event may have been replaced by a later one (`:951`); a
preserved conflict never has the view the retry demands (`:943`); when the
bucket's own event comes first, the output made for it is never copied (`:814`).

*Conversion.* A stroke thinner than the clamp of the PDF writer comes back as an
edit (`convert/lib.rs:309`); an unreadable annotation without a name does not
disable deletion inference (`pdf.rs:113`).

*Reader.*
- `Stroke::translate` adds 32-bit floats (`inkread-ink/model.rs:519`) and undo adds
  the negation (`:555`), so undoing a move can leave points a rounding away from
  where they were, although the comment on `Edit::Move` calls the inverse exact
  (`:236`). `UndoLine` therefore claims order, colours and unmoved strokes exactly,
  and moved ones up to the rounding of their moves.
- A paste while a stroke is being drawn reuses its id and makes the page
  unreadable (`inkread-ink/model.rs:319`).
- A failed autosave leaves no mark in immediate mode (`session.rs:1386`); a page
  that cannot be read for a moment is replaced by an empty one (`:1427`); only
  one set of stale ink is kept (`ink_store.rs:227`), so a second document at the
  path deletes it; a failed rename makes the old strokes the new document's
  (`session.rs:1036`).
- The statements of a migration and its `user_version` are not one transaction
  (`sqlite.rs:198-212`): killed in between, the next open runs `CREATE TABLE` on a
  table that is there, fails, and so does every later one, against the "ordered,
  idempotent migration list" of `sqlite.rs:4`. The run kills there; `AlwaysOpens`
  claims that every *other* kill leaves a database that opens. A setting and the
  version that names the settings are not one transaction either (`:157-176`);
  `VersionNamesSettings` claims what holds while every stored setting was counted.
- `set_viewport` keeps a page number of the old layout (`session.rs:461`), as
  does a change of quality (`:547`); a book is resumed at scale 1 and then
  rescaled to the start of its chapter (`reflow.rs:152`), a reflowed PDF at a
  laid-out page number (`session.rs:345`).
- The trailing flush saves through a handle that an import may have closed
  (`StylusInkController.kt:90`); a task that renders after `shutdown` loses the
  queued close (`ReaderActivity.kt:949`); two controllers call the core on the
  UI thread (`AdjustSheetController.kt:323`); the page count is not read again
  after a resize (`ReaderActivity.kt:688`).
- `on_scroll_start` starts the day count again (`eink_policy.rs:176`) although
  nothing on the panel is cleaned: page turns that scrolls interrupt often enough are
  never flashed and ghosting grows without bound, against "promoting to a flashing Full
  every `ghost_clear_interval` turns to clear ghosting" (`:130-131`). So `GhostBounded`
  counts by day from the last Full *or scroll*, at night from the last Full only: a
  scroll leaves the night count as it is, although the comment resets "the active
  flash counter" (`:178`).
- `on_night_mode` sends a Full (`:280`), and a closing menu a FlashUi, without
  `WaitForLast`, so either may be sent over an update that is still running;
  `FlashWaits` claims it of a page turn's flash only. A panel without full control
  that was sent `EnterFast` is never sent `LeaveFast` (`on_scroll_end`), which
  `FastOnlyWhileScrolling` leaves out.

## 6. Proofs

All theorems hold for every value of the constants under the component's named
assumption, which states the types of the constants and what the code
enforces of them; the suites evaluate it on their values. TLC checks the same
properties on the small instances above.

### OutboxProofs (assumption `OutboxAssumption`: no event writes a path both as output and as release signal)

`TypeCorrect`, `StateNeverAheadOfViews`, `MarkerNeverPremature`,
`NeverUploadedTwice`, `UnseenEditsStand`, `RecoveryPossible`, `Refinement`.
Neither safety property is inductive: nothing in it says that the commit a
worker promotes was computed from the current history, or that its delivery map
is true. `IInv` adds `ActiveOK` (the generation is the length of the history),
`PendingOK` (the reserved commit is based on the history; its map is truthful)
and `WorkersOK` (who has read holds a *prefix* of the history; who has passed
`Reserve` holds a commit that is reserved or already published). The core:
`Reserve` compares lengths, and a prefix of equal length is the history itself.
The checkpoint of finding 1 is harmless for safety, since a smaller truthful
map is truthful. The refinement maps `views` to the events with every ordinary
output written, `log` to the history, `released` to the events with a marker.

### BrokerProofs (`BrokerAssumption`)

`TypeCorrect`; `Kept` (`NothingLost`: a processed export is canonical,
preserved, decided or a repetition; no conflict is decided twice); `NoSkip`
(`NoRevisionSkipped`); `MergeExact` (`MergesAsAnalysed`). `IInv` adds that an
export continues its own device's revision (`UploadsOK`), that a frontier that
has moved names the export behind it (`AcceptedOK`), that no stroke is newer
than the frontier (`StrokesOK`), and that an analysis carrying the current state
revision is an analysis of the current state (`AnalysesOK`) - the reason a
decision on a stale analysis can be refused by one comparison.

`UnseenStands` (`UnseenInkStands`): nothing accepted overwrites a stroke its
device had never started from, and no later link of a chain brings back ink a
standing decision turned down. The broker compares *revisions*; the property
speaks of *content*. The bridge is a second inductive invariant, `SInv`: whoever
knows the other side's revision has started from the strokes it left (`SeenOK`),
a device is at most one export ahead of its checkpoint, and a transport that
died before a checkpoint left what it exported from as it was (`ChainOK`), what a
device knows is never ahead of the frontier (`FrontierOK`), and a decision that
turned strokes down moved the frontier to its own export (`ResultOK`).

### DriveGatewayProofs (`DriveAssumption`)

`TypeCorrect`, `InputsSafe` (`DriveInputsSafe`: no checkpoint is refused, the
token stays behind the evidence, what is accepted has been handled) and
`OutputsOnce` (`DriveOutputsOnce`: one file per delivery, no echo), for any
pollers, files and budgets. The difficulty is that a job works for a long time
on a copy that another has overtaken. So the invariant speaks of every copy
ever loaded: `CpFacts(c)` is what such a checkpoint says about Drive, the
evidence and the broker, all of it stable under whatever others do (`Evolve`:
versions and change positions grow, a device's content never turns back into
the broker's, uploads and the broker's processed events stay). Freshness is
therefore stated with an alternative: the file still is what the page, the item
or the pending input saw, or it changed after the position the token will be
moved to (`Fresh`, `Settled`), so that the next page lists it again. The one
fact that fails for stale copies is that a page covers every file up to its end
(`Covered`): a generated file nobody has bound is dropped from it. But that file
was reserved after the copy was loaded, so the copy's deliveries (`Entries`)
are no longer those of the checkpoint, and the comparison of the
compare-and-swap cannot succeed (`JobPage`). `Ledger` makes each delivery one
file and each generated id one delivery.

### RegistrationProofs (`RegistrationAssumption`)

`TypeCorrect`, `Answered` (`AnsweredIsRegistered`), `FirstRegistration`
(`FirstNameStays`). The invariant follows the original from its upload: a worker
past the write, a reservation that recorded it and a published state all vouch
for it (`OriginalVouched`), and a reservation precedes the state (`StateOrder`),
so publishing it replaces nothing.

### FolderTransportProofs (`TransportAssumption`, `HandoffAssumption`)

`TypeCorrect`, `BehindBroker` (`JournalBehindBroker`: the saved journal is never
ahead of the broker, what it calls pending has not been overtaken) and
`LocalEditsStay` (`BooxInkSafe`: no delivery covers ink that has not left the
BOOX); `Sound` puts the three together as the run checks them
(`TransportSound`). The transport compares *contents*: it installs a view if the
PDF is one the journal knows. So the invariant follows the ink: `Sent` is what has been
uploaded, and the canonical ink, every view and whatever a journal takes for
delivered or uploaded lie in it (`BrokerOK`, `JournalOK`), while the PDF is
either a save of the device or lies in it too (`DevicesOK`). A PDF the journal
knows is then covered without loss (`MayBeCovered`). The frontier of a journal
comes from views and manifests, which are ones the broker made, and the broker
only moves forward while a poll works on what it listed. The poll takes its
candidates by name; that there is always a next one is `NextCandidateListed`.

The second part is the handoff, `BooxHandoff`: `HandoffTypes`, `NothingDrawnLost`
(`BooxInkKept`), `RecoveryPair` (`RecoveryPairKept`) and `FrontierCovers`
(`FrontierCoversReceipt`), the three parts of `HandoffKeepsInk`, for any number of
edits, late edits, restarts and lost checkpoints. `RecoveryPairKept` is about the
incoming pair of the view the companion acknowledged, while the transport's saved
receipt is that acknowledgement; `FrontierCoversReceipt` about the saved journal and
the poll's copy, which a poll after a lost checkpoint rebuilds from the
acknowledgement. The invariant follows the ink
again: an artifact is marked for retirement only when its ink has been uploaded,
so what lies in an outgoing PDF or at the broker is safe (`KeptInk`), and the
companion replaces its active PDF only if that is what it installed, which came
from the broker, or what it finalized (`InkOK`). Acknowledgements succeed each
other by generation and no receipt is newer than what a poll read last
(`OrderOK`); so the pair a poll removes as superseded is never that of a receipt
still current (`PairOK`, of the saved journal and the poll's copy).
`NothingDrawnLost` does not need the mirror to keep what it shows (a lost file is
one of the incoming folder); `RecoveryPair` does, and says so.

### LocalInstallProofs (`InstallAssumption`, `StateAssumption`, `SettleAssumption`, `BaselineAssumption`)

`TypeCorrect`, `LastSaveKept` (`EditPreserved`), `KnownRetired`
(`OnlyKnownContentRetired`). The heart is what may be at the backup name
(`DeliveryPoints`, `BackupKnown`): from its check to its removal it is the
inspected content, which the journal knows, and a backup beside a broker view is
known as well. The device's last save is never known, so neither removal hits it.

The second part is the journal file, `StateFile`: `JournalTypeCorrect` and
`JournalRefinement` (`AtomicJournal`). Types are not inductive alone:
publishing moves the next file to the current name, and only `SavePoints` tells
that it is whole then. `PublishNext` is the one step that changes what a restart
loads; every other file move is a stutter of `AtomicCheckpoint`.

The third part is `FileSettle`: `SettleTypes`, `UploadWhole` (`UploadedWhole`) and
`UploadQuiet` (`UploadIsQuiet`), for any writers, ticks, crashes and lengths of a
poll. The transport trusts an mtime it has seen twice. So the invariant says
what an mtime is worth: while the observation carries the mtime of the file, all
that the poll has read so far is of one save (`ReadOK`), and an observation is
older than the file's last change by at most the poll that made it
(`ObservedOK`). `UploadQuiet` assumes `~SameStamp`: a rename that brings an mtime
already observed is taken for the observed file. `UploadWhole` does not: what is
opened stays the old file, and what is read changes under one handle only by a
write, which moves the mtime.

The fourth part is `AcceptedBaselines`: `BaselineTypes`, `JournalCanonical`
(`JournalIsCanonical`) and `SentCanonical` (`SentIsCanonical`), for any exports,
rivals, damage, failed downloads and crashes. The invariant follows, for every page,
its *head*: the newest accepted upload that holds it. The model is one of the cloud
(`UploadsOK`: every revision has one upload of the broker's, and a rival shares
pages and revision with one; `NewestOK`: every identity has a newest upload, every
page a head) and of what a recovery knows (`Recovered(rev)`: all heads up to `rev`
are among the accepted snapshots, all of these are the broker's). That is
established when the listing is read: the newest upload of a set of pages would
compete with the broker's if it were a rival. What was accepted up to a revision
never changes again (`RepresentsStays`), so the recovery may take many steps;
`MaterializeRepresents` is the core, that the whole files and the split pages
together are the heads, each page once. `BaselineAssumption` says that sorting the
pages of an export loses and doubles none: `SortSeq` takes its order from a
permutation whose existence is an induction; the suites evaluate the assumption.

### SpreadProofs (`RegenerationAssumption`, `SpreadCacheAssumption`)

The regeneration transaction, `SpreadRegeneration`: `Reload` (`ReloadAccepts`),
`Activation` (`ActivationJustified`), `Evidence` (`EvidenceStands`),
`TransactionTypes`. `validate_persisted` is itself the inductive invariant of a
begun transaction.

The second part is the cache, `SpreadCache`: `CacheTypes` and `Published` (the
three parts of `PublishedPairs`: no torn or mixed pair, an answer is on the disk,
a published view is never changed, publishers that agree succeed), for any number
of publishers and directories. A loss of power may bring back any of several
states of the directory, so the invariant speaks of every one of them
(`possible`): whatever has been published and may come back is whole and synced
(`PublishedOK`), and there is one such directory only, until the user removes it
(`OneFinal`). The lock makes the rest the knowledge of one process (`LockOK`,
`WorkOK`). `AgreedSucceeds` follows from a part of its own (`AgreedOK`): who
verifies finds its own bytes, if all bring the same.

### EinkPolicyProofs (`PolicyAssumption`, `StoreAssumption`, `BridgeAssumption`)

`PanelCared` and `PanelCaredBounded` (`PanelSound`), `TypeCorrect`. First the
lemmas about the wire: what `DecodeCommands` makes of `EncodeCommands` is the
stream sent (`CommandsWire`), and executing at most two commands is applying
them in order (`Executes`). The invariant `Counting` ties the two counters to
the panel: as long as flashing is allowed, the counter of the current mode is
the page turns it has to count, at night those since the last Full, by day those
since the last Full or scroll; and both stay below their intervals. `PanelCared`
needs no bound on the ghost; `PanelCaredBounded` is the same of the bounded
specification the run follows.

The second part is `ReaderStore`: `StoreTypes`, `SettingsKept` (`SettingsHold`),
`IntervalsUsable` (`IntervalUsable`), `VersionsName` (`VersionNamesSettings`) and
`OpeningSucceeds` (`AlwaysOpens`), the parts of the run's property on the store, for
any keys, values and kills. Rows hold what was put in the form SQLite keeps it
(`RowsOK`, `RoundTrip`: what a getter makes of it is what it makes of the value),
and the tables are known from the last version and the statement `migrate` has
reached (`TablesOf`), unless a kill cut a migration in two (`torn`), which then never
comes to an end (`FreshOK`). All five hold for kills at every statement; the last two
name the ones they cannot survive in the property itself, since neither `put_setting`
nor `migrate` is a transaction (section 5).

The third part is `ReaderBridge`: `BridgeTypes`, `HandleLive` (`LiveHandle`),
`NoneLeaked` (`NoLeak`), `FreedClean` (`SavedBeforeFree`) and `TapsLand`
(`TurnsLand`), for any number of sessions, page counts and inputs. The open session
is the handle field's, and handles are numbered in the order of the opens
(`HandlesOK`, which needs the cardinality of an interval). `HandleLive` assumes that
nothing closes a session in use, or that nothing calls through a captured handle: a
trailing flush and the adjust sheet keep one over an import (section 5), and no
proof can repair that. `FreedClean` and `TapsLand` assume that no call fails, as
the properties do, and `TapsLand` that the book stays open. Its invariant is
`TurnsInv`: one turn at most is posted, the latch is held exactly while one is posted
or its release is, and the page asked for, or else the page shown, plus the taps
waiting is the page wanted.

### Only model-checked

Liveness and everything under fairness (`live_cloud`, `live_devices`), which the
prover does not reach. What the functions of `InkEditor` (`UndoLine`),
`PageView`, `AcceptedBaselines` and `ConfigPaths` compute for every input, since
that needs induction over data. Of `FolderTransport` the parts
`NoCanonicalInkLost` and `NoManifestSkipped` of `NoInkLost`: both relate what a
device shows to the revision a journal records through every manifest between.
The invariants of `BooxInk`, `SpreadMapping`, `ConfigPaths`, `ReaderInk` and
`PageView`; and `SomeConflictResolvable` and `AckedIsProcessed`, which hold only for particular
devices (`broker_modes`).

## 7. Abstractions worth knowing

Hashes are the contents they are of; bytes are named by who wrote them.
Conditional writes of a store are one step with their condition. A crash loses
every variable that is not in a file, an object or a record. Durability is
modelled where the code syncs (`StateFile`, `SpreadCache`): an entry that was
not synced may or may not outlive a loss of power. Timestamps are ages, capped
at the largest the code can tell apart. History variables (`consumed`, `edited`,
`published`, `torn`, `line` and `moves` of the reader, the `early`, `over` and
`bad` of the panel) are read by no guard of the code.

## 8. Not modelled

PDF parsing and serialisation, JSON and hash encodings, HTTP headers, OAuth and
Firestore value encodings have no control state. The missing-source path of the
broker is left out, uploads being versioned and immutable; so is the validation
of payloads field by field. The companion's own crash recovery, the plugin's note
matching and failure records, dry runs of the Drive job, rasterisation and text
search of the reader, menus and layout of the activity are left out. The text,
dictionary and update crates convert or fetch whole files in one call.
The Terraform configuration gives the concurrency, timeout and retry settings
assumed above. The stores of the tests behave like the real ones.

## 9. Plan

1. `FolderTransport`: prove `NoCanonicalInkLost`; an export's `basedOn` and the
   ink it shows need an invariant like `SInv`.
2. `Registration` as a refinement of `CanonicalLog` with competing names.
3. The wait of the transport as an abstract specification that `FolderTransport`
   and `BooxHandoff` both implement.
