---------------------------- MODULE LocalInstall ----------------------------
(***************************************************************************)
(* How the folder transport installs a broker view over the PDF that BOOX  *)
(* and its sync client also write (transport.rs: deliver_outputs,          *)
(* download_verified, replace_file, reconcile_staged_backup).  The PDF is  *)
(* staged under a backup name, checked there and published create-only;    *)
(* the device may save, and the process may die, between any two calls.    *)
(***************************************************************************)
EXTENDS Naturals

CONSTANTS MaxEdits, MaxViews, MaxCrashes, MaxErrors

InstallAssumption == MaxEdits \in Nat /\ MaxViews \in Nat
                     /\ MaxCrashes \in Nat /\ MaxErrors \in Nat

VARIABLES windows,              \* the platform: an open handle pins the destination name
          dest, backup,         \* the PDF and .<name>.previous.part
          view,                 \* the broker's latest BOOX view
          delivered, uploaded,  \* hashes in the journal
          pending,              \* an upload the broker has not answered
          unpublished,          \* the device's last save, until it is uploaded
          published,            \* the local PDFs stored in the cloud so far
          pc, expect, target,   \* one delivery: its step, FileIdentity and view
          edits, crashes, errors

vars == <<windows, dest, backup, view, delivered, uploaded, pending, unpublished, published,
          pc, expect, target, edits, crashes, errors>>
files == <<dest, backup>>
journal == <<delivered, uploaded, pending>>
counters == <<edits, crashes, errors>>
device == <<unpublished, published>>

\* PDF contents: the immutable original, broker views, device saves.
Original == <<"original", 0>>
View(n) == <<"view", n>>
Edit(n) == <<"edit", n>>
Missing == <<"missing", 0>>
Contents == {Original} \cup {View(n) : n \in 1 .. MaxViews} \cup {Edit(n) : n \in 1 .. MaxEdits}

Init == /\ windows \in BOOLEAN
        /\ dest \in {Original, Missing} /\ backup = Missing /\ view = 0
        /\ delivered = Missing /\ uploaded = Missing /\ pending = FALSE
        /\ unpublished = Missing /\ published = {}
        /\ pc = "idle" /\ expect = Missing /\ target = Missing
        /\ edits = 0 /\ crashes = 0 /\ errors = 0
-----------------------------------------------------------------------------
\* While recovery holds its guard handle, which does not share deletion, nobody
\* replaces the destination on Windows.
Pinned == windows /\ pc = "pinned"

\* The reader or the sync client saves the PDF: a rename over the name, or a
\* new file when the transport has staged the old one.
DeviceSave == /\ edits < MaxEdits /\ ~Pinned
              /\ edits' = edits + 1
              /\ dest' = Edit(edits + 1)
              /\ unpublished' = dest'
              /\ UNCHANGED <<backup, view, journal, published, pc, expect, target, crashes, errors>>

\* upload_boox_if_ready, after the delivery pass of the same poll: a settled
\* local edit is stored in the cloud and waits for the broker.
Upload == /\ pc = "upload" /\ pc' = "idle"
          /\ \/ /\ ~pending
                /\ dest \notin {Missing, delivered, uploaded}
                /\ uploaded' = dest /\ pending' = TRUE
                /\ published' = published \cup {dest}
                /\ unpublished' = IF unpublished = dest THEN Missing ELSE unpublished
             \/ /\ pending \/ dest \in {Missing, delivered, uploaded}
                /\ UNCHANGED <<uploaded, pending, device>>
          /\ UNCHANGED <<files, view, delivered, expect, target, counters>>

\* The broker's answer to the upload is journalled.
Accepted == /\ pc = "idle" /\ pending
            /\ pending' = FALSE
            /\ UNCHANGED <<files, view, delivered, uploaded, device, pc, expect, target, counters>>

\* The broker publishes another view of the document at the same path.
BrokerView == /\ view < MaxViews
              /\ view' = view + 1
              /\ UNCHANGED <<files, journal, device, pc, expect, target, counters>>
-----------------------------------------------------------------------------
At(here, there) == pc = here /\ pc' = there

\* deliver_outputs takes up the view unless the journal holds its delivery.
BeginDelivery == /\ \/ /\ view > 0 /\ delivered # View(view)
                       /\ At("idle", "reconcile")
                       /\ target' = View(view)
                    \/ /\ view = 0 \/ delivered = View(view)
                       /\ At("idle", "upload")
                       /\ UNCHANGED target
                 /\ UNCHANGED <<files, view, journal, device, expect, counters>>

\* The delivery is over, deferred or journalled: the poll goes on to the uploads.
Leave == pc' = "upload" /\ expect' = Missing /\ target' = Missing

\* An error ends the whole poll.
Abort == pc' = "idle" /\ expect' = Missing /\ target' = Missing

\* rename_create_only never replaces what is at the destination.
rename_create_only(content) == dest = Missing /\ dest' = content

\* Mutant: the staged predecessor wins over whatever is at the name.
RestoreOver == backup # Missing /\ dest' = backup /\ backup' = Missing

\* restore_staged_file: give the staged PDF back unless the name was recreated.
Restore == rename_create_only(backup) /\ backup' = Missing

\* Mutant: any leftover backup is refused.
ReconcileRefuses == \/ At("reconcile", "inspect") /\ backup = Missing /\ UNCHANGED <<files, expect, target>>
                    \/ pc = "reconcile" /\ backup # Missing /\ Abort /\ UNCHANGED files

\* Mutant: a backup is removed whenever the name is taken.
ReconcileRetires == /\ At("reconcile", "inspect")
                    /\ \/ dest = Missing /\ backup # Missing /\ Restore
                       \/ dest # Missing /\ backup' = Missing /\ UNCHANGED dest
                       \/ dest = Missing /\ backup = Missing /\ UNCHANGED files
                    /\ UNCHANGED <<expect, target>>

\* reconcile_staged_backup: an interrupted installation left a backup.
ReconcileStagedBackup ==
    \/ /\ At("reconcile", "inspect")
       /\ \/ backup = Missing /\ UNCHANGED files
          \/ backup # Missing /\ Restore
       /\ UNCHANGED <<expect, target>>
    \/ /\ At("reconcile", "pinned") /\ backup # Missing /\ dest = target
       /\ UNCHANGED <<files, expect, target>>
    \/ /\ pc = "reconcile" /\ backup # Missing /\ dest \notin {Missing, target}
       /\ Abort /\ UNCHANGED files
Reconcile == ReconcileStagedBackup /\ UNCHANGED <<view, journal, device, counters>>

\* The destination is opened once more and compared with the handle it was
\* hashed through: only where that handle pins the name is the backup removed.
RetireValidated ==
    /\ \/ At("pinned", "inspect") /\ windows /\ backup' = Missing /\ UNCHANGED <<dest, expect, target>>
       \/ pc = "pinned" /\ ~windows /\ Abort /\ UNCHANGED files
    /\ UNCHANGED <<view, journal, device, counters>>

\* boox_has_unpublished_local_edit.
HasUnpublishedEdit(identity) ==
    \/ pending
    \/ identity \notin {Missing, Original, delivered, uploaded}

\* file_identity, already_installed and the unpublished-edit guard.
Inspect == /\ pc = "inspect"
           /\ \/ dest = target /\ pc' = "verify" /\ expect' = dest /\ UNCHANGED target
              \/ /\ dest # target /\ ~HasUnpublishedEdit(dest)
                 /\ pc' = "replace" /\ expect' = dest /\ UNCHANGED target
              \/ dest # target /\ HasUnpublishedEdit(dest) /\ Leave
           /\ UNCHANGED <<files, view, journal, device, counters>>

\* replace_file when the destination was missing: publish create-only.
PublishNew == /\ pc = "replace" /\ expect = Missing
              /\ \/ /\ rename_create_only(target)
                    /\ pc' = "verify" /\ UNCHANGED <<expect, target>>
                 \/ dest # Missing /\ Leave /\ UNCHANGED dest
              /\ UNCHANGED <<backup, view, journal, device, counters>>

\* replace_existing_file_conditionally, first half: whatever is at the name
\* now is moved to the backup name.
Stage == /\ pc = "replace" /\ expect # Missing
         /\ \/ /\ dest # Missing /\ backup = Missing
               /\ backup' = dest /\ dest' = Missing
               /\ pc' = "check" /\ UNCHANGED <<expect, target>>
            \/ dest = Missing /\ Leave /\ UNCHANGED files
         /\ UNCHANGED <<view, journal, device, counters>>

\* The staged file is hashed: another content than the inspected one goes back.
CheckStaged == /\ pc = "check"
               /\ \/ /\ backup = expect /\ pc' = "publish"
                     /\ UNCHANGED <<files, expect, target>>
                  \/ backup # expect /\ Restore /\ Leave
                  \/ backup # expect /\ dest # Missing /\ Abort /\ UNCHANGED files
               /\ UNCHANGED <<view, journal, device, counters>>

\* publish_create_only: a file recreated in between is kept.
Publish == /\ pc = "publish"
           /\ \/ rename_create_only(target) /\ pc' = "retire"
              \/ dest # Missing /\ UNCHANGED dest /\ pc' = "discard"
           /\ UNCHANGED <<backup, view, journal, device, expect, target, counters>>

\* remove_file_if_exists(backup) after either outcome of the publication.
RetireBackup == /\ pc \in {"retire", "discard"}
                /\ backup' = Missing
                /\ \/ pc = "retire" /\ pc' = "verify" /\ UNCHANGED <<expect, target>>
                   \/ pc = "discard" /\ Leave
                /\ UNCHANGED <<dest, view, journal, device, counters>>

\* The destination is hashed once more and the delivery is journalled.
Verify == /\ pc = "verify"
          /\ \/ dest = target /\ pc' = "save" /\ UNCHANGED <<expect, target>>
             \/ dest # target /\ Leave
          /\ UNCHANGED <<files, view, journal, device, counters>>
SaveJournal == /\ pc = "save" /\ Leave
               /\ delivered' = target
               /\ UNCHANGED <<files, view, uploaded, pending, device, counters>>

\* An I/O error ends the poll; a failed publication tries to restore first.
Fail == /\ pc \in {"pinned", "inspect", "replace", "check", "publish", "retire", "discard"}
        /\ errors < MaxErrors /\ errors' = errors + 1
        /\ Abort
        /\ \/ pc \in {"check", "publish"} /\ Restore
           \/ UNCHANGED files
        /\ UNCHANGED <<view, journal, device, edits, crashes>>

Crash == /\ pc # "idle" /\ crashes < MaxCrashes
         /\ crashes' = crashes + 1
         /\ Abort
         /\ UNCHANGED <<files, view, journal, device, edits, errors>>

Deliver == \/ BeginDelivery \/ Reconcile \/ RetireValidated \/ Inspect \/ PublishNew \/ Stage \/ CheckStaged
           \/ Publish \/ RetireBackup \/ Verify \/ SaveJournal
Next == /\ UNCHANGED windows
        /\ DeviceSave \/ Upload \/ Accepted \/ BrokerView \/ Deliver \/ Fail \/ Crash

\* The watch loop keeps polling; nobody has to save, upload or fail.
Spec == Init /\ [][Next]_vars /\ WF_vars(UNCHANGED windows /\ Deliver)
        /\ WF_vars(UNCHANGED windows /\ Upload)
-----------------------------------------------------------------------------
\* Types of the files, the journal and the running delivery
\* (transport.rs 899-1002, 2359-2452).
TypeOK == /\ windows \in BOOLEAN
          /\ {dest, backup, delivered, uploaded, unpublished, expect, target}
                 \subseteq Contents \cup {Missing}
          /\ view \in 0 .. MaxViews /\ pending \in BOOLEAN /\ published \subseteq Contents
          /\ pc \in {"idle", "reconcile", "pinned", "inspect", "replace", "check", "publish", "retire",
                     "discard", "verify", "save", "upload"}
          /\ edits \in 0 .. MaxEdits /\ crashes \in 0 .. MaxCrashes /\ errors \in 0 .. MaxErrors

\* The last save of the device is at the PDF's name or at the backup name until
\* it has been uploaded: no interleaving of an installation, a recovery and the
\* device's saves loses it (transport.rs 2376-2452, 2847-2868).
EditPreserved == unpublished # Missing => unpublished \in {dest, backup}

\* A transport step destroys a content only if it is the original, a broker
\* view or an uploaded edit; the predecessor that waits at the backup name
\* counts too, though a newer save exists (reconcile_staged_backup 2632-2685).
OnlyKnownContentRetiredStep ==
    edits' = edits =>
     {dest, backup} \ {dest', backup'} \subseteq
         {Missing, Original} \cup published \cup {View(n) : n \in 1 .. view}
OnlyKnownContentRetired == [][OnlyKnownContentRetiredStep]_vars

\* The PDF is never away for good: whatever fails or crashes while it is staged,
\* a later poll puts a PDF back at its name (restore_staged_file 2847-2868).
PdfReturns == backup # Missing ~> dest # Missing
=============================================================================
