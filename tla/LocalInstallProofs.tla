-------------------------- MODULE LocalInstallProofs --------------------------
(***************************************************************************)
(* Machine-checked theorems about LocalInstall, for any number of saves,   *)
(* views, crashes and errors, on either platform: its types, that the last *)
(* save of the device is never lost, and that the transport destroys only  *)
(* contents that are known elsewhere; in the second part, about the        *)
(* journal file beside the PDF, StateFile: its types and that save and     *)
(* load implement AtomicCheckpoint whatever call fails and wherever the    *)
(* process dies; in the third, about FileSettle: what is uploaded of an    *)
(* export is one whole save, and it was quiet; in the last, about          *)
(* AcceptedBaselines: what is journalled and sent is the accepted ink.     *)
(*                                                                         *)
(* The heart of the inductive invariant is what may be at the backup name: *)
(* from the check of the staged file to its removal it is the inspected    *)
(* content, which the journal knows; and whenever a broker view is at the  *)
(* PDF's name, a backup left beside it is a known content as well. The     *)
(* device's last save is never a known content, so neither removal of a    *)
(* backup can hit it.                                                      *)
(***************************************************************************)
EXTENDS LocalInstall, Sequences, TLAPS

BrokerViews == {View(n) : n \in 1 .. view}
Saves == {Edit(n) : n \in 1 .. edits}

(* Contents that exist elsewhere: the original, a broker view, an upload. *)
Known == {Original} \cup published \cup BrokerViews

(* Whatever is anywhere was put there by somebody. *)
Sources ==
    /\ {dest, backup} \subseteq {Missing, Original} \cup BrokerViews \cup Saves
    /\ published \subseteq {Original} \cup BrokerViews \cup Saves
    /\ delivered \in {Missing} \cup BrokerViews
    /\ uploaded \in {Missing} \cup published

(* The last save is newer than anything uploaded. *)
LastSave == unpublished # Missing => unpublished = Edit(edits) /\ edits > 0 /\ unpublished \notin published

(* What each step of a delivery may rely on. *)
DeliveryPoints ==
    /\ pc \notin {"idle", "upload"} => target \in BrokerViews
    /\ expect \in {Missing} \cup Known
    /\ pc \in {"inspect", "replace", "verify", "save"} => backup = Missing
    /\ pc \in {"publish", "retire", "discard"} => backup = expect
    /\ pc \in {"check", "publish", "retire", "discard"} => expect # Missing
    /\ Pinned => dest = target

(* A backup beside a broker view is no unpublished save. *)
BackupKnown == dest \in BrokerViews /\ backup # Missing => backup \in Known

IInv == TypeOK /\ Sources /\ LastSave /\ DeliveryPoints /\ BackupKnown /\ EditPreserved

(* The kinds of contents are distinct. *)
LEMMA Kinds ==
    /\ Original # Missing
    /\ \A n, m : View(n) # Edit(m)
    /\ \A n : View(n) # Missing /\ View(n) # Original /\ Edit(n) # Missing /\ Edit(n) # Original
    /\ \A n, m : (Edit(n) = Edit(m) => n = m) /\ (View(n) = View(m) => n = m)
  BY DEF Original, Missing, View, Edit

(* A save that has not been uploaded is not known. *)
LEMMA UnpublishedUnknown == ASSUME IInv, unpublished # Missing PROVE unpublished \notin Known
  BY Kinds DEF IInv, LastSave, Known, BrokerViews

LEMMA InitIInv == ASSUME InstallAssumption, Init PROVE IInv
<1>1. TypeOK
  <2>1. Original \in Contents
    BY DEF Contents
  <2>2. 0 \in 0 .. MaxViews /\ 0 \in 0 .. MaxEdits /\ 0 \in 0 .. MaxCrashes /\ 0 \in 0 .. MaxErrors
    BY DEF InstallAssumption
  <2> QED
    BY <2>1, <2>2 DEF Init, TypeOK
<1>2. Sources /\ LastSave /\ EditPreserved
  BY DEF Init, Sources, LastSave, EditPreserved
<1>3. DeliveryPoints /\ BackupKnown
  BY DEF Init, DeliveryPoints, BackupKnown, Pinned
<1> QED
  BY <1>1, <1>2, <1>3 DEF IInv

LEMMA DeviceSaveIInv == ASSUME InstallAssumption, IInv, UNCHANGED windows, DeviceSave PROVE IInv'
<1>1. /\ edits \in 0 .. MaxEdits /\ edits < MaxEdits /\ edits' = edits + 1 /\ edits' \in 1 .. MaxEdits
      /\ dest' = Edit(edits') /\ unpublished' = dest' /\ ~Pinned
      /\ UNCHANGED <<backup, view, delivered, uploaded, pending, published, pc, expect, target, crashes, errors>>
  BY DEF InstallAssumption, DeviceSave, IInv, TypeOK, journal
<1>2. BrokerViews' = BrokerViews /\ Known' = Known /\ Saves \subseteq Saves' /\ dest' \in Saves' \ BrokerViews
      /\ dest' # Missing
  BY <1>1, Kinds DEF BrokerViews, Known, Saves
<1>3. dest' \notin published
  BY <1>1, Kinds DEF IInv, Sources, Saves, BrokerViews
<1>4. TypeOK'
  BY <1>1 DEF IInv, TypeOK, Contents
<1>5. Sources' /\ LastSave'
  BY <1>1, <1>2, <1>3 DEF IInv, Sources, LastSave
<1>6. DeliveryPoints' /\ BackupKnown' /\ EditPreserved'
  BY <1>1, <1>2 DEF IInv, DeliveryPoints, BackupKnown, EditPreserved, Pinned
<1> QED
  BY <1>4, <1>5, <1>6 DEF IInv

LEMMA UploadIInv == ASSUME InstallAssumption, IInv, UNCHANGED windows, Upload PROVE IInv'
<1>1. /\ UNCHANGED <<dest, backup, view, delivered, expect, target, edits, crashes, errors>>
      /\ pc = "upload" /\ pc' = "idle" /\ BrokerViews' = BrokerViews /\ Saves' = Saves
  BY DEF Upload, files, counters, BrokerViews, Saves
<1>2. CASE UNCHANGED <<uploaded, pending, unpublished, published>>
  <2>1. Known' = Known
    BY <1>1, <1>2 DEF Known
  <2> QED
    BY <1>1, <1>2, <2>1
    DEF IInv, TypeOK, Sources, LastSave, DeliveryPoints, BackupKnown, EditPreserved, Pinned
<1>3. CASE /\ dest # Missing /\ uploaded' = dest /\ pending' = TRUE /\ published' = published \cup {dest}
           /\ unpublished' = IF unpublished = dest THEN Missing ELSE unpublished
  <2>1. Known \subseteq Known' /\ dest \in Contents
    BY <1>1, <1>3 DEF Known, IInv, TypeOK
  <2>2. TypeOK'
    BY <1>1, <1>3, <2>1 DEF IInv, TypeOK
  <2>3. Sources' /\ LastSave'
    BY <1>1, <1>3 DEF IInv, Sources, LastSave
  <2>4. DeliveryPoints' /\ BackupKnown' /\ EditPreserved'
    BY <1>1, <1>3, <2>1 DEF IInv, DeliveryPoints, BackupKnown, EditPreserved, Pinned
  <2> QED
    BY <2>2, <2>3, <2>4 DEF IInv
<1> QED
  BY <1>2, <1>3 DEF Upload, device

LEMMA AcceptedIInv == ASSUME InstallAssumption, IInv, UNCHANGED windows, Accepted PROVE IInv'
<1>1. /\ UNCHANGED <<dest, backup, view, delivered, uploaded, unpublished, published, pc, expect, target,
                     edits, crashes, errors>>
      /\ pending' = FALSE
  BY DEF Accepted, files, device, counters
<1>2. BrokerViews' = BrokerViews /\ Known' = Known /\ Saves' = Saves
  BY <1>1 DEF BrokerViews, Known, Saves
<1>3. TypeOK'
  BY <1>1 DEF IInv, TypeOK
<1> QED
  BY <1>1, <1>2, <1>3 DEF IInv, Sources, LastSave, DeliveryPoints, BackupKnown, EditPreserved, Pinned

(* A new view is a new known content. *)
LEMMA BrokerViewIInv == ASSUME InstallAssumption, IInv, UNCHANGED windows, BrokerView PROVE IInv'
<1>1. /\ UNCHANGED <<dest, backup, delivered, uploaded, pending, unpublished, published, pc, expect, target,
                     edits, crashes, errors>>
      /\ view \in 0 .. MaxViews /\ view < MaxViews /\ view' = view + 1
  BY DEF BrokerView, files, journal, device, counters, IInv, TypeOK
<1>2. BrokerViews \subseteq BrokerViews' /\ Known \subseteq Known' /\ Saves' = Saves
      /\ BrokerViews' = BrokerViews \cup {View(view + 1)}
  BY <1>1 DEF InstallAssumption, BrokerViews, Known, Saves
<1>3. View(view + 1) \notin {dest, backup}
  BY <1>1, Kinds DEF IInv, Sources, BrokerViews, Saves
<1>4. TypeOK'
  BY <1>1 DEF InstallAssumption, IInv, TypeOK
<1>5. Sources' /\ LastSave' /\ DeliveryPoints'
  BY <1>1, <1>2 DEF IInv, Sources, LastSave, DeliveryPoints, Pinned
<1>6. BackupKnown' /\ EditPreserved'
  BY <1>1, <1>2, <1>3 DEF IInv, BackupKnown, EditPreserved
<1> QED
  BY <1>4, <1>5, <1>6 DEF IInv
-----------------------------------------------------------------------------
Pcs == {"idle", "reconcile", "pinned", "inspect", "replace", "check", "publish", "retire",
        "discard", "verify", "save", "upload"}

(* What a step of a delivery has to keep, when it leaves the journal, the
   device and the broker alone and puts nothing new but its view anywhere. *)
LEMMA DeliveryKeeps ==
    ASSUME InstallAssumption, IInv, UNCHANGED windows, UNCHANGED <<view, journal, device, edits>>,
           crashes' \in 0 .. MaxCrashes, errors' \in 0 .. MaxErrors, pc' \in Pcs,
           {dest', backup'} \subseteq {Missing, dest, backup} \cup BrokerViews,
           target' \in {Missing} \cup BrokerViews,
           pc' \notin {"idle", "upload"} => target' # Missing,
           expect' \in {Missing} \cup Known,
           pc' \in {"inspect", "replace", "verify", "save"} => backup' = Missing,
           pc' \in {"publish", "retire", "discard"} => backup' = expect',
           pc' \in {"check", "publish", "retire", "discard"} => expect' # Missing,
           Pinned' => dest' = target',
           dest' \in BrokerViews /\ backup' # Missing => backup' \in Known,
           EditPreserved'
    PROVE  IInv'
<1>1. /\ UNCHANGED <<delivered, uploaded, pending, unpublished, published>>
      /\ BrokerViews' = BrokerViews /\ Saves' = Saves /\ Known' = Known
  BY DEF journal, device, BrokerViews, Saves, Known
<1>2. BrokerViews \subseteq Contents /\ Known \subseteq Contents
  <2>1. view \in 0 .. MaxViews /\ published \subseteq Contents /\ MaxViews \in Nat
    BY DEF InstallAssumption, IInv, TypeOK
  <2>2. BrokerViews \subseteq Contents
    BY <2>1 DEF BrokerViews, Contents
  <2> QED
    BY <2>1, <2>2 DEF Known, Contents
<1>3. {dest', backup', expect', target'} \subseteq Contents \cup {Missing}
  BY <1>2 DEF IInv, TypeOK
<1>4. TypeOK'
  BY <1>1, <1>3 DEF IInv, TypeOK, Pcs
<1>5. Sources' /\ LastSave'
  BY <1>1 DEF IInv, Sources, LastSave
<1>6. DeliveryPoints' /\ BackupKnown'
  BY <1>1 DEF DeliveryPoints, BackupKnown
<1> QED
  BY <1>4, <1>5, <1>6 DEF IInv

(* Facts every delivery step uses. *)
LEMMA Delivering ==
    ASSUME InstallAssumption, IInv
    PROVE  /\ crashes \in 0 .. MaxCrashes /\ errors \in 0 .. MaxErrors
           /\ Missing \notin BrokerViews /\ target \in Contents \cup {Missing}
           /\ pc \notin {"idle", "upload"} => target \in BrokerViews
           /\ expect \in {Missing} \cup Known
           /\ backup = Missing /\ dest = Missing => unpublished = Missing
  BY Kinds DEF IInv, TypeOK, DeliveryPoints, EditPreserved, BrokerViews

LEMMA BeginDeliveryIInv == ASSUME InstallAssumption, IInv, UNCHANGED windows, BeginDelivery PROVE IInv'
<1>1. UNCHANGED <<dest, backup, view, delivered, uploaded, pending, unpublished, published, expect, edits, crashes, errors>>
  BY DEF BeginDelivery, files, journal, device, counters
<1>2. BrokerViews' = BrokerViews /\ Known' = Known /\ Saves' = Saves
  BY <1>1 DEF BrokerViews, Known, Saves
<1>3. CASE view > 0 /\ pc = "idle" /\ pc' = "reconcile" /\ target' = View(view)
  <2>1. View(view) \in BrokerViews /\ View(view) \in Contents
    BY <1>3 DEF InstallAssumption, IInv, TypeOK, BrokerViews, Contents
  <2>2. TypeOK'
    BY <1>1, <1>3, <2>1 DEF IInv, TypeOK
  <2> QED
    BY <1>1, <1>2, <1>3, <2>1, <2>2
    DEF IInv, Sources, LastSave, DeliveryPoints, BackupKnown, EditPreserved, Pinned
<1>4. CASE pc = "idle" /\ pc' = "upload" /\ target' = target
  <2>1. TypeOK'
    BY <1>1, <1>4 DEF IInv, TypeOK
  <2> QED
    BY <1>1, <1>2, <1>4, <2>1
    DEF IInv, Sources, LastSave, DeliveryPoints, BackupKnown, EditPreserved, Pinned
<1> QED
  BY <1>3, <1>4 DEF BeginDelivery, At

(* A delivery that ends, in whatever way, without moving a file. *)
LEMMA EndIInv ==
    ASSUME InstallAssumption, IInv, Leave \/ Abort, UNCHANGED <<windows, files, view, journal, device, edits>>,
           crashes' \in 0 .. MaxCrashes, errors' \in 0 .. MaxErrors
    PROVE  IInv'
<1>1. pc' \in {"upload", "idle"} /\ expect' = Missing /\ target' = Missing /\ UNCHANGED <<dest, backup, unpublished>>
      /\ pc' \in Pcs /\ ~Pinned'
  BY DEF Leave, Abort, files, device, Pcs, Pinned
<1>2. (dest' \in BrokerViews /\ backup' # Missing => backup' \in Known) /\ EditPreserved'
  BY <1>1 DEF IInv, BackupKnown, EditPreserved
<1> QED
  BY <1>1, <1>2, DeliveryKeeps

(* A staged PDF that is given back is at its name again. *)
LEMMA RestoreKeeps ==
    ASSUME IInv, Restore, UNCHANGED device
    PROVE  dest' = backup /\ backup' = Missing /\ EditPreserved'
  BY DEF Restore, rename_create_only, IInv, EditPreserved, device

LEMMA RestoreEndIInv ==
    ASSUME InstallAssumption, IInv, Leave \/ Abort, Restore, UNCHANGED <<windows, view, journal, device, edits>>,
           crashes' \in 0 .. MaxCrashes, errors' \in 0 .. MaxErrors
    PROVE  IInv'
<1>1. pc' \in {"upload", "idle"} /\ expect' = Missing /\ target' = Missing /\ pc' \in Pcs /\ ~Pinned'
  BY DEF Leave, Abort, Pcs, Pinned
<1>2. dest' = backup /\ backup' = Missing /\ EditPreserved'
  BY RestoreKeeps
<1> QED
  BY <1>1, <1>2, DeliveryKeeps

LEMMA ReconcileIInv == ASSUME InstallAssumption, IInv, UNCHANGED windows, Reconcile PROVE IInv'
<1>1. /\ UNCHANGED <<view, journal, device, edits, crashes, errors>> /\ pc = "reconcile"
      /\ target \in BrokerViews /\ target # Missing /\ expect \in {Missing} \cup Known
      /\ crashes' \in 0 .. MaxCrashes /\ errors' \in 0 .. MaxErrors
  BY Delivering DEF Reconcile, ReconcileStagedBackup, At, counters
<1>2. CASE pc' = "inspect" /\ backup = Missing /\ UNCHANGED <<dest, backup, expect, target>>
  <2>1. EditPreserved' /\ ~Pinned' /\ pc' \in Pcs
    BY <1>1, <1>2 DEF IInv, EditPreserved, device, Pinned, Pcs
  <2> QED
    BY <1>1, <1>2, <2>1, DeliveryKeeps
<1>3. CASE pc' = "inspect" /\ backup # Missing /\ Restore /\ UNCHANGED <<expect, target>>
  <2>1. dest' = backup /\ backup' = Missing /\ EditPreserved' /\ ~Pinned' /\ pc' \in Pcs
    BY <1>1, <1>3, RestoreKeeps DEF Pinned, Pcs
  <2> QED
    BY <1>1, <1>3, <2>1, DeliveryKeeps
<1>4. CASE pc' = "pinned" /\ dest = target /\ UNCHANGED <<dest, backup, expect, target>>
  <2>1. EditPreserved' /\ pc' \in Pcs /\ dest' = target'
        /\ (dest' \in BrokerViews /\ backup' # Missing => backup' \in Known)
    BY <1>1, <1>4 DEF IInv, EditPreserved, device, Pcs, BackupKnown
  <2> QED
    BY <1>1, <1>4, <2>1, DeliveryKeeps
<1>5. CASE Abort /\ UNCHANGED files
  BY <1>1, <1>5, EndIInv
<1> QED
  BY <1>2, <1>3, <1>4, <1>5 DEF Reconcile, ReconcileStagedBackup, At, files

(* Recovery removes a backup only beside the view it pins, so the backup is
   a known content and the last save, if there is one, is not it. *)
LEMMA RetireValidatedIInv == ASSUME InstallAssumption, IInv, UNCHANGED windows, RetireValidated PROVE IInv'
<1>1. /\ UNCHANGED <<view, journal, device, edits, crashes, errors>> /\ pc = "pinned"
      /\ target \in BrokerViews /\ target # Missing /\ expect \in {Missing} \cup Known
      /\ crashes' \in 0 .. MaxCrashes /\ errors' \in 0 .. MaxErrors
  BY Delivering DEF RetireValidated, At, counters
<1>2. CASE windows /\ pc' = "inspect" /\ backup' = Missing /\ UNCHANGED <<dest, expect, target>>
  <2>1. dest \in BrokerViews /\ (backup # Missing => backup \in Known)
    BY <1>1, <1>2 DEF IInv, DeliveryPoints, BackupKnown, Pinned
  <2>2. EditPreserved'
    BY <1>1, <1>2, <2>1, UnpublishedUnknown DEF IInv, EditPreserved, device
  <2>3. ~Pinned' /\ pc' \in Pcs
    BY <1>2 DEF Pinned, Pcs
  <2> QED
    BY <1>1, <1>2, <2>2, <2>3, DeliveryKeeps
<1>3. CASE Abort /\ UNCHANGED files
  BY <1>1, <1>3, EndIInv
<1> QED
  BY <1>2, <1>3 DEF RetireValidated, At

(* What the inspection lets pass is known to the journal. *)
LEMMA InspectIInv == ASSUME InstallAssumption, IInv, UNCHANGED windows, Inspect PROVE IInv'
<1>1. /\ UNCHANGED <<files, view, journal, device, edits, crashes, errors>> /\ pc = "inspect"
      /\ target \in BrokerViews /\ target # Missing /\ backup = Missing
      /\ UNCHANGED <<dest, backup, unpublished>>
      /\ crashes' \in 0 .. MaxCrashes /\ errors' \in 0 .. MaxErrors
  BY Delivering DEF Inspect, counters, files, device, IInv, DeliveryPoints
<1>2. EditPreserved'
  BY <1>1 DEF IInv, EditPreserved
<1>3. CASE dest = target /\ pc' = "verify" /\ expect' = dest /\ target' = target
  <2>1. expect' \in Known /\ ~Pinned' /\ pc' \in Pcs
    BY <1>1, <1>3 DEF Known, Pinned, Pcs
  <2> QED
    BY <1>1, <1>2, <1>3, <2>1, DeliveryKeeps
<1>4. CASE ~HasUnpublishedEdit(dest) /\ pc' = "replace" /\ expect' = dest /\ target' = target
  <2>1. expect' \in {Missing} \cup Known /\ ~Pinned' /\ pc' \in Pcs
    BY <1>1, <1>4 DEF HasUnpublishedEdit, Known, Pinned, Pcs, IInv, Sources
  <2> QED
    BY <1>1, <1>2, <1>4, <2>1, DeliveryKeeps
<1>5. CASE Leave
  BY <1>1, <1>5, EndIInv
<1> QED
  BY <1>3, <1>4, <1>5 DEF Inspect

(* The view goes to a free name only while nothing is staged. *)
LEMMA PublishNewIInv == ASSUME InstallAssumption, IInv, UNCHANGED windows, PublishNew PROVE IInv'
<1>1. /\ UNCHANGED <<backup, view, journal, device, edits, crashes, errors>> /\ pc = "replace"
      /\ target \in BrokerViews /\ target # Missing /\ backup = Missing /\ expect \in {Missing} \cup Known
      /\ crashes' \in 0 .. MaxCrashes /\ errors' \in 0 .. MaxErrors
  BY Delivering DEF PublishNew, counters, IInv, DeliveryPoints
<1>2. CASE dest = Missing /\ dest' = target /\ pc' = "verify" /\ UNCHANGED <<expect, target>>
  <2>1. EditPreserved' /\ ~Pinned' /\ pc' \in Pcs
    BY <1>1, <1>2, Delivering DEF EditPreserved, device, Pinned, Pcs
  <2> QED
    BY <1>1, <1>2, <2>1, DeliveryKeeps
<1>3. CASE Leave /\ UNCHANGED dest
  BY <1>1, <1>3, EndIInv DEF files
<1> QED
  BY <1>2, <1>3 DEF PublishNew, rename_create_only

(* Whatever is at the name is moved, not copied: a last save moves along. *)
LEMMA StageIInv == ASSUME InstallAssumption, IInv, UNCHANGED windows, Stage PROVE IInv'
<1>1. /\ UNCHANGED <<view, journal, device, edits, crashes, errors>> /\ pc = "replace" /\ expect # Missing
      /\ target \in BrokerViews /\ target # Missing /\ backup = Missing /\ expect \in {Missing} \cup Known
      /\ crashes' \in 0 .. MaxCrashes /\ errors' \in 0 .. MaxErrors /\ Missing \notin BrokerViews
  BY Delivering DEF Stage, counters, IInv, DeliveryPoints
<1>2. CASE backup' = dest /\ dest' = Missing /\ pc' = "check" /\ UNCHANGED <<expect, target>>
  <2>1. EditPreserved' /\ ~Pinned' /\ pc' \in Pcs
    BY <1>1, <1>2 DEF IInv, EditPreserved, device, Pinned, Pcs
  <2> QED
    BY <1>1, <1>2, <2>1, DeliveryKeeps
<1>3. CASE Leave /\ UNCHANGED files
  BY <1>1, <1>3, EndIInv
<1> QED
  BY <1>2, <1>3 DEF Stage

LEMMA CheckStagedIInv == ASSUME InstallAssumption, IInv, UNCHANGED windows, CheckStaged PROVE IInv'
<1>1. /\ UNCHANGED <<view, journal, device, edits, crashes, errors>> /\ pc = "check" /\ expect # Missing
      /\ target \in BrokerViews /\ target # Missing /\ expect \in {Missing} \cup Known
      /\ crashes' \in 0 .. MaxCrashes /\ errors' \in 0 .. MaxErrors
  BY Delivering DEF CheckStaged, counters, IInv, DeliveryPoints
<1>2. CASE backup = expect /\ pc' = "publish" /\ UNCHANGED <<dest, backup, expect, target>>
  <2>1. EditPreserved' /\ ~Pinned' /\ pc' \in Pcs /\ backup' \in Known
    BY <1>1, <1>2 DEF IInv, EditPreserved, device, Pinned, Pcs
  <2> QED
    BY <1>1, <1>2, <2>1, DeliveryKeeps
<1>3. CASE Restore /\ Leave
  BY <1>1, <1>3, RestoreEndIInv
<1>4. CASE Abort /\ UNCHANGED files
  BY <1>1, <1>4, EndIInv
<1> QED
  BY <1>2, <1>3, <1>4 DEF CheckStaged, files

LEMMA PublishIInv == ASSUME InstallAssumption, IInv, UNCHANGED windows, Publish PROVE IInv'
<1>1. /\ UNCHANGED <<backup, view, journal, device, edits, crashes, errors, expect, target>>
      /\ pc = "publish" /\ expect # Missing /\ backup = expect
      /\ target \in BrokerViews /\ target # Missing /\ expect \in {Missing} \cup Known
      /\ crashes' \in 0 .. MaxCrashes /\ errors' \in 0 .. MaxErrors
  BY Delivering DEF Publish, counters, IInv, DeliveryPoints
<1>2. backup \in Known /\ ~Pinned'
  BY <1>1 DEF Publish, Pinned
<1>3. CASE dest = Missing /\ dest' = target /\ pc' = "retire"
  <2>1. unpublished = Missing
    BY <1>2, <1>3, UnpublishedUnknown DEF IInv, EditPreserved
  <2>2. EditPreserved' /\ pc' \in Pcs
    BY <1>1, <1>3, <2>1 DEF EditPreserved, device, Pcs
  <2> QED
    BY <1>1, <1>2, <1>3, <2>2, DeliveryKeeps
<1>4. CASE UNCHANGED dest /\ pc' = "discard"
  <2>1. EditPreserved' /\ pc' \in Pcs
    BY <1>1, <1>4 DEF IInv, EditPreserved, device, Pcs
  <2> QED
    BY <1>1, <1>2, <1>4, <2>1, DeliveryKeeps
<1> QED
  BY <1>3, <1>4 DEF Publish, rename_create_only

(* The staged content that is removed was inspected, so it is known. *)
LEMMA RetireBackupIInv == ASSUME InstallAssumption, IInv, UNCHANGED windows, RetireBackup PROVE IInv'
<1>1. /\ UNCHANGED <<dest, view, journal, device, edits, crashes, errors>>
      /\ pc \in {"retire", "discard"} /\ backup \in Known /\ backup' = Missing
      /\ target \in BrokerViews /\ target # Missing /\ expect \in {Missing} \cup Known
      /\ crashes' \in 0 .. MaxCrashes /\ errors' \in 0 .. MaxErrors
  BY Delivering DEF RetireBackup, counters, IInv, DeliveryPoints
<1>2. EditPreserved'
  BY <1>1, UnpublishedUnknown DEF IInv, EditPreserved, device
<1>3. CASE pc' = "verify" /\ UNCHANGED <<expect, target>>
  <2>1. ~Pinned' /\ pc' \in Pcs
    BY <1>3 DEF Pinned, Pcs
  <2> QED
    BY <1>1, <1>2, <1>3, <2>1, DeliveryKeeps
<1>4. CASE Leave
  <2>1. pc' = "upload" /\ expect' = Missing /\ target' = Missing /\ pc' \in Pcs /\ ~Pinned'
    BY <1>4 DEF Leave, Pcs, Pinned
  <2> QED
    BY <1>1, <1>2, <2>1, DeliveryKeeps
<1> QED
  BY <1>3, <1>4 DEF RetireBackup

LEMMA VerifyIInv == ASSUME InstallAssumption, IInv, UNCHANGED windows, Verify PROVE IInv'
<1>1. /\ UNCHANGED <<files, dest, backup, view, journal, device, edits, crashes, errors>> /\ pc = "verify"
      /\ target \in BrokerViews /\ target # Missing /\ backup = Missing /\ expect \in {Missing} \cup Known
      /\ crashes' \in 0 .. MaxCrashes /\ errors' \in 0 .. MaxErrors
  BY Delivering DEF Verify, counters, files, IInv, DeliveryPoints
<1>2. CASE pc' = "save" /\ UNCHANGED <<expect, target>>
  <2>1. EditPreserved' /\ ~Pinned' /\ pc' \in Pcs
    BY <1>1, <1>2 DEF IInv, EditPreserved, device, Pinned, Pcs
  <2> QED
    BY <1>1, <1>2, <2>1, DeliveryKeeps
<1>3. CASE Leave
  BY <1>1, <1>3, EndIInv
<1> QED
  BY <1>2, <1>3 DEF Verify

LEMMA SaveJournalIInv == ASSUME InstallAssumption, IInv, UNCHANGED windows, SaveJournal PROVE IInv'
<1>1. /\ UNCHANGED <<dest, backup, view, uploaded, pending, unpublished, published, edits, crashes, errors>>
      /\ delivered' = target /\ pc' = "upload" /\ expect' = Missing /\ target' = Missing
      /\ target \in BrokerViews /\ target \in Contents \cup {Missing}
  BY Delivering DEF SaveJournal, Leave, files, device, counters
<1>2. BrokerViews' = BrokerViews /\ Saves' = Saves /\ Known' = Known
  BY <1>1 DEF BrokerViews, Saves, Known
<1>3. TypeOK'
  BY <1>1 DEF IInv, TypeOK
<1> QED
  BY <1>1, <1>2, <1>3 DEF IInv, Sources, LastSave, DeliveryPoints, BackupKnown, EditPreserved, Pinned

LEMMA FailIInv == ASSUME InstallAssumption, IInv, UNCHANGED windows, Fail PROVE IInv'
<1>1. /\ UNCHANGED <<view, journal, device, edits, crashes>> /\ Abort
      /\ crashes' \in 0 .. MaxCrashes /\ errors' \in 0 .. MaxErrors
  BY Delivering DEF InstallAssumption, Fail
<1> QED
  BY <1>1, EndIInv, RestoreEndIInv DEF Fail

LEMMA CrashIInv == ASSUME InstallAssumption, IInv, UNCHANGED windows, Crash PROVE IInv'
<1>1. /\ UNCHANGED <<files, view, journal, device, edits, errors>> /\ Abort
      /\ crashes' \in 0 .. MaxCrashes /\ errors' \in 0 .. MaxErrors
  BY Delivering DEF InstallAssumption, Crash
<1> QED
  BY <1>1, EndIInv

LEMMA NextIInv == ASSUME InstallAssumption, IInv, [Next]_vars PROVE IInv'
<1>1. ASSUME UNCHANGED vars PROVE IInv'
  <2>1. BrokerViews' = BrokerViews /\ Saves' = Saves /\ Known' = Known /\ (Pinned' <=> Pinned)
    BY <1>1 DEF vars, BrokerViews, Saves, Known, Pinned
  <2>2. TypeOK'
    BY <1>1 DEF vars, IInv, TypeOK
  <2> QED
    BY <1>1, <2>1, <2>2 DEF vars, IInv, Sources, LastSave, DeliveryPoints, BackupKnown, EditPreserved
<1>2. ASSUME UNCHANGED windows, Deliver PROVE IInv'
  BY <1>2, BeginDeliveryIInv, ReconcileIInv, RetireValidatedIInv, InspectIInv, PublishNewIInv, StageIInv,
     CheckStagedIInv, PublishIInv, RetireBackupIInv, VerifyIInv, SaveJournalIInv DEF Deliver
<1> QED
  BY <1>1, <1>2, DeviceSaveIInv, UploadIInv, AcceptedIInv, BrokerViewIInv, FailIInv, CrashIInv DEF Next

(* The inductive invariant. *)
THEOREM Invariance == ASSUME InstallAssumption PROVE Spec => []IInv
  BY InitIInv, NextIInv, PTL DEF Spec

(* Types of the files, the journal and the running delivery. *)
THEOREM TypeCorrect == ASSUME InstallAssumption PROVE Spec => []TypeOK
<1>1. IInv => TypeOK
  BY DEF IInv
<1> QED
  BY <1>1, Invariance, PTL

(* The last save of the device is at the PDF's name or at the backup name
   until it has been uploaded, whatever installation, recovery, crash or
   failed call it meets. *)
THEOREM LastSaveKept == ASSUME InstallAssumption PROVE Spec => []EditPreserved
<1>1. IInv => EditPreserved
  BY DEF IInv
<1> QED
  BY <1>1, Invariance, PTL
-----------------------------------------------------------------------------
(* No step but the two removals takes a content away, and what those take is
   known. *)
LEMMA Retired == ASSUME InstallAssumption, IInv, [Next]_vars PROVE OnlyKnownContentRetiredStep
<1> SUFFICES ASSUME edits' = edits
             PROVE  {dest, backup} \ {dest', backup'} \subseteq {Missing} \cup Known
  BY DEF OnlyKnownContentRetiredStep, Known, BrokerViews
<1>1. ~DeviceSave
  BY DEF DeviceSave, IInv, TypeOK
<1>2. ASSUME UNCHANGED files PROVE {dest, backup} \ {dest', backup'} \subseteq {Missing} \cup Known
  BY <1>2 DEF files
<1>3. ASSUME Restore PROVE {dest, backup} \ {dest', backup'} \subseteq {Missing} \cup Known
  BY <1>3 DEF Restore, rename_create_only
<1>4. ASSUME PublishNew \/ Publish \/ Stage
      PROVE  {dest, backup} \ {dest', backup'} \subseteq {Missing} \cup Known
  <2>1. backup \in {backup'} \cup {Missing} /\ dest \in {dest', backup', Missing}
    BY <1>4 DEF PublishNew, Publish, Stage, rename_create_only, files
  <2> QED
    BY <2>1
<1>5. ASSUME RetireBackup PROVE {dest, backup} \ {dest', backup'} \subseteq {Missing} \cup Known
  BY <1>5 DEF RetireBackup, IInv, DeliveryPoints
<1>6. ASSUME RetireValidated PROVE {dest, backup} \ {dest', backup'} \subseteq {Missing} \cup Known
  <2>1. CASE Pinned /\ backup' = Missing /\ UNCHANGED dest
    <3>1. dest \in BrokerViews
      BY <2>1, Delivering DEF IInv, DeliveryPoints, Pinned
    <3> QED
      BY <2>1, <3>1 DEF IInv, BackupKnown
  <2> QED
    BY <1>2, <1>6, <2>1 DEF RetireValidated, At, Pinned
<1>7. ASSUME Reconcile \/ CheckStaged \/ Fail PROVE Restore \/ UNCHANGED files
  BY <1>7 DEF Reconcile, ReconcileStagedBackup, CheckStaged, Fail
<1>8. ASSUME Upload \/ Accepted \/ BrokerView \/ BeginDelivery \/ Inspect \/ Verify \/ SaveJournal \/ Crash
             \/ UNCHANGED vars
      PROVE  UNCHANGED files
  BY <1>8 DEF Upload, Accepted, BrokerView, BeginDelivery, Inspect, Verify, SaveJournal, Crash, vars, files
<1> QED
  BY <1>1, <1>2, <1>3, <1>4, <1>5, <1>6, <1>7, <1>8 DEF Next, Deliver

(* A transport step destroys a content only if it is the original, a broker
   view or an uploaded edit, the staged predecessor included. *)
THEOREM KnownRetired == ASSUME InstallAssumption PROVE Spec => OnlyKnownContentRetired
<1>1. ASSUME InstallAssumption, IInv, [Next]_vars PROVE [OnlyKnownContentRetiredStep]_vars
  BY <1>1, Retired
<1> QED
  BY <1>1, Invariance, PTL DEF Spec, OnlyKnownContentRetired
-----------------------------------------------------------------------------
(* The journal beside the PDF: StateFile, for any set of journals.  Its types
   are not inductive alone: publishing moves the next file to the current
   name, and only SavePoints tells that it is a whole journal then.  The
   refinement needs SavePoints too: the exchange of the files changes the
   journal a restart loads in one step, PublishNext, because before it the
   staged file, and after it the new one, is found. *)
CONSTANTS States, Empty, Absent, Torn
VARIABLES path, previous, next, mem, step, hadCurrent

Journal == INSTANCE StateFile WITH Missing <- Absent, pc <- step

JournalInv == Journal!TypeOK /\ Journal!SavePoints

LEMMA InitJournalInv == ASSUME Journal!StateAssumption, Journal!Init PROVE JournalInv
  BY DEF Journal!StateAssumption, Journal!Init, JournalInv, Journal!TypeOK, Journal!SavePoints,
     Journal!Pcs

(* Every step of load and save keeps the invariant. *)
LEMMA NextJournalInv == ASSUME Journal!StateAssumption, JournalInv, [Journal!Next]_(Journal!vars) PROVE JournalInv'
<1> USE DEF JournalInv, Journal!TypeOK, Journal!SavePoints, Journal!Pcs
<1>1. ASSUME Journal!Load PROVE JournalInv'
  BY <1>1 DEF Journal!StateAssumption, Journal!Load, Journal!Loaded
<1>2. ASSUME Journal!SyncDocument PROVE JournalInv'
  BY <1>2 DEF Journal!SyncDocument
<1>3. ASSUME Journal!WriteNext PROVE JournalInv'
  BY <1>3 DEF Journal!WriteNext
<1>4. ASSUME Journal!WriteDone PROVE JournalInv'
  BY <1>4 DEF Journal!WriteDone
<1>5. ASSUME Journal!RemovePrevious PROVE JournalInv'
  BY <1>5 DEF Journal!RemovePrevious
<1>6. ASSUME Journal!StageCurrent PROVE JournalInv'
  BY <1>6 DEF Journal!StageCurrent
<1>7. ASSUME Journal!PublishNext PROVE JournalInv'
  BY <1>7 DEF Journal!PublishNext
<1>8. ASSUME Journal!PublishFailed PROVE JournalInv'
  BY <1>8 DEF Journal!PublishFailed
<1>9. ASSUME Journal!RetirePrevious PROVE JournalInv'
  BY <1>9 DEF Journal!RetirePrevious
<1>10. ASSUME Journal!SaveFailed PROVE JournalInv'
  BY <1>10 DEF Journal!SaveFailed
<1>11. ASSUME Journal!Crash PROVE JournalInv'
  BY <1>11 DEF Journal!StateAssumption, Journal!Crash
<1>12. ASSUME UNCHANGED Journal!vars PROVE JournalInv'
  BY <1>12 DEF Journal!vars
<1> QED
  BY <1>1, <1>2, <1>3, <1>4, <1>5, <1>6, <1>7, <1>8, <1>9, <1>10, <1>11, <1>12 DEF Journal!Next

(* The inductive invariant: at every point of save the names hold what the
   next call relies on, and no torn write is ever at a name load reads. *)
THEOREM JournalInvariance == ASSUME Journal!StateAssumption PROVE Journal!Spec => []JournalInv
  BY InitJournalInv, NextJournalInv, PTL DEF Journal!Spec

(* Types of load and save; in particular the current and the previous name
   never hold a torn file. *)
THEOREM JournalTypeCorrect == ASSUME Journal!StateAssumption PROVE Journal!Spec => []Journal!TypeOK
<1>1. JournalInv => Journal!TypeOK
  BY DEF JournalInv
<1> QED
  BY <1>1, JournalInvariance, PTL
-----------------------------------------------------------------------------
(* Nothing saved yet: a restart would load the empty journal. *)
LEMMA RefineInit == ASSUME Journal!Init PROVE Journal!Checkpoint!Init
  BY DEF Journal!Init, Journal!Checkpoint!Init, Journal!Loaded, Journal!Mode

(* Publishing is the one step that changes what a restart loads. *)
LEMMA PublishCommits ==
    ASSUME Journal!StateAssumption, JournalInv, Journal!PublishNext PROVE Journal!Checkpoint!Commit
<1>1. next \in States /\ next = mem /\ path' = next /\ path' # Absent
  BY DEF Journal!StateAssumption, JournalInv, Journal!TypeOK, Journal!SavePoints,
     Journal!PublishNext
<1>2. Journal!Loaded' = mem
  BY <1>1 DEF Journal!Loaded
<1> QED
  BY <1>2 DEF Journal!PublishNext, Journal!Checkpoint!Commit, Journal!Mode

(* The other steps that move files leave the loaded journal alone. *)
LEMMA StagingKeepsLoaded ==
    ASSUME JournalInv, Journal!RemovePrevious \/ Journal!StageCurrent \/ Journal!PublishFailed
    PROVE  Journal!Loaded' = Journal!Loaded
  BY DEF JournalInv, Journal!SavePoints, Journal!RemovePrevious, Journal!StageCurrent,
     Journal!PublishFailed, Journal!Loaded

(* Success is reported for the journal a restart would load. *)
LEMMA RetireReturns ==
    ASSUME Journal!StateAssumption, JournalInv, Journal!RetirePrevious
    PROVE Journal!Checkpoint!ReturnOk
<1>1. path = mem /\ path # Absent /\ path' = path
  BY DEF Journal!StateAssumption, JournalInv, Journal!TypeOK, Journal!SavePoints,
     Journal!RetirePrevious
<1>2. Journal!Loaded = mem /\ Journal!Loaded' = Journal!Loaded
  BY <1>1 DEF Journal!Loaded
<1> QED
  BY <1>2 DEF Journal!RetirePrevious, Journal!Checkpoint!ReturnOk, Journal!Mode

(* Every step is a step of the atomic journal or leaves it unchanged. *)
LEMMA RefineNext ==
    ASSUME Journal!StateAssumption, JournalInv, [Journal!Next]_(Journal!vars)
    PROVE [Journal!Checkpoint!Next]_(Journal!Checkpoint!cvars)
<1>1. ASSUME Journal!Load PROVE Journal!Checkpoint!Start
  BY <1>1 DEF Journal!Load, Journal!Checkpoint!Start, Journal!Mode, Journal!Loaded
<1>2. ASSUME Journal!SyncDocument PROVE Journal!Checkpoint!Sync
  BY <1>2 DEF Journal!SyncDocument, Journal!Checkpoint!Sync, Journal!Mode, Journal!Loaded
<1>3. ASSUME Journal!WriteNext PROVE Journal!Checkpoint!BeginSave
  BY <1>3 DEF Journal!WriteNext, Journal!Checkpoint!BeginSave, Journal!Mode, Journal!Loaded
<1>4. ASSUME Journal!WriteDone PROVE UNCHANGED Journal!Checkpoint!cvars
  BY <1>4 DEF Journal!WriteDone, Journal!Checkpoint!cvars, Journal!Mode, Journal!Loaded
<1>5. ASSUME Journal!RemovePrevious \/ Journal!StageCurrent PROVE UNCHANGED Journal!Checkpoint!cvars
  BY <1>5, StagingKeepsLoaded DEF Journal!RemovePrevious, Journal!StageCurrent,
     Journal!Checkpoint!cvars, Journal!Mode
<1>6. ASSUME Journal!PublishFailed PROVE Journal!Checkpoint!ReturnErr
  BY <1>6, StagingKeepsLoaded DEF Journal!PublishFailed, Journal!Checkpoint!ReturnErr, Journal!Mode
<1>7. ASSUME Journal!SaveFailed PROVE Journal!Checkpoint!ReturnErr
  BY <1>7 DEF Journal!SaveFailed, Journal!Checkpoint!ReturnErr, Journal!Mode, Journal!Loaded
<1>8. ASSUME Journal!Crash PROVE Journal!Checkpoint!Crash
  BY <1>8 DEF JournalInv, Journal!TypeOK, Journal!Pcs, Journal!Crash, Journal!Checkpoint!Crash,
     Journal!Mode, Journal!Loaded
<1>9. ASSUME UNCHANGED Journal!vars PROVE UNCHANGED Journal!Checkpoint!cvars
  BY <1>9 DEF Journal!vars, Journal!Checkpoint!cvars, Journal!Mode, Journal!Loaded
<1> QED
  BY <1>1, <1>2, <1>3, <1>4, <1>5, <1>6, <1>7, <1>8, <1>9, PublishCommits, RetireReturns
  DEF Journal!Next, Journal!Checkpoint!Next

(* save and load implement one atomic durable journal: whatever call fails
   and wherever the process dies, a restart loads the last journal whose
   exchange took effect, and save reports success only for that journal. *)
THEOREM JournalRefinement == ASSUME Journal!StateAssumption
  PROVE Journal!Spec => Journal!AtomicJournal
  BY JournalInvariance, RefineInit, RefineNext, PTL DEF Journal!Spec, Journal!AtomicJournal,
     Journal!Checkpoint!Spec
-----------------------------------------------------------------------------
(* When an export is finished: FileSettle, for any settle time, length of a
   poll, chunks and saves. What a poll reads is one save (ReadOK), because a
   write in place moves the mtime unless it falls into the tick of the last one,
   and the poll began reading long after that; a rename leaves the open handle
   what it was. An observation with the mtime of the file is not older than the
   file's last change, by more than the length of the poll that made it
   (ObservedOK). *)
CONSTANTS Chunks, Settle, MaxPass, MaxSaves, MaxStops, SameStamp, None  \* and MaxCrashes
VARIABLES file, written, saving, saves, stops, obs, remembered, late, content, posted, open

Settling == INSTANCE FileSettle WITH journal <- remembered

Reading == {"read", "hash", "recheck"}
Undecided == {"check", "read", "hash", "recheck", "remember"}

(* All chunks are of one save. *)
Uniform(bytes) == \A i, j \in 1 .. Len(bytes) : bytes[i] = bytes[j]

FileOK ==
    /\ file \in [chunks : Settling!Bytes, stamp : Nat, age : 0 .. Settling!Cap]
    /\ written \in 0 .. Settling!Cap /\ saves \in 0 .. MaxSaves /\ saving \in {None} \cup Nat
    /\ saving = None => Uniform(file.chunks)
    /\ saving # None => file.age = written /\ written < Settle /\ saves > 0
    /\ saving = 0 => Len(file.chunks) < Chunks /\ \A i \in 1 .. Len(file.chunks) : file.chunks[i] = saves
    /\ saving \notin {0, None} => /\ Len(file.chunks) = Chunks /\ saving \in 2 .. Chunks
                                  /\ \A i \in 1 .. saving - 1 : file.chunks[i] = saves

(* An observation of the file as it is now dates from after its last change. *)
ObservedOK(o) ==
    o # None => /\ o \in Settling!Observations /\ o.stamp <= file.stamp
                /\ ~SameStamp /\ o.stamp = file.stamp =>
                      o.first <= written + MaxPass /\ o.first <= file.age + MaxPass

ReadOK ==
    /\ {content, posted} \subseteq Settling!Bytes
    /\ open # None => open \in Settling!Bytes /\ Uniform(open)
    /\ pc = "check" => content = <<>> /\ posted = <<>> /\ open = None
    /\ pc \in Reading => obs # None
    /\ pc \in Reading /\ obs.stamp = file.stamp => saving = None /\ file.age > 0
    /\ pc = "read" /\ obs.stamp = file.stamp =>
          Len(content) <= Len(Settling!Handle) /\ \A i \in 1 .. Len(content) : content[i] = Settling!Handle[i]
    /\ pc \in {"hash", "recheck"} /\ obs.stamp = file.stamp => Uniform(content)

WholeOrNone(bytes) == bytes \in Settling!Bytes /\ (bytes # <<>> => Settling!Whole(bytes))

JournalOK ==
    /\ remembered = [obs |-> remembered.obs, uploaded |-> remembered.uploaded, pending |-> remembered.pending]
    /\ ObservedOK(obs) /\ ObservedOK(remembered.obs)
    /\ WholeOrNone(uploaded) /\ WholeOrNone(remembered.uploaded)
    /\ {pending, remembered.pending} \subseteq BOOLEAN
    /\ remembered.pending => pending
    /\ pc \in Undecided => ~pending

SettleInv == /\ FileOK /\ ReadOK /\ JournalOK
             /\ late \in 0 .. MaxPass
             /\ pc \in {"idle", "check", "read", "hash", "recheck", "remember", "save"}

(* The contents of an export are the sequences of at most Chunks versions. *)
LEMMA BytesAreSequences ==
  ASSUME Settling!SettleAssumption
  PROVE  /\ \A b \in Settling!Bytes : b \in Seq(Settling!Versions) /\ Len(b) \in 0 .. Chunks
         /\ \A b \in Seq(Settling!Versions) : Len(b) <= Chunks => b \in Settling!Bytes
         /\ <<>> \in Settling!Bytes
<1>1. ASSUME NEW b \in Settling!Bytes PROVE b \in Seq(Settling!Versions) /\ Len(b) \in 0 .. Chunks
  <2>1. PICK n \in 0 .. Chunks : b \in [1 .. n -> Settling!Versions]
    BY <1>1 DEF Settling!Bytes
  <2>2. n \in Nat /\ b \in Seq(Settling!Versions)
    BY <2>1 DEF Settling!SettleAssumption
  <2>3. Len(b) = n
    BY <2>1, <2>2
  <2> QED
    BY <2>1, <2>2, <2>3
<1>2. ASSUME NEW b \in Seq(Settling!Versions), Len(b) <= Chunks PROVE b \in Settling!Bytes
  <2>1. b \in [1 .. Len(b) -> Settling!Versions] /\ Len(b) \in 0 .. Chunks
    BY <1>2 DEF Settling!SettleAssumption
  <2> QED
    BY <2>1 DEF Settling!Bytes
<1>3. <<>> \in Seq(Settling!Versions) /\ Len(<<>>) <= Chunks
  BY DEF Settling!SettleAssumption
<1>4. <<>> \in Settling!Bytes
  BY <1>2, <1>3
<1> QED
  BY <1>1, <1>2, <1>4

(* A whole save has all its chunks, from one save. *)
LEMMA UniformIsWhole ==
  ASSUME Settling!SettleAssumption, NEW b \in Settling!Bytes, Uniform(b), Len(b) >= Chunks
  PROVE  Settling!Whole(b)
<1>1. b \in Seq(Settling!Versions) /\ Len(b) = Chunks
  BY BytesAreSequences DEF Settling!SettleAssumption
<1>2. 1 \in 1 .. Len(b) /\ b[1] \in 1 .. MaxSaves
  BY <1>1 DEF Settling!SettleAssumption, Settling!Versions
<1>3. b = [i \in 1 .. Chunks |-> b[1]]
  BY <1>1, <1>2 DEF Uniform
<1> QED
  BY <1>2, <1>3 DEF Settling!Whole

(* No export, no observation and nothing uploaded. *)
LEMMA InitSettle == ASSUME Settling!SettleAssumption, Settling!Init PROVE SettleInv
<1>1. <<>> \in Settling!Bytes /\ Len(<<>>) = 0
  BY BytesAreSequences
<1>2. FileOK
  BY <1>1 DEF Settling!SettleAssumption, Settling!Init, FileOK, Uniform, Settling!Cap
<1>3. ReadOK
  BY <1>1 DEF Settling!Init, ReadOK, Reading
<1>4. JournalOK
  BY <1>1 DEF Settling!Init, JournalOK, ObservedOK, WholeOrNone, Undecided
<1> QED
  BY <1>2, <1>3, <1>4 DEF Settling!SettleAssumption, Settling!Init, SettleInv

(* Time passes for the file and for both observations alike; a save that is
   going on never rests for Settle. *)
LEMMA TickKeeps == ASSUME Settling!SettleAssumption, SettleInv, Settling!Tick PROVE SettleInv'
<1> USE DEF SettleInv
<1>1. /\ file' = [file EXCEPT !.age = Settling!Older(@)] /\ written' = Settling!Older(written)
      /\ obs' = Settling!Aged(obs) /\ remembered' = [remembered EXCEPT !.obs = Settling!Aged(@)]
      /\ late' = IF pc = "idle" THEN 0 ELSE late + 1
      /\ UNCHANGED <<saving, saves, stops, crashes, uploaded, pending, pc, content, posted, open>>
      /\ saving # None => written + 1 < Settle
      /\ pc # "idle" => late < MaxPass
  BY DEF Settling!Tick, Settling!readVars
<1>2. Settling!Cap \in Nat /\ Settle <= Settling!Cap /\ Settle \in Nat /\ MaxPass \in Nat
  BY DEF Settling!SettleAssumption, Settling!Cap
<1>3. FileOK'
  BY <1>1, <1>2 DEF FileOK, Settling!Older, Uniform
<1>4. ASSUME NEW o, ObservedOK(o)
      PROVE  LET p == Settling!Aged(o)
             IN /\ p # None => p \in Settling!Observations /\ p.stamp <= file'.stamp
                /\ p # None /\ ~SameStamp /\ p.stamp = file'.stamp =>
                      p.first <= written' + MaxPass /\ p.first <= file'.age + MaxPass
                /\ p # None <=> o # None
                /\ p # None => p.stamp = o.stamp
  <2>1. CASE o = None
    BY <2>1 DEF Settling!Aged
  <2>2. CASE o # None
    <3>1. o \in Settling!Observations /\ Settling!Aged(o) = [o EXCEPT !.first = Settling!Older(@)]
      BY <1>4, <2>2 DEF ObservedOK, Settling!Aged
    <3>2. Settling!Older(o.first) \in 0 .. Settling!Cap
      BY <3>1, <1>2 DEF Settling!Observations, Settling!Older
    <3>3. /\ Settling!Aged(o) \in Settling!Observations /\ Settling!Aged(o).stamp = o.stamp
          /\ Settling!Aged(o).first = Settling!Older(o.first)
      BY <3>1, <3>2 DEF Settling!Observations
    <3>4. Settling!Aged(o) # None
      BY <3>3 DEF Settling!SettleAssumption
    <3>5. /\ o.first \in 0 .. Settling!Cap /\ written \in 0 .. Settling!Cap /\ file.age \in 0 .. Settling!Cap
          /\ file'.age = Settling!Older(file.age) /\ file'.stamp = file.stamp
      BY <3>1, <1>1 DEF Settling!Observations, FileOK
    <3> QED
      BY <1>1, <1>2, <1>4, <2>2, <3>3, <3>4, <3>5 DEF ObservedOK, Settling!Older
  <2> QED
    BY <2>1, <2>2
<1>5. ObservedOK(obs)' /\ ObservedOK(remembered.obs)'
  <2>1. remembered'.obs = Settling!Aged(remembered.obs)
    BY <1>1 DEF JournalOK
  <2> QED
    BY <1>1, <1>4, <2>1 DEF ObservedOK, JournalOK
<1>6. JournalOK'
  BY <1>1, <1>5 DEF JournalOK, WholeOrNone
<1>7. ReadOK'
  <2>1. file'.chunks = file.chunks /\ file'.stamp = file.stamp /\ (file.age > 0 => file'.age > 0)
    BY <1>1, <1>2 DEF FileOK, Settling!Older
  <2>2. (obs' # None <=> obs # None) /\ (obs # None => obs'.stamp = obs.stamp)
    BY <1>1, <1>4 DEF JournalOK
  <2>3. Settling!Handle' = Settling!Handle
    BY <1>1, <2>1 DEF Settling!Handle
  <2> QED
    BY <1>1, <2>1, <2>2, <2>3 DEF ReadOK, Reading, Uniform
<1> QED
  BY <1>1, <1>2, <1>3, <1>6, <1>7

(* A write in place: the mtime moves, unless it is still the tick of the last
   write. *)
LEMMA WriteKeeps ==
  ASSUME Settling!SettleAssumption, SettleInv, NEW bytes \in Settling!Bytes, NEW n \in Nat,
         file' = Settling!Stamped(bytes), written' = 0, saves' \in 0 .. MaxSaves, saves' > 0,
         FileOK', UNCHANGED <<crashes, obs, uploaded, pending, remembered, pc, late, content, posted, open>>
  PROVE  SettleInv'
<1> USE DEF SettleInv
<1>1. /\ file'.age = 0 /\ file'.stamp \in Nat /\ file.stamp \in Nat /\ file'.stamp >= file.stamp
      /\ file'.stamp = file.stamp => file.age = 0
  BY DEF Settling!Stamped, FileOK
<1>2. MaxPass \in Nat
  BY DEF Settling!SettleAssumption
<1>3. ASSUME NEW o, ObservedOK(o), o # None
      PROVE  /\ o \in Settling!Observations /\ o.stamp <= file'.stamp
             /\ ~SameStamp /\ o.stamp = file'.stamp =>
                   o.first <= written' + MaxPass /\ o.first <= file'.age + MaxPass
  <2>1. o \in Settling!Observations /\ o.stamp \in Nat /\ o.stamp <= file.stamp
    BY <1>3 DEF ObservedOK, Settling!Observations
  <2>2. o.stamp = file'.stamp => o.stamp = file.stamp /\ file.age = 0
    BY <1>1, <2>1
  <2> QED
    BY <1>1, <1>2, <1>3, <2>1, <2>2 DEF ObservedOK
<1>4. ObservedOK(obs)' /\ ObservedOK(remembered.obs)'
  BY <1>3 DEF ObservedOK, JournalOK
<1>5. pc \in Reading => obs.stamp # file'.stamp
  BY <1>1 DEF ReadOK, JournalOK, ObservedOK, Settling!Observations
<1>6. JournalOK'
  BY <1>4 DEF JournalOK, WholeOrNone
<1>7. ReadOK'
  BY <1>5 DEF ReadOK, Reading, Uniform
<1> QED
  BY <1>6, <1>7

(* A truncating save leaves no chunk, an overwriting one the first chunk, of its own. *)
LEMMA BeginSaveKeeps == ASSUME Settling!SettleAssumption, SettleInv, Settling!BeginSave PROVE SettleInv'
<1> USE DEF SettleInv
<1>1. /\ saving = None /\ saves < MaxSaves /\ saves' = saves + 1 /\ written' = 0
      /\ UNCHANGED <<crashes, obs, uploaded, pending, remembered, pc, late, content, posted, open>>
  BY DEF Settling!BeginSave, Settling!writerRest, Settling!stateVars
<1>2. MaxSaves \in Nat /\ Settle \in Nat /\ Settle > 1 /\ Chunks \in Nat /\ Chunks > 0
  BY DEF Settling!SettleAssumption
<1>3. CASE saving' = Settling!AtEnd /\ file' = Settling!Stamped(<<>>)
  <2>1. <<>> \in Settling!Bytes /\ saving' = 0
    BY <1>3, BytesAreSequences DEF Settling!AtEnd
  <2>2. /\ file'.chunks = <<>> /\ file'.age = 0 /\ file' \in [chunks : Settling!Bytes, stamp : Nat, age : 0 .. Settling!Cap]
    BY <1>2, <1>3, <2>1 DEF Settling!Stamped, FileOK, Settling!Cap, Settling!SettleAssumption
  <2>3. FileOK'
    BY <1>1, <1>2, <2>1, <2>2 DEF FileOK, Settling!Cap, Settling!SettleAssumption
  <2> QED
    BY <1>1, <1>2, <1>3, <2>1, <2>3, WriteKeeps DEF FileOK
<1>4. CASE /\ Len(file.chunks) = Chunks /\ Chunks > 1
           /\ saving' = 2 /\ file' = Settling!Stamped([file.chunks EXCEPT ![1] = saves'])
  <2> DEFINE edited == [file.chunks EXCEPT ![1] = saves']
  <2>1. file.chunks \in Seq(Settling!Versions) /\ saves' \in Settling!Versions
    BY <1>1, <1>2, BytesAreSequences DEF FileOK, Settling!Versions
  <2>2. edited \in Seq(Settling!Versions) /\ Len(edited) = Chunks /\ edited[1] = saves'
    BY <1>2, <1>4, <2>1
  <2> HIDE DEF edited
  <2>3. edited \in Settling!Bytes
    BY <1>2, <2>2, BytesAreSequences
  <2>4. file' = Settling!Stamped(edited)
    BY <1>4 DEF edited
  <2>5. /\ file'.chunks = edited /\ file'.age = 0 /\ file' \in [chunks : Settling!Bytes, stamp : Nat, age : 0 .. Settling!Cap]
    BY <1>2, <2>3, <2>4 DEF Settling!Stamped, FileOK, Settling!Cap, Settling!SettleAssumption
  <2>6. FileOK'
    BY <1>1, <1>2, <1>4, <2>2, <2>5 DEF FileOK, Settling!Cap, Settling!SettleAssumption
  <2> QED
    BY <1>1, <1>2, <2>3, <2>4, <2>6, WriteKeeps DEF FileOK
<1> QED
  BY <1>3, <1>4 DEF Settling!BeginSave

(* The chunk that completes a save makes the file one save again. *)
LEMMA WriteChunkKeeps == ASSUME Settling!SettleAssumption, SettleInv, Settling!WriteChunk PROVE SettleInv'
<1> USE DEF SettleInv
<1>1. /\ saving # None /\ written' = 0
      /\ UNCHANGED <<saves, crashes, obs, uploaded, pending, remembered, pc, late, content, posted, open>>
  BY DEF Settling!WriteChunk, Settling!writerRest, Settling!stateVars
<1>2. /\ MaxSaves \in Nat /\ Settle \in Nat /\ Settle > 1 /\ Chunks \in Nat /\ Chunks > 0
      /\ 0 \in 0 .. Settling!Cap
  BY DEF Settling!SettleAssumption, Settling!Cap
<1>3. file.chunks \in Seq(Settling!Versions) /\ Len(file.chunks) \in 0 .. Chunks /\ saves \in Settling!Versions
  BY <1>1, BytesAreSequences DEF FileOK, Settling!Versions
<1>4. CASE saving = 0
  <2> DEFINE edited == Append(file.chunks, saves)
  <2>1. Len(file.chunks) < Chunks /\ \A i \in 1 .. Len(file.chunks) : file.chunks[i] = saves
    BY <1>4 DEF FileOK
  <2>2. /\ edited \in Seq(Settling!Versions) /\ Len(edited) = Len(file.chunks) + 1
        /\ \A i \in 1 .. Len(edited) : edited[i] = saves
    BY <1>3, <2>1
  <2> HIDE DEF edited
  <2>3. edited \in Settling!Bytes
    <3>1. Len(edited) <= Chunks
      BY <1>2, <1>3, <2>1, <2>2
    <3> QED
      BY <2>2, <3>1, BytesAreSequences
  <2>4. /\ file' = Settling!Stamped(edited)
        /\ saving' = IF Len(file'.chunks) = Chunks THEN None ELSE saving
    BY <1>4 DEF edited, Settling!WriteChunk, Settling!AtEnd
  <2>5. /\ file'.chunks = edited /\ file'.age = 0 /\ file' \in [chunks : Settling!Bytes, stamp : Nat, age : 0 .. Settling!Cap]
    BY <1>2, <2>3, <2>4 DEF Settling!Stamped, FileOK
  <2>6. FileOK'
    BY <1>1, <1>2, <1>3, <1>4, <2>1, <2>2, <2>4, <2>5 DEF FileOK, Uniform, Settling!SettleAssumption
  <2> QED
    BY <1>1, <1>2, <2>3, <2>4, <2>6, WriteKeeps DEF FileOK
<1>5. CASE saving # 0
  <2> DEFINE edited == [file.chunks EXCEPT ![saving] = saves]
  <2>1. /\ Len(file.chunks) = Chunks /\ saving \in 2 .. Chunks
        /\ \A i \in 1 .. saving - 1 : file.chunks[i] = saves
    BY <1>1, <1>5 DEF FileOK
  <2>2. /\ edited \in Seq(Settling!Versions) /\ Len(edited) = Chunks
        /\ \A i \in 1 .. saving : edited[i] = saves
    BY <1>3, <2>1
  <2> HIDE DEF edited
  <2>3. edited \in Settling!Bytes
    BY <1>2, <2>2, BytesAreSequences
  <2>4. /\ file' = Settling!Stamped(edited)
        /\ saving' = IF saving = Chunks THEN None ELSE saving + 1
    BY <1>5 DEF edited, Settling!WriteChunk, Settling!AtEnd
  <2>5. /\ file'.chunks = edited /\ file'.age = 0 /\ file' \in [chunks : Settling!Bytes, stamp : Nat, age : 0 .. Settling!Cap]
    BY <1>2, <2>3, <2>4 DEF Settling!Stamped, FileOK
  <2>6. FileOK'
    <3>1. CASE saving = Chunks
      <4>1. saving' = None /\ Uniform(edited)
        BY <2>2, <2>4, <3>1 DEF Uniform
      <4> QED
        BY <1>1, <1>2, <2>5, <4>1 DEF FileOK, Uniform, Settling!SettleAssumption
    <3>2. CASE saving # Chunks
      <4>1. saving' = saving + 1 /\ saving' \in 2 .. Chunks /\ saving' # None
        BY <2>1, <2>4, <3>2 DEF Settling!SettleAssumption
      <4> QED
        BY <1>1, <1>2, <2>1, <2>2, <2>5, <4>1 DEF FileOK
    <3> QED
      BY <3>1, <3>2
  <2> QED
    BY <1>1, <1>2, <2>3, <2>4, <2>6, WriteKeeps DEF FileOK
<1> QED
  BY <1>4, <1>5

(* A rename brings a whole save; what is being read stays the old file, and
   only SameStamp lets the new one carry an observed mtime. *)
LEMMA RenameInKeeps == ASSUME Settling!SettleAssumption, SettleInv, Settling!RenameIn PROVE SettleInv'
<1> USE DEF SettleInv
<1>1. /\ saving = None /\ saves < MaxSaves /\ saves' = saves + 1 /\ written' = 0
      /\ open' = IF pc \in {"read", "hash"} /\ open = None THEN file.chunks ELSE open
      /\ UNCHANGED <<saving, crashes, obs, uploaded, pending, remembered, pc, late, content, posted>>
  BY DEF Settling!RenameIn, Settling!writerRest, Settling!stateVars
<1>2. PICK stamp \in {file.stamp + 1} \cup (IF SameStamp THEN {file.stamp} ELSE {}) :
          file' = [chunks |-> [i \in 1 .. Chunks |-> saves'], age |-> Settling!Cap, stamp |-> stamp]
  BY DEF Settling!RenameIn
<1>3. /\ MaxSaves \in Nat /\ Settle \in Nat /\ Settle > 1 /\ Chunks \in Nat /\ Chunks > 0
      /\ Settling!Cap \in Nat /\ Settling!Cap > 0
  BY DEF Settling!SettleAssumption, Settling!Cap
<1>4. file.stamp \in Nat /\ file'.stamp \in Nat /\ file'.stamp >= file.stamp
      /\ (file'.stamp = file.stamp => SameStamp)
  BY <1>2 DEF FileOK
<1>5. [i \in 1 .. Chunks |-> saves'] \in Settling!Bytes /\ Uniform([i \in 1 .. Chunks |-> saves'])
  <2> DEFINE new == [i \in 1 .. Chunks |-> saves']
  <2>1. saves' \in Settling!Versions
    BY <1>1, <1>3 DEF FileOK, Settling!Versions
  <2>2. new \in Seq(Settling!Versions) /\ Len(new) = Chunks
    BY <1>3, <2>1
  <2>3. Uniform(new)
    BY <2>2 DEF Uniform
  <2> HIDE DEF new
  <2>4. new \in Settling!Bytes
    BY <1>3, <2>2, BytesAreSequences
  <2> QED
    BY <2>3, <2>4 DEF new
<1>6. FileOK'
  BY <1>1, <1>2, <1>3, <1>4, <1>5 DEF FileOK, Settling!SettleAssumption
<1>7. ObservedOK(obs)' /\ ObservedOK(remembered.obs)'
  BY <1>1, <1>4 DEF ObservedOK, JournalOK, Settling!Observations
<1>8. JournalOK'
  BY <1>1, <1>7 DEF JournalOK, WholeOrNone
<1>9. ReadOK'
  <2>1. file.chunks \in Settling!Bytes /\ Uniform(file.chunks) /\ file'.age > 0
    BY <1>1, <1>2, <1>3 DEF FileOK
  <2>2. pc = "read" => Settling!Handle' = Settling!Handle
    <3>1. file.chunks # None
      BY <2>1 DEF Settling!SettleAssumption
    <3> QED
      BY <1>1, <3>1 DEF Settling!Handle
  <2>3. pc \in Reading /\ obs.stamp = file'.stamp => obs.stamp = file.stamp
    BY <1>4 DEF ReadOK, JournalOK, ObservedOK, Settling!Observations
  <2> QED
    BY <1>1, <2>1, <2>2, <2>3 DEF ReadOK, Reading
<1> QED
  BY <1>1, <1>6, <1>8, <1>9

(* A part of one save is left. *)
LEMMA StopSaveKeeps == ASSUME Settling!SettleAssumption, SettleInv, Settling!StopSave PROVE SettleInv'
<1> USE DEF SettleInv
<1>1. /\ saving = 0 /\ saving' = None
      /\ UNCHANGED <<file, written, saves, crashes, obs, uploaded, pending, remembered, pc, late, content, posted, open>>
  BY DEF Settling!StopSave, Settling!stateVars, Settling!readVars, Settling!AtEnd
<1>2. FileOK'
  BY <1>1 DEF FileOK, Uniform, Settling!SettleAssumption
<1>3. JournalOK'
  BY <1>1 DEF JournalOK, ObservedOK, WholeOrNone
<1>4. ReadOK'
  BY <1>1 DEF ReadOK, Reading, Settling!Handle, Uniform
<1> QED
  BY <1>1, <1>2, <1>3, <1>4

(* A poll's steps that leave the file alone keep what is known of it. *)
LEMMA FileStays ==
  ASSUME SettleInv, UNCHANGED <<file, written, saving, saves>>
  PROVE  FileOK' /\ \A o : ObservedOK(o) => ObservedOK(o)'
  BY DEF SettleInv, FileOK, Uniform, ObservedOK

(* file_is_settled leaves an observation of the file as it is. *)
LEMMA ObserveKeeps ==
  ASSUME Settling!SettleAssumption, SettleInv, Settling!Observe, UNCHANGED <<file, written, saving, saves>>
  PROVE  ObservedOK(obs)' /\ obs' # None /\ obs'.stamp = file.stamp
<1>1. CASE Settling!SameMetadata
  BY <1>1, FileStays DEF Settling!Observe, Settling!SameMetadata, SettleInv, JournalOK, ObservedOK
<1>2. CASE ~Settling!SameMetadata
  <2>1. obs' = [size |-> Len(file.chunks), stamp |-> file.stamp, first |-> late, hash |-> None]
    BY <1>2 DEF Settling!Observe, Settling!Observed
  <2>2. /\ Len(file.chunks) \in 0 .. Chunks /\ file.stamp \in Nat /\ late \in 0 .. MaxPass
        /\ written \in Nat /\ file.age \in Nat /\ MaxPass \in Nat /\ late \in 0 .. Settling!Cap
    BY BytesAreSequences DEF SettleInv, FileOK, Settling!SettleAssumption, Settling!Cap
  <2>3. obs' \in Settling!Observations
    BY <2>1, <2>2 DEF Settling!Observations
  <2>4. obs' # None
    BY <2>3 DEF Settling!SettleAssumption
  <2> QED
    BY <2>1, <2>2, <2>3, <2>4 DEF ObservedOK
<1> QED
  BY <1>1, <1>2

(* A poll with a pending upload decides nothing. *)
LEMMA BeginPollKeeps == ASSUME Settling!SettleAssumption, SettleInv, Settling!BeginPoll PROVE SettleInv'
<1> USE DEF SettleInv
<1>1. /\ pc = "idle" /\ late' = 0 /\ pc' \in {"save", "check"} /\ (pc' = "check" => ~pending)
      /\ content' = <<>> /\ posted' = <<>> /\ open' = None
      /\ UNCHANGED <<file, written, saving, saves, stops, crashes, obs, uploaded, pending, remembered>>
  BY DEF Settling!BeginPoll, Settling!fileVars, Settling!stateVars
<1>2. FileOK' /\ \A o : ObservedOK(o) => ObservedOK(o)'
  BY <1>1, FileStays
<1>3. JournalOK'
  BY <1>1, <1>2 DEF JournalOK, WholeOrNone, Undecided, ObservedOK
<1>4. ReadOK'
  BY <1>1, BytesAreSequences DEF ReadOK, Reading
<1> QED
  BY <1>1, <1>2, <1>3, <1>4 DEF Settling!SettleAssumption

(* A file that is settled is not being saved, and its mtime is of an earlier tick. *)
LEMMA CheckSettledKeeps == ASSUME Settling!SettleAssumption, SettleInv, Settling!CheckSettled PROVE SettleInv'
<1> USE DEF SettleInv
<1>1. /\ pc = "check" /\ pc' = IF Settling!file_is_settled THEN "read" ELSE "save"
      /\ Settling!Observe
      /\ UNCHANGED <<file, written, saving, saves, stops, crashes, uploaded, pending, remembered, late, content, posted, open>>
  BY DEF Settling!CheckSettled, Settling!fileVars, Settling!readVars
<1>2. FileOK' /\ (\A o : ObservedOK(o) => ObservedOK(o)')
  BY <1>1, FileStays
<1>3. ObservedOK(obs)' /\ obs' # None /\ obs'.stamp = file.stamp
  BY <1>1, ObserveKeeps
<1>4. JournalOK'
  BY <1>1, <1>2, <1>3 DEF JournalOK, WholeOrNone, Undecided, ObservedOK
<1>5. pc' = "read" => saving = None /\ file.age > 0
  BY <1>1 DEF Settling!file_is_settled, FileOK, Settling!SettleAssumption
<1>6. ReadOK'
  <2>1. content = <<>> /\ posted = <<>> /\ open = None
    BY <1>1 DEF ReadOK
  <2>2. <<>> \in Settling!Bytes /\ Len(<<>>) = 0 /\ Len(file.chunks) \in Nat
    BY BytesAreSequences DEF FileOK, Settling!SettleAssumption
  <2> QED
    BY <1>1, <1>3, <1>5, <2>1, <2>2 DEF ReadOK, Reading, Settling!Handle
<1> QED
  BY <1>1, <1>2, <1>4, <1>6

(* One more chunk of the open handle. *)
LEMMA ReadOneMore ==
  ASSUME Settling!SettleAssumption, SettleInv, pc \in {"read", "hash"},
         NEW bytes \in Settling!Bytes, Settling!NextOf(bytes)
  PROVE  LET more == Append(bytes, Settling!Handle[Len(bytes) + 1])
         IN more \in Settling!Bytes /\ Len(more) = Len(bytes) + 1 /\ Len(more) <= Len(Settling!Handle)
            /\ \A i \in 1 .. Len(bytes) : more[i] = bytes[i]
            /\ more[Len(bytes) + 1] = Settling!Handle[Len(bytes) + 1]
<1> DEFINE more == Append(bytes, Settling!Handle[Len(bytes) + 1])
<1>1. Settling!Handle \in Settling!Bytes
  BY DEF SettleInv, ReadOK, FileOK, Settling!Handle
<1>2. /\ Settling!Handle \in Seq(Settling!Versions) /\ Len(Settling!Handle) \in 0 .. Chunks
      /\ bytes \in Seq(Settling!Versions) /\ Len(bytes) \in Nat /\ Len(bytes) < Len(Settling!Handle) /\ Chunks \in Nat
  BY <1>1, BytesAreSequences DEF Settling!NextOf, Settling!SettleAssumption
<1>3. Settling!Handle[Len(bytes) + 1] \in Settling!Versions
  BY <1>2
<1>4. /\ more \in Seq(Settling!Versions) /\ Len(more) = Len(bytes) + 1 /\ Len(more) <= Len(Settling!Handle)
      /\ \A i \in 1 .. Len(bytes) : more[i] = bytes[i]
      /\ more[Len(bytes) + 1] = Settling!Handle[Len(bytes) + 1]
  BY <1>2, <1>3
<1> HIDE DEF more
<1>5. more \in Settling!Bytes
  <2>1. Len(more) <= Chunks
    BY <1>2, <1>4
  <2> QED
    BY <1>4, <2>1, BytesAreSequences
<1> QED
  BY <1>4, <1>5 DEF more

(* What is read of a file that has not moved is of one save. *)
LEMMA HandleIsUniform ==
  ASSUME SettleInv, pc \in Reading, obs.stamp = file.stamp
  PROVE  Uniform(Settling!Handle)
BY DEF SettleInv, ReadOK, FileOK, Reading, Settling!Handle

(* What fs::read has of a file that has not moved begins it, and at its end is of one save. *)
LEMMA ReadChunkKeeps == ASSUME Settling!SettleAssumption, SettleInv, Settling!ReadChunk PROVE SettleInv'
<1> USE DEF SettleInv
<1>1. /\ pc = "read"
      /\ UNCHANGED <<file, written, saving, saves, stops, crashes, obs, uploaded, pending, remembered, late, posted>>
  BY DEF Settling!ReadChunk, Settling!fileVars, Settling!stateVars
<1>2. FileOK' /\ \A o : ObservedOK(o) => ObservedOK(o)'
  BY <1>1, FileStays
<1>3. pc' \in {"read", "hash"}
  BY <1>1 DEF Settling!ReadChunk
<1>4. JournalOK'
  BY <1>1, <1>2, <1>3 DEF JournalOK, WholeOrNone, Undecided, ObservedOK
<1>5. CASE Settling!NextOf(content)
  <2>1. content' = Append(content, Settling!Handle[Len(content) + 1]) /\ UNCHANGED <<pc, open>>
    BY <1>5 DEF Settling!ReadChunk
  <2>2. content \in Settling!Bytes
    BY DEF ReadOK
  <2>3. Len(content) \in Nat
    BY <2>2, BytesAreSequences
  <2>4. /\ content' \in Settling!Bytes /\ Len(content') = Len(content) + 1 /\ Len(content') <= Len(Settling!Handle)
        /\ \A i \in 1 .. Len(content) : content'[i] = content[i]
        /\ content'[Len(content) + 1] = Settling!Handle[Len(content) + 1]
    BY <1>1, <1>5, <2>1, <2>2, ReadOneMore
  <2>5. ASSUME obs.stamp = file.stamp, NEW i \in 1 .. Len(content')
        PROVE  content'[i] = Settling!Handle[i]
    <3>1. i \in 1 .. Len(content) \/ i = Len(content) + 1
      BY <2>3, <2>4
    <3> QED
      BY <1>1, <2>4, <2>5, <3>1 DEF ReadOK
  <2>6. ReadOK'
    BY <1>1, <2>1, <2>4, <2>5 DEF ReadOK, Reading, Settling!Handle
  <2> QED
    BY <1>1, <1>2, <1>3, <1>4, <2>6
<1>6. CASE ~Settling!NextOf(content)
  <2>1. pc' = "hash" /\ open' = None /\ UNCHANGED content
    BY <1>6 DEF Settling!ReadChunk
  <2>2. obs.stamp = file.stamp => Uniform(content)
    <3>1. obs.stamp = file.stamp => Uniform(Settling!Handle)
      BY <1>1, HandleIsUniform DEF Reading
    <3>2. content \in Settling!Bytes /\ Settling!Handle \in Settling!Bytes
      BY DEF ReadOK, FileOK, Settling!Handle
    <3>3. Len(content) \in Nat /\ Len(Settling!Handle) \in Nat
      BY <3>2, BytesAreSequences
    <3> QED
      BY <1>1, <3>1, <3>3 DEF ReadOK, Uniform
  <2>3. ReadOK'
    BY <1>1, <2>1, <2>2 DEF ReadOK, Reading, Uniform
  <2> QED
    BY <1>1, <1>2, <1>3, <1>4, <2>3
<1> QED
  BY <1>5, <1>6

(* The second read changes only the hash to compare. *)
LEMMA HashChunkKeeps == ASSUME Settling!SettleAssumption, SettleInv, Settling!HashChunk PROVE SettleInv'
<1> USE DEF SettleInv
<1>1. /\ pc = "hash" /\ pc' \in {"hash", "recheck"}
      /\ UNCHANGED <<file, written, saving, saves, stops, crashes, obs, uploaded, pending, remembered, late, content>>
  BY DEF Settling!HashChunk, Settling!fileVars, Settling!stateVars
<1>2. FileOK' /\ \A o : ObservedOK(o) => ObservedOK(o)'
  BY <1>1, FileStays
<1>3. JournalOK'
  BY <1>1, <1>2 DEF JournalOK, WholeOrNone, Undecided, ObservedOK
<1>4. posted' \in Settling!Bytes /\ (open' # None => open' = open)
  BY <1>1, ReadOneMore DEF Settling!HashChunk, ReadOK
<1>5. ReadOK'
  BY <1>1, <1>4 DEF ReadOK, Reading, Uniform
<1> QED
  BY <1>1, <1>2, <1>3, <1>5

(* The second file_is_settled finds the mtime of the observation, so what was
   read in between is of one save; an error returns to the journal. *)
LEMMA RecheckKeeps == ASSUME Settling!SettleAssumption, SettleInv, Settling!Recheck PROVE SettleInv'
<1> USE DEF SettleInv
<1>1. /\ pc = "recheck"
      /\ UNCHANGED <<file, written, saving, saves, stops, crashes, remembered, content, posted, open>>
  BY DEF Settling!Recheck, Settling!fileVars, Settling!readVars
<1>2. FileOK' /\ \A o : ObservedOK(o) => ObservedOK(o)'
  BY <1>1, FileStays
<1>3. obs # None /\ content \in Settling!Bytes /\ 0 \in 0 .. MaxPass
  BY <1>1 DEF ReadOK, Reading, Settling!SettleAssumption
<1>4. CASE ~Settling!file_is_settled /\ Settling!Observe /\ pc' = "save" /\ UNCHANGED <<uploaded, pending, late>>
  <2>1. ObservedOK(obs)'
    BY <1>1, <1>4, ObserveKeeps
  <2>2. JournalOK'
    BY <1>1, <1>2, <1>4, <2>1 DEF JournalOK, WholeOrNone, Undecided, ObservedOK
  <2>3. ReadOK'
    BY <1>1, <1>4 DEF ReadOK, Reading, Uniform
  <2> QED
    BY <1>1, <1>2, <1>4, <2>2, <2>3
<1>5. CASE pc' = "remember" /\ UNCHANGED <<obs, uploaded, pending, late>>
  <2>1. JournalOK'
    BY <1>1, <1>2, <1>5 DEF JournalOK, WholeOrNone, Undecided, ObservedOK
  <2>2. ReadOK'
    BY <1>1, <1>5 DEF ReadOK, Reading, Uniform
  <2> QED
    BY <1>1, <1>2, <1>5, <2>1, <2>2
<1>6. CASE Settling!Discard
  <2>1. /\ pc' = "idle" /\ late' = 0 /\ obs' = remembered.obs /\ uploaded' = remembered.uploaded
        /\ pending' = remembered.pending
    BY <1>6 DEF Settling!Discard
  <2>2. JournalOK'
    BY <1>1, <1>2, <2>1 DEF JournalOK, WholeOrNone, Undecided, ObservedOK
  <2>3. ReadOK'
    BY <1>1, <2>1 DEF ReadOK, Reading, Uniform
  <2> QED
    BY <1>1, <1>2, <1>3, <2>1, <2>2, <2>3
<1>7. CASE /\ Settling!file_is_settled /\ Len(content) >= Chunks
           /\ pc' = "save" /\ UNCHANGED late /\ obs' = [obs EXCEPT !.hash = content]
           /\ uploaded' = content /\ pending' = (uploaded # content)
  <2>1. obs.stamp = file.stamp
    BY <1>7 DEF Settling!file_is_settled, Settling!SameMetadata
  <2>2. Settling!Whole(content)
    BY <1>1, <1>3, <1>7, <2>1, UniformIsWhole DEF ReadOK
  <2>3. obs' \in Settling!Observations /\ obs'.stamp = obs.stamp /\ obs'.first = obs.first
    BY <1>3, <1>7 DEF JournalOK, ObservedOK, Settling!Observations
  <2>4. ObservedOK(obs')
    BY <1>3, <2>3 DEF JournalOK, ObservedOK
  <2>5. WholeOrNone(uploaded')
    BY <1>3, <1>7, <2>2 DEF WholeOrNone
  <2>6. ~remembered.pending
    BY <1>1 DEF JournalOK, Undecided
  <2>7. JournalOK'
    BY <1>1, <1>2, <1>7, <2>4, <2>5, <2>6 DEF JournalOK, WholeOrNone, Undecided, ObservedOK, Settling!Whole
  <2>8. ReadOK'
    BY <1>1, <1>7 DEF ReadOK, Reading, Uniform
  <2> QED
    BY <1>1, <1>2, <1>7, <2>7, <2>8
<1>8. Len(content) \in Nat /\ Chunks \in Nat
  BY <1>3, BytesAreSequences DEF Settling!SettleAssumption
<1> QED
  BY <1>4, <1>5, <1>6, <1>7, <1>8 DEF Settling!Recheck, Settling!stateVars

(* remember_content_change dates its observation by its own now. *)
LEMMA RememberKeeps == ASSUME Settling!SettleAssumption, SettleInv, Settling!Remember PROVE SettleInv'
<1> USE DEF SettleInv
<1>1. /\ pc = "remember" /\ pc' = "save"
      /\ obs' = [size |-> Len(file.chunks), stamp |-> file.stamp, first |-> 0, hash |-> posted]
      /\ UNCHANGED <<file, written, saving, saves, stops, crashes, uploaded, pending, remembered, late, content, posted, open>>
  BY DEF Settling!Remember, Settling!remember_content_change, Settling!Observed, Settling!fileVars, Settling!readVars
<1>2. FileOK' /\ \A o : ObservedOK(o) => ObservedOK(o)'
  BY <1>1, FileStays
<1>3. ObservedOK(obs)'
  <2>1. /\ Len(file.chunks) \in 0 .. Chunks /\ file.stamp \in Nat /\ posted \in Settling!Bytes
        /\ written \in Nat /\ file.age \in Nat /\ MaxPass \in Nat /\ 0 \in 0 .. Settling!Cap
    BY BytesAreSequences DEF FileOK, ReadOK, Settling!SettleAssumption, Settling!Cap
  <2>2. obs' \in Settling!Observations
    BY <1>1, <2>1 DEF Settling!Observations
  <2> QED
    BY <1>1, <2>1, <2>2 DEF ObservedOK
<1>4. JournalOK'
  BY <1>1, <1>2, <1>3 DEF JournalOK, WholeOrNone, Undecided, ObservedOK
<1>5. ReadOK'
  BY <1>1 DEF ReadOK, Reading, Uniform
<1> QED
  BY <1>1, <1>2, <1>4, <1>5

(* The journal takes what the poll holds. *)
LEMMA SaveKeeps == ASSUME Settling!SettleAssumption, SettleInv, Settling!Save PROVE SettleInv'
<1> USE DEF SettleInv
<1>1. /\ pc = "save" /\ pc' = "idle" /\ late' = 0
      /\ remembered' = [obs |-> obs, uploaded |-> uploaded, pending |-> pending]
      /\ UNCHANGED <<file, written, saving, saves, stops, crashes, obs, uploaded, pending, content, posted, open>>
  BY DEF Settling!Save, Settling!fileVars, Settling!stateVars, Settling!readVars
<1>2. FileOK' /\ \A o : ObservedOK(o) => ObservedOK(o)'
  BY <1>1, FileStays
<1>3. JournalOK'
  BY <1>1, <1>2 DEF JournalOK, WholeOrNone, Undecided, ObservedOK
<1>4. ReadOK'
  BY <1>1 DEF ReadOK, Reading, Uniform
<1> QED
  BY <1>1, <1>2, <1>3, <1>4 DEF Settling!SettleAssumption

(* A crash returns to the journal. *)
LEMMA PollCrashKeeps == ASSUME Settling!SettleAssumption, SettleInv, Settling!Crash PROVE SettleInv'
<1> USE DEF SettleInv
<1>1. /\ pc' = "idle" /\ late' = 0 /\ obs' = remembered.obs /\ uploaded' = remembered.uploaded
      /\ pending' = remembered.pending
      /\ UNCHANGED <<file, written, saving, saves, stops, remembered, content, posted, open>>
  BY DEF Settling!Crash, Settling!Discard, Settling!fileVars, Settling!readVars
<1>2. FileOK' /\ \A o : ObservedOK(o) => ObservedOK(o)'
  BY <1>1, FileStays
<1>3. JournalOK'
  BY <1>1, <1>2 DEF JournalOK, WholeOrNone, Undecided, ObservedOK
<1>4. ReadOK'
  BY <1>1 DEF ReadOK, Reading, Uniform
<1> QED
  BY <1>1, <1>2, <1>3, <1>4 DEF Settling!SettleAssumption

(* An answer clears the pending upload in both. *)
LEMMA AcceptedKeeps == ASSUME Settling!SettleAssumption, SettleInv, Settling!Accepted PROVE SettleInv'
<1> USE DEF SettleInv
<1>1. /\ pc = "idle" /\ pending' = FALSE /\ remembered' = [remembered EXCEPT !.pending = FALSE]
      /\ UNCHANGED <<file, written, saving, saves, stops, crashes, obs, uploaded, pc, late, content, posted, open>>
  BY DEF Settling!Accepted, Settling!fileVars, Settling!readVars
<1>2. FileOK' /\ \A o : ObservedOK(o) => ObservedOK(o)'
  BY <1>1, FileStays
<1>3. /\ remembered'.obs = remembered.obs /\ remembered'.uploaded = remembered.uploaded /\ ~remembered'.pending
      /\ remembered' = [obs |-> remembered'.obs, uploaded |-> remembered'.uploaded, pending |-> remembered'.pending]
  BY <1>1 DEF JournalOK
<1>4. JournalOK'
  BY <1>1, <1>2, <1>3 DEF JournalOK, WholeOrNone, Undecided, ObservedOK
<1>5. ReadOK'
  BY <1>1 DEF ReadOK, Reading, Uniform, Settling!Handle
<1> QED
  BY <1>1, <1>2, <1>4, <1>5

(* One step of the writers, the clock, the poll, the broker, or a crash. *)
LEMMA NextSettle ==
  ASSUME Settling!SettleAssumption, SettleInv, [Settling!Next]_(Settling!vars) PROVE SettleInv'
<1>1. CASE UNCHANGED Settling!vars
  BY <1>1 DEF Settling!vars, Settling!fileVars, Settling!stateVars, Settling!readVars, SettleInv, FileOK, ReadOK,
              JournalOK, ObservedOK, WholeOrNone, Settling!Handle, Uniform, Reading, Undecided
<1> QED
  BY <1>1, TickKeeps, BeginSaveKeeps, WriteChunkKeeps, RenameInKeeps, StopSaveKeeps, BeginPollKeeps,
     CheckSettledKeeps, ReadChunkKeeps, HashChunkKeeps, RecheckKeeps, RememberKeeps, SaveKeeps, PollCrashKeeps,
     AcceptedKeeps DEF Settling!Next, Settling!Poll

(* The inductive invariant: while the observation a poll works from has the
   file's mtime, what the poll has read is of one save; and no observation
   with the file's mtime is older than the file's last change by more than a
   poll (file_is_settled, transport.rs). *)
THEOREM SettleInvariance == ASSUME Settling!SettleAssumption PROVE Settling!Spec => []SettleInv
<1>1. Settling!Init => SettleInv
  BY InitSettle
<1>2. SettleInv /\ [Settling!Next]_(Settling!vars) => SettleInv'
  BY NextSettle
<1> QED
  BY <1>1, <1>2, PTL DEF Settling!Spec

(* Types of the export, of both observations and of the locals of
   upload_supernote_if_ready. *)
THEOREM SettleTypes == ASSUME Settling!SettleAssumption PROVE Settling!Spec => []Settling!TypeOK
<1>1. SettleInv => Settling!TypeOK
  BY DEF SettleInv, FileOK, ReadOK, JournalOK, ObservedOK, WholeOrNone, Settling!TypeOK
<1> QED
  BY <1>1, SettleInvariance, PTL

(* Whatever is uploaded is one whole save of the export, never a mixture of
   two or a part of one, with any mtimes: not even a rename that brings an
   observed mtime can mix two saves, because the open handle keeps the old
   file, and a poll that opens the name later reads the new one whole
   (upload_supernote_if_ready). *)
THEOREM UploadWhole == ASSUME Settling!SettleAssumption PROVE Settling!Spec => []Settling!UploadedWhole
<1>1. SettleInv => Settling!UploadedWhole
  BY DEF SettleInv, JournalOK, WholeOrNone, Settling!UploadedWhole
<1> QED
  BY <1>1, SettleInvariance, PTL

(* An upload begins only in Recheck, when the file has been settled. *)
LEMMA UploadStep ==
  ASSUME Settling!SettleAssumption, ~SameStamp, SettleInv, Settling!Next, ~pending, pending'
  PROVE  written + MaxPass >= Settle + late
<1>1. ~remembered.pending
  BY DEF SettleInv, JournalOK
<1>2. Settling!Recheck /\ ~Settling!Discard
  BY <1>1 DEF Settling!Next, Settling!Poll, Settling!Tick, Settling!BeginSave, Settling!WriteChunk, Settling!RenameIn,
     Settling!StopSave, Settling!BeginPoll, Settling!CheckSettled, Settling!ReadChunk, Settling!HashChunk,
     Settling!Remember, Settling!Save, Settling!Crash, Settling!Accepted, Settling!Discard, Settling!stateVars,
     Settling!writerRest
<1>3. Settling!file_is_settled
  BY <1>2 DEF Settling!Recheck
<1>4. obs # None /\ obs.stamp = file.stamp /\ obs.first >= Settle + late
  BY <1>3 DEF Settling!file_is_settled, Settling!SameMetadata
<1>5. obs.first <= written + MaxPass /\ obs.first \in Nat
  BY <1>4 DEF SettleInv, JournalOK, ObservedOK, Settling!Observations
<1>6. written \in Nat /\ MaxPass \in Nat /\ Settle \in Nat /\ late \in Nat
  BY DEF SettleInv, FileOK, Settling!SettleAssumption
<1> QED
  BY <1>4, <1>5, <1>6

(* An upload begins only when the file has been left alone for Settle before
   the poll, less the length of the poll that first saw it, if no rename
   brings an mtime that was observed: without ~SameStamp a new file may be
   taken for the observed one (file_is_settled, upload_supernote_if_ready). *)
THEOREM UploadQuiet ==
  ASSUME Settling!SettleAssumption, ~SameStamp PROVE Settling!Spec => Settling!UploadIsQuiet
<1>1. SettleInv /\ [Settling!Next]_(Settling!vars) => [Settling!UploadIsQuietStep]_(Settling!vars)
  BY UploadStep DEF Settling!UploadIsQuietStep
<1> QED
  BY <1>1, SettleInvariance, PTL DEF Settling!Spec, Settling!UploadIsQuiet

-----------------------------------------------------------------------------
(***************************************************************************)
(* The accepted Supernote baselines.  The invariant follows, for every     *)
(* page, the head: the newest upload with the page the broker accepted.    *)
(* What is accepted up to a revision never changes again, so a recovery    *)
(* may read it over many steps; a listing whose newest upload of some      *)
(* pages is a rival competes with the accepted one and is refused, so the  *)
(* accepted snapshots hold all heads; selecting the newest pages of them   *)
(* yields the heads and nothing else.                                      *)
(***************************************************************************)
CONSTANTS Texts, MaxUploads, MaxRivals, MaxDamage, MaxFaults
VARIABLES uploads, frontier, cache, checkpoint, accepted, jobs, job, keep, built, sent, left

Baselines == INSTANCE AcceptedBaselines WITH journal <- checkpoint

Entries == [page : Nat, ink : Nat \X Nat]
Uploads == [rev : Nat, legacy : BOOLEAN, pages : SUBSET Nat, payload : Seq(Entries), won : BOOLEAN]

PageSet(i) == Baselines!PagesOf(uploads[i].payload)
Won(rev) == {i \in Baselines!Listed(rev) : uploads[i].won}

(* The newest upload of its pages up to rev. *)
IsNewest(i, rev) ==
    /\ i \in Baselines!Listed(rev)
    /\ \A k \in Baselines!Listed(rev) : PageSet(k) = PageSet(i) =>
          uploads[k].rev < uploads[i].rev \/ (uploads[k].rev = uploads[i].rev /\ k <= i)

(* No accepted upload up to rev has a newer version of the page. *)
Heads(i, page, rev) ==
    /\ i \in Won(rev) /\ page \in PageSet(i)
    /\ \A k \in Won(rev) : page \in PageSet(k) => uploads[k].rev <= uploads[i].rev

(* One upload of every revision is the broker's; a rival has the pages and the
   revision of one, and its own ink. *)
UploadsOK ==
    /\ uploads \in Seq(Uploads) /\ frontier \in Nat
    /\ \A i \in DOMAIN uploads :
          /\ uploads[i].rev \in 1 .. frontier + 1 /\ uploads[i].rev <= i
          /\ uploads[i].payload # <<>> /\ uploads[i].pages = PageSet(i)
          /\ \A m, n \in DOMAIN uploads[i].payload :
                uploads[i].payload[m].page = uploads[i].payload[n].page => m = n
          /\ \A n \in DOMAIN uploads[i].payload : uploads[i].payload[n].ink[1] = i
          /\ \E k \in DOMAIN uploads : uploads[k].won /\ uploads[k].rev = uploads[i].rev /\ PageSet(k) = PageSet(i)
    /\ \A i, k \in DOMAIN uploads : uploads[i].won /\ uploads[k].won /\ uploads[i].rev = uploads[k].rev => i = k
    /\ \A rev \in 1 .. frontier : \E i \in DOMAIN uploads : uploads[i].won /\ uploads[i].rev = rev

(* Every identity has a newest upload and every page a newest accepted one. *)
NewestOK ==
    /\ \A rev \in Nat : \A i \in Baselines!Listed(rev) :
          \E k \in DOMAIN uploads : IsNewest(k, rev) /\ PageSet(k) = PageSet(i)
    /\ \A rev \in Nat : \A i \in Won(rev) : \A page \in PageSet(i) : \E k \in DOMAIN uploads : Heads(k, page, rev)

(* The identity of an upload is its set of pages, stated or parsed. *)
LEMMA Identity ==
  ASSUME UploadsOK, NEW i \in DOMAIN uploads PROVE Baselines!SourceIdentity(uploads[i]) = PageSet(i)
  BY DEF UploadsOK, Baselines!SourceIdentity, Baselines!object_page_indices, PageSet

(* A payload is a sequence of at least one entry. *)
LEMMA Payloads ==
  ASSUME UploadsOK, NEW i \in DOMAIN uploads
  PROVE  uploads[i] \in Uploads /\ uploads[i].payload \in Seq(Entries) /\ 1 \in DOMAIN uploads[i].payload
<1>1. uploads[i] \in Uploads /\ uploads[i].payload # <<>>
  BY DEF UploadsOK
<1>2. uploads[i].payload \in Seq(Entries)
  BY <1>1 DEF Uploads
<1> QED
  BY <1>1, <1>2

(* Nothing is uploaded yet. *)
LEMMA BeginUploads ==
  ASSUME Baselines!Init PROVE UploadsOK /\ NewestOK
  BY DEF Baselines!Init, UploadsOK, NewestOK, Baselines!Listed, Won

(* What an upload adds: for earlier ones, nothing changes. *)
LEMMA Appended ==
  ASSUME UploadsOK, NEW u \in Uploads, uploads' = Append(uploads, u)
  PROVE  /\ uploads' \in Seq(Uploads) /\ DOMAIN uploads' = DOMAIN uploads \cup {Len(uploads) + 1}
         /\ Len(uploads) + 1 \notin DOMAIN uploads /\ uploads'[Len(uploads) + 1] = u
         /\ Len(uploads) \in Nat /\ DOMAIN uploads = 1 .. Len(uploads)
         /\ \A i \in DOMAIN uploads : uploads'[i] = uploads[i] /\ PageSet(i)' = PageSet(i)
         /\ \A n : n = Len(uploads) + 1 => PageSet(n)' = Baselines!PagesOf(u.payload)
<1>1. uploads \in Seq(Uploads)
  BY DEF UploadsOK
<1>2. /\ uploads' \in Seq(Uploads) /\ DOMAIN uploads' = DOMAIN uploads \cup {Len(uploads) + 1}
      /\ Len(uploads) + 1 \notin DOMAIN uploads /\ uploads'[Len(uploads) + 1] = u
      /\ Len(uploads) \in Nat /\ DOMAIN uploads = 1 .. Len(uploads)
      /\ \A i \in DOMAIN uploads : uploads'[i] = uploads[i]
  BY <1>1
<1>3. ASSUME NEW i \in DOMAIN uploads PROVE PageSet(i)' = PageSet(i)
  BY <1>2 DEF PageSet, Baselines!PagesOf
<1>4. ASSUME NEW n, n = Len(uploads) + 1 PROVE PageSet(n)' = Baselines!PagesOf(u.payload)
  BY <1>2, <1>4 DEF PageSet, Baselines!PagesOf
<1> QED
  BY <1>2, <1>3, <1>4

(* The identity of an upload is its pages, with or without metadata. *)
LEMMA NewestAre == ASSUME UploadsOK, NEW rev PROVE Baselines!Newest(rev) = {i \in Baselines!Listed(rev) : IsNewest(i, rev)}
<1>1. \A i, k \in Baselines!Listed(rev) : Baselines!SameIdentity(i, k) <=> PageSet(k) = PageSet(i)
  BY Identity DEF Baselines!Listed, Baselines!SameIdentity
<1> QED
  BY <1>1 DEF Baselines!Newest, IsNewest

(* One more upload, the broker's next or a rival of one. *)
LEMMA OneMore ==
  ASSUME UploadsOK, NewestOK, NEW u \in Uploads, NEW n, n = Len(uploads) + 1,
         uploads' = Append(uploads, u), frontier' = frontier,
         u.payload # <<>>, u.pages = Baselines!PagesOf(u.payload), u.rev \in 1 .. frontier + 1,
         \A i, k \in DOMAIN u.payload : u.payload[i].page = u.payload[k].page => i = k,
         \A i \in DOMAIN u.payload : u.payload[i].ink[1] = n,
         \/ u.won /\ u.rev = frontier + 1 /\ \A i \in DOMAIN uploads : uploads[i].rev # u.rev
         \/ ~u.won /\ \E k \in DOMAIN uploads : uploads[k].won /\ uploads[k].rev = u.rev /\ PageSet(k) = u.pages
  PROVE  /\ UploadsOK' /\ NewestOK'
         /\ \A rev \in Nat : rev <= frontier => Won(rev)' = Won(rev)
<1>1. /\ uploads' \in Seq(Uploads) /\ DOMAIN uploads' = DOMAIN uploads \cup {n} /\ n \notin DOMAIN uploads
      /\ uploads'[n] = u /\ \A i \in DOMAIN uploads : uploads'[i] = uploads[i] /\ PageSet(i)' = PageSet(i)
      /\ PageSet(n)' = u.pages /\ n \in Nat /\ \A i \in DOMAIN uploads : i \in Nat /\ i < n
  <2>1. Len(uploads) \in Nat /\ DOMAIN uploads = 1 .. Len(uploads)
    BY DEF UploadsOK
  <2> QED
    BY <2>1, Appended
<1>2. \A i \in DOMAIN uploads' : PageSet(i)' = IF i = n THEN u.pages ELSE PageSet(i)
  BY <1>1
<1>3. frontier \in Nat /\ \A i \in DOMAIN uploads : uploads[i].rev \in Nat
  BY DEF UploadsOK
<1>10. u.rev <= n
  <2>1. CASE u.rev = frontier + 1
    <3>1. frontier > 0 => \E i \in DOMAIN uploads : uploads[i].rev = frontier /\ uploads[i].rev <= i
      <4>1. /\ \A rev \in 1 .. frontier : \E i \in DOMAIN uploads : uploads[i].won /\ uploads[i].rev = rev
            /\ \A i \in DOMAIN uploads : uploads[i].rev <= i
        BY DEF UploadsOK
      <4>2. frontier > 0 => frontier \in 1 .. frontier
        BY <1>3
      <4> QED
        BY <4>1, <4>2
    <3> QED
      BY <1>1, <1>3, <2>1, <3>1
  <2>2. CASE \E k \in DOMAIN uploads : uploads[k].rev = u.rev
    <3>1. PICK k \in DOMAIN uploads : uploads[k].rev = u.rev
      BY <2>2
    <3>2. uploads[k].rev <= k
      BY DEF UploadsOK
    <3> QED
      BY <1>1, <1>3, <3>1, <3>2
  <2> QED
    BY <2>1, <2>2
<1>4. UploadsOK'
  <2>1. ASSUME NEW i \in DOMAIN uploads'
        PROVE  /\ uploads'[i].rev \in 1 .. frontier + 1 /\ uploads'[i].rev <= i
               /\ uploads'[i].payload # <<>> /\ uploads'[i].pages = PageSet(i)'
               /\ \A l, m \in DOMAIN uploads'[i].payload :
                     uploads'[i].payload[l].page = uploads'[i].payload[m].page => l = m
               /\ \A m \in DOMAIN uploads'[i].payload : uploads'[i].payload[m].ink[1] = i
    BY <1>1, <1>10, <2>1 DEF UploadsOK
  <2>2. ASSUME NEW i \in DOMAIN uploads'
        PROVE  \E k \in DOMAIN uploads' :
                  uploads'[k].won /\ uploads'[k].rev = uploads'[i].rev /\ PageSet(k)' = PageSet(i)'
    <3>1. CASE i = n
      BY <1>1, <3>1
    <3>2. CASE i # n
      <4>1. PICK k \in DOMAIN uploads :
                uploads[k].won /\ uploads[k].rev = uploads[i].rev /\ PageSet(k) = PageSet(i)
        BY <1>1, <2>2, <3>2 DEF UploadsOK
      <4> QED
        BY <1>1, <2>2, <3>2, <4>1
    <3> QED
      BY <3>1, <3>2
  <2>3. \A i, k \in DOMAIN uploads' : uploads'[i].won /\ uploads'[k].won /\ uploads'[i].rev = uploads'[k].rev => i = k
    BY <1>1 DEF UploadsOK
  <2>4. \A rev \in 1 .. frontier : \E i \in DOMAIN uploads' : uploads'[i].won /\ uploads'[i].rev = rev
    BY <1>1 DEF UploadsOK
  <2> QED
    BY <1>1, <1>3, <2>1, <2>2, <2>3, <2>4 DEF UploadsOK
<1>5. ASSUME NEW rev \in Nat
      PROVE  /\ Baselines!Listed(rev)' = Baselines!Listed(rev) \cup (IF u.rev <= rev THEN {n} ELSE {})
             /\ Won(rev)' = Won(rev) \cup (IF u.won /\ u.rev <= rev THEN {n} ELSE {})
             /\ Baselines!Listed(rev) \subseteq DOMAIN uploads /\ Won(rev) \subseteq DOMAIN uploads
  BY <1>1 DEF Baselines!Listed, Won
<1>6. ASSUME NEW rev \in Nat, rev <= frontier PROVE Won(rev)' = Won(rev)
  <2>1. ~(u.won /\ u.rev <= rev)
    BY <1>3, <1>6
  <2> QED
    BY <1>5, <2>1
<1>7. ASSUME NEW rev \in Nat, NEW i \in Baselines!Listed(rev)'
      PROVE  \E k \in DOMAIN uploads' : IsNewest(k, rev)' /\ PageSet(k)' = PageSet(i)'
  <2>1. CASE \E j \in Baselines!Listed(rev) : PageSet(j) = PageSet(i)'
    <3>1. PICK k \in DOMAIN uploads : IsNewest(k, rev) /\ PageSet(k) = PageSet(i)'
      BY <2>1 DEF NewestOK
    <3>2. CASE u.rev <= rev /\ u.pages = PageSet(i)' /\ uploads[k].rev <= u.rev
      <4>1. IsNewest(n, rev)'
        <5>1. n \in Baselines!Listed(rev)' /\ PageSet(n)' = PageSet(k)
          BY <1>1, <1>5, <3>1, <3>2
        <5>2. ASSUME NEW j \in Baselines!Listed(rev)', PageSet(j)' = PageSet(n)'
              PROVE  uploads'[j].rev < uploads'[n].rev \/ (uploads'[j].rev = uploads'[n].rev /\ j <= n)
          <6>1. CASE j = n
            BY <1>1, <6>1
          <6>2. CASE j # n
            <7>1. j \in Baselines!Listed(rev) /\ j \in DOMAIN uploads /\ PageSet(j) = PageSet(k)
              BY <1>1, <1>5, <5>1, <5>2, <6>2
            <7>2. uploads[j].rev <= uploads[k].rev
              BY <1>3, <3>1, <7>1 DEF IsNewest
            <7> QED
              BY <1>1, <1>3, <3>2, <7>1, <7>2
          <6> QED
            BY <6>1, <6>2
        <5> QED
          BY <5>1, <5>2 DEF IsNewest
      <4> QED
        BY <1>1, <3>2, <4>1
    <3>3. CASE ~(u.rev <= rev /\ u.pages = PageSet(i)' /\ uploads[k].rev <= u.rev)
      <4>1. IsNewest(k, rev)'
        BY <1>1, <1>3, <1>5, <3>1, <3>3 DEF IsNewest
      <4> QED
        BY <1>1, <3>1, <4>1
    <3> QED
      BY <3>2, <3>3
  <2>2. CASE ~\E j \in Baselines!Listed(rev) : PageSet(j) = PageSet(i)'
    <3>1. i = n /\ u.rev <= rev
      BY <1>1, <1>5, <1>7, <2>2
    <3>2. IsNewest(n, rev)'
      BY <1>1, <1>3, <1>5, <2>2, <3>1 DEF IsNewest
    <3> QED
      BY <1>1, <3>1, <3>2
  <2> QED
    BY <2>1, <2>2
<1>8. ASSUME NEW rev \in Nat, NEW i \in Won(rev)', NEW page \in PageSet(i)'
      PROVE  \E k \in DOMAIN uploads' : Heads(k, page, rev)'
  <2>1. CASE u.won /\ u.rev <= rev /\ page \in u.pages
    <3>1. Heads(n, page, rev)'
      <4>1. \A k \in Won(rev) : uploads[k].rev <= u.rev
        BY <1>5, <2>1 DEF UploadsOK
      <4> QED
        BY <1>1, <1>3, <1>5, <2>1, <4>1 DEF Heads
    <3> QED
      BY <1>1, <3>1
  <2>2. CASE ~(u.won /\ u.rev <= rev /\ page \in u.pages)
    <3>1. i \in Won(rev) /\ page \in PageSet(i)
      BY <1>1, <1>5, <1>8, <2>2
    <3>2. PICK k \in DOMAIN uploads : Heads(k, page, rev)
      BY <3>1 DEF NewestOK
    <3>3. Heads(k, page, rev)'
      BY <1>1, <1>3, <1>5, <2>2, <3>2 DEF Heads
    <3> QED
      BY <1>1, <3>3
  <2> QED
    BY <2>1, <2>2
<1>9. NewestOK'
  BY <1>7, <1>8 DEF NewestOK
<1> QED
  BY <1>4, <1>6, <1>9


(* An upload of the device is the only one of its revision. *)
LEMMA UploadKeeps ==
  ASSUME Baselines!BaselineAssumption, UploadsOK, NewestOK, NEW t \in Texts, NEW legacy \in BOOLEAN,
         Baselines!Upload(t, legacy)
  PROVE  /\ UploadsOK' /\ NewestOK'
         /\ \A rev \in Nat : rev <= frontier => Won(rev)' = Won(rev)
<1>1. PICK n \in Nat : n = Len(uploads) + 1
  BY DEF UploadsOK
<1> DEFINE payload == Baselines!Payload(t, n)
           u == [rev |-> frontier + 1, legacy |-> legacy, pages |-> Baselines!PagesOf(payload), payload |-> payload,
                 won |-> TRUE]
           order == Baselines!Ordered(t.pages)
<1>2. uploads' = Append(uploads, u) /\ frontier' = frontier /\ ~Baselines!Pending /\ frontier \in Nat
  BY <1>1 DEF Baselines!Upload, UploadsOK
<1>3. order \in Seq(Nat) /\ order # <<>> /\ \A l, m \in DOMAIN order : order[l] = order[m] => l = m
  BY DEF Baselines!BaselineAssumption, Baselines!Upload, Baselines!IsInjective
<1>4. payload = [i \in DOMAIN order |-> [page |-> order[i], ink |-> <<n, i>>]]
  BY DEF Baselines!Payload
<1> HIDE DEF order, payload
<1>5. payload \in Seq(Entries) /\ payload # <<>>
  <2>1. /\ order \in [1 .. Len(order) -> Nat] /\ Len(order) \in Nat /\ DOMAIN order = 1 .. Len(order)
        /\ Len(order) # 0
    BY <1>3
  <2>2. \A i \in 1 .. Len(order) : [page |-> order[i], ink |-> <<n, i>>] \in Entries
    BY <2>1 DEF Entries
  <2>3. payload \in [1 .. Len(order) -> Entries]
    BY <1>4, <2>1, <2>2
  <2>4. DOMAIN payload = 1 .. Len(order)
    BY <1>4, <2>1
  <2> QED
    BY <2>1, <2>3, <2>4
<1>6. DOMAIN payload = DOMAIN order /\ \A i \in DOMAIN payload : payload[i].ink[1] = n /\ payload[i].page = order[i]
  BY <1>4
<1>7. Baselines!PagesOf(payload) \subseteq Nat
  BY <1>3, <1>6 DEF Baselines!PagesOf
<1>8. u \in Uploads
  BY <1>2, <1>5, <1>7 DEF Uploads
<1>9. \A i \in DOMAIN uploads : uploads[i].rev # frontier + 1
  BY <1>2 DEF Baselines!Pending
<1>10. /\ u.rev = frontier + 1 /\ u.won /\ u.payload = payload /\ u.pages = Baselines!PagesOf(payload)
       /\ frontier + 1 \in 1 .. frontier + 1
  BY <1>2
<1> HIDE DEF u
<1> QED
  BY <1>1, <1>2, <1>3, <1>5, <1>6, <1>8, <1>9, <1>10, OneMore

(* A rival shares pages and revision with an upload of the broker's. *)
LEMMA RivalKeeps ==
  ASSUME UploadsOK, NewestOK, NEW i \in DOMAIN uploads, Baselines!Rival(i)
  PROVE  /\ UploadsOK' /\ NewestOK'
         /\ \A rev \in Nat : rev <= frontier => Won(rev)' = Won(rev)
<1>1. PICK n \in Nat : n = Len(uploads) + 1
  BY DEF UploadsOK
<1> DEFINE old == uploads[i].payload
           payload == [k \in DOMAIN old |-> [old[k] EXCEPT !.ink[1] = n]]
           u == [uploads[i] EXCEPT !.won = FALSE, !.payload = payload]
<1>2. uploads' = Append(uploads, u) /\ frontier' = frontier /\ frontier \in Nat
  BY <1>1 DEF Baselines!Rival, UploadsOK
<1>3. uploads[i] \in Uploads
  BY DEF UploadsOK
<1>4. old \in Seq(Entries) /\ old # <<>> /\ \A l, m \in DOMAIN old : old[l].page = old[m].page => l = m
  BY <1>3 DEF UploadsOK, Uploads
<1>5. ASSUME NEW k \in DOMAIN old
      PROVE  payload[k] \in Entries /\ payload[k].page = old[k].page /\ payload[k].ink[1] = n
  <2>1. old[k] \in Entries
    BY <1>4
  <2>2. payload[k] = [old[k] EXCEPT !.ink = [old[k].ink EXCEPT ![1] = n]]
    OBVIOUS
  <2>3. PICK a \in Nat, b \in Nat : old[k].ink = <<a, b>>
    BY <2>1 DEF Entries
  <2>4. [old[k].ink EXCEPT ![1] = n] = <<n, b>>
    BY <2>3
  <2> QED
    BY <2>1, <2>2, <2>4 DEF Entries
<1>6. DOMAIN payload = DOMAIN old
  OBVIOUS
<1>7. u.won = FALSE /\ u.payload = payload /\ u.rev = uploads[i].rev /\ u.pages = uploads[i].pages /\ u.legacy = uploads[i].legacy
  BY <1>3 DEF Uploads
<1> HIDE DEF payload, u, old
<1>9. payload \in Seq(Entries) /\ payload # <<>>
  <2>1. Len(old) \in Nat /\ DOMAIN old = 1 .. Len(old) /\ Len(old) # 0
    BY <1>4
  <2>2. payload \in [1 .. Len(old) -> Entries]
    BY <1>5, <1>6, <2>1 DEF payload
  <2> QED
    BY <1>6, <2>1, <2>2
<1>10. u \in Uploads
  <2>1. u = [uploads[i] EXCEPT !.won = FALSE, !.payload = payload]
    BY DEF u
  <2> QED
    BY <1>3, <1>9, <2>1 DEF Uploads
<1>11. Baselines!PagesOf(payload) = PageSet(i)
  BY <1>5, <1>6 DEF Baselines!PagesOf, PageSet, old
<1>12. /\ uploads[i].rev \in 1 .. frontier + 1 /\ uploads[i].pages = PageSet(i)
       /\ \E k \in DOMAIN uploads : uploads[k].won /\ uploads[k].rev = uploads[i].rev /\ PageSet(k) = PageSet(i)
  BY DEF UploadsOK
<1> QED
  BY <1>1, <1>2, <1>4, <1>5, <1>6, <1>7, <1>9, <1>10, <1>11, <1>12, OneMore

(* Accepting needs an upload of the next revision. *)
LEMMA BrokerKeeps ==
  ASSUME UploadsOK, NewestOK, Baselines!BrokerAccepts
  PROVE  /\ UploadsOK' /\ NewestOK'
         /\ \A rev \in Nat : rev <= frontier => Won(rev)' = Won(rev)
<1>1. /\ uploads' = uploads /\ frontier' = frontier + 1 /\ frontier \in Nat
      /\ \E i \in DOMAIN uploads : uploads[i].rev = frontier + 1
  BY DEF Baselines!BrokerAccepts, Baselines!Pending, UploadsOK
<1>2. \A i \in DOMAIN uploads : uploads[i].rev \in 1 .. frontier' + 1 /\ uploads[i].rev <= i
  BY <1>1 DEF UploadsOK
<1>3. \E i \in DOMAIN uploads : uploads[i].won /\ uploads[i].rev = frontier + 1
  BY <1>1 DEF UploadsOK
<1>4. \A rev \in 1 .. frontier' : \E i \in DOMAIN uploads : uploads[i].won /\ uploads[i].rev = rev
  <2> SUFFICES ASSUME NEW rev \in 1 .. frontier' PROVE \E i \in DOMAIN uploads : uploads[i].won /\ uploads[i].rev = rev
    OBVIOUS
  <2>1. rev \in 1 .. frontier \/ rev = frontier + 1
    BY <1>1
  <2> QED
    BY <1>3, <2>1 DEF UploadsOK
<1>5. UploadsOK'
  BY <1>1, <1>2, <1>4 DEF UploadsOK, PageSet
<1>6. NewestOK'
  BY <1>1 DEF NewestOK, IsNewest, Heads, Won, Baselines!Listed, PageSet
<1> QED
  BY <1>1, <1>5, <1>6 DEF Won, Baselines!Listed

(* The broker's ink of a page is that of the head of the page. *)
CanonicalIsHead ==
    UploadsOK => \A rev, page, k : Heads(k, page, rev) => \A n \in DOMAIN uploads[k].payload :
        uploads[k].payload[n].page = page => Baselines!CanonicalEntry(page, rev) = uploads[k].payload[n]

(* There is one head, and one entry of the page in it. *)
LEMMA CanonicalHead == CanonicalIsHead
<1> SUFFICES ASSUME UploadsOK, NEW rev, NEW page, NEW k, Heads(k, page, rev), NEW n \in DOMAIN uploads[k].payload,
                    uploads[k].payload[n].page = page
             PROVE  Baselines!CanonicalEntry(page, rev) = uploads[k].payload[n]
  BY DEF CanonicalIsHead
<1> DEFINE of == {i \in Baselines!Listed(rev) : uploads[i].won /\ page \in Baselines!PagesOf(uploads[i].payload)}
           newest == CHOOSE i \in of : \A j \in of : uploads[j].rev <= uploads[i].rev
<1>1. of = {i \in Won(rev) : page \in PageSet(i)} /\ of \subseteq DOMAIN uploads
  BY DEF Won, PageSet, Baselines!Listed
<1>2. k \in of /\ \A j \in of : uploads[j].rev <= uploads[k].rev
  BY <1>1 DEF Heads
<1>3. newest \in of /\ \A j \in of : uploads[j].rev <= uploads[newest].rev
  BY <1>2
<1> HIDE DEF newest, of
<1>4. \A i \in of : uploads[i].won /\ uploads[i].rev \in Nat
  BY <1>1 DEF UploadsOK, Won
<1>5. uploads[newest].rev = uploads[k].rev
  BY <1>2, <1>3, <1>4
<1>6. newest = k
  BY <1>1, <1>2, <1>3, <1>4, <1>5 DEF UploadsOK
<1>7. Baselines!CanonicalEntry(page, rev) = CHOOSE e \in Baselines!Range(uploads[newest].payload) : e.page = page
  BY DEF Baselines!CanonicalEntry, newest, of
<1>8. uploads[k].payload[n] \in Baselines!Range(uploads[k].payload)
  BY DEF Baselines!Range
<1>9. ASSUME NEW e \in Baselines!Range(uploads[k].payload), e.page = page PROVE e = uploads[k].payload[n]
  <2>1. PICK m \in DOMAIN uploads[k].payload : e = uploads[k].payload[m]
    BY <1>9 DEF Baselines!Range
  <2>2. k \in DOMAIN uploads
    BY <1>1, <1>2
  <2>3. m = n
    BY <1>9, <2>1, <2>2 DEF UploadsOK
  <2> QED
    BY <2>1, <2>3
<1> QED
  BY <1>6, <1>7, <1>8, <1>9

(* What the broker has accepted up to a revision stays. *)
LEMMA RepresentsStays ==
  ASSUME UploadsOK, NewestOK, UploadsOK', NEW rev \in Nat, Won(rev)' = Won(rev),
         \A i \in DOMAIN uploads : uploads'[i] = uploads[i], NEW S, Baselines!Represents(S, rev)
  PROVE  Baselines!Represents(S, rev)'
<1>1. CanonicalIsHead'
  BY CanonicalHead, PTL
<1>2. \A i \in Won(rev) : i \in DOMAIN uploads /\ uploads'[i] = uploads[i]
  BY DEF Won, Baselines!Listed
<1>3. /\ Baselines!CanonicalPages(rev) = UNION {PageSet(i) : i \in Won(rev)}
      /\ Baselines!CanonicalPages(rev)' = UNION {PageSet(i)' : i \in Won(rev)'}
  BY DEF Baselines!CanonicalPages, Won, PageSet
<1>4. \A i \in Won(rev) : PageSet(i)' = PageSet(i)
  BY <1>2 DEF PageSet, Baselines!PagesOf
<1>5. Baselines!CanonicalPages(rev)' = Baselines!CanonicalPages(rev)
  BY <1>3, <1>4
<1>6. ASSUME NEW page \in Baselines!CanonicalPages(rev)
      PROVE  Baselines!CanonicalEntry(page, rev)' = Baselines!CanonicalEntry(page, rev)
  <2>1. PICK i \in Won(rev) : page \in PageSet(i)
    BY <1>3, <1>6
  <2>2. PICK k \in DOMAIN uploads : Heads(k, page, rev)
    BY <2>1 DEF NewestOK
  <2>3. Heads(k, page, rev)'
    BY <1>2, <1>4, <2>2 DEF Heads
  <2>4. PICK n \in DOMAIN uploads[k].payload : uploads[k].payload[n].page = page
    BY <2>2 DEF Heads, PageSet, Baselines!PagesOf
  <2>5. Baselines!CanonicalEntry(page, rev) = uploads[k].payload[n]
    BY <2>2, <2>4, CanonicalHead DEF CanonicalIsHead
  <2>6. Baselines!CanonicalEntry(page, rev)' = uploads[k].payload[n]
    BY <1>1, <2>3, <2>4 DEF CanonicalIsHead
  <2> QED
    BY <2>5, <2>6
<1>7. {Baselines!CanonicalEntry(page, rev) : page \in Baselines!CanonicalPages(rev)}'
      = {Baselines!CanonicalEntry(page, rev) : page \in Baselines!CanonicalPages(rev)}
  BY <1>5, <1>6
<1> QED
  BY <1>7 DEF Baselines!Represents

(* What a recovery works with: the heads of all pages, accepted, up to rev;
   once split, its files and those to come are the canonical ink. *)
Recovered(rev) ==
    /\ rev \in 1 .. frontier /\ accepted \subseteq Won(rev)
    /\ \E i \in accepted : uploads[i].rev = rev
    /\ \A i \in Won(rev) : (\E page : Heads(i, page, rev)) => i \in accepted
    /\ pc = "split" => Baselines!Represents({p.hash : p \in keep} \cup {j.bytes : j \in jobs}, rev)

RecoveryOK ==
    /\ pc \in {"idle", "ensure", "split", "build", "built"}
    /\ pc \in {"ensure", "split"} => \E rev \in Nat : Recovered(rev)
    /\ pc \notin {"ensure", "split"} => jobs = {} /\ job = None /\ accepted = {}
    /\ job # None => job.of \in jobs /\ job = [of |-> job.of, published |-> job.published]

CacheOK == /\ cache = [p \in DOMAIN cache |-> cache[p]]
           /\ \A p \in DOMAIN cache : cache[p] \in {p.hash, Baselines!Garbage}

(* What is journalled, was sent, and is about to be sent. *)
SavedOK ==
    /\ checkpoint.rev \in 0 .. frontier
    /\ Baselines!Represents({p.hash : p \in checkpoint.files}, checkpoint.rev)
    /\ sent.rev \in 0 .. frontier /\ Baselines!Represents(sent.contents, sent.rev)
    /\ pc = "built" /\ (\A p \in checkpoint.files : Baselines!Intact(p)) => built = {p.hash : p \in checkpoint.files}

BaselineInv == UploadsOK /\ NewestOK /\ RecoveryOK /\ CacheOK /\ SavedOK

(* Nothing is uploaded, recovered, journalled or sent yet. *)
LEMMA InitBaseline == ASSUME Baselines!Init PROVE BaselineInv
<1>1. UploadsOK /\ NewestOK
  BY BeginUploads
<1>2. Baselines!Represents({}, 0)
  BY DEF Baselines!Represents, Baselines!CanonicalPages, Baselines!Listed, Baselines!Init
<1>3. checkpoint.rev = 0 /\ {p.hash : p \in checkpoint.files} = {} /\ sent.rev = 0 /\ sent.contents = {} /\ frontier = 0
  BY DEF Baselines!Init
<1>4. pc = "idle" /\ jobs = {} /\ job = None /\ accepted = {} /\ DOMAIN cache = {} /\ cache = [p \in {} |-> Baselines!Garbage]
  BY DEF Baselines!Init
<1>5. SavedOK
  <2>1. /\ Baselines!Represents({p.hash : p \in checkpoint.files}, checkpoint.rev)
        /\ Baselines!Represents(sent.contents, sent.rev)
    BY <1>2, <1>3
  <2>2. checkpoint.rev \in 0 .. frontier /\ sent.rev \in 0 .. frontier /\ pc # "built"
    BY <1>3, <1>4
  <2> QED
    BY <2>1, <2>2 DEF SavedOK
<1>6. CacheOK
  BY <1>4 DEF CacheOK
<1> QED
  BY <1>1, <1>4, <1>5, <1>6 DEF BaselineInv, RecoveryOK

(* New uploads and a moved frontier leave what is known up to a revision. *)
LEMMA CloudMoves ==
  ASSUME BaselineInv, UploadsOK', NewestOK', \A rev \in Nat : rev <= frontier => Won(rev)' = Won(rev),
         \A i \in DOMAIN uploads : uploads'[i] = uploads[i], frontier' \in Nat, frontier' >= frontier,
         UNCHANGED <<cache, checkpoint, pc, accepted, jobs, job, keep, built, sent>>
  PROVE  BaselineInv'
<1> USE DEF BaselineInv
<1>1. frontier \in Nat
  BY DEF UploadsOK
<1>2. ASSUME NEW rev \in Nat, rev <= frontier, NEW S, Baselines!Represents(S, rev)
      PROVE  Baselines!Represents(S, rev)'
  <2>1. Won(rev)' = Won(rev)
    BY <1>2
  <2> QED
    BY <1>2, <2>1, RepresentsStays
<1>3. SavedOK'
  <2>1. checkpoint.rev \in Nat /\ checkpoint.rev <= frontier /\ sent.rev \in Nat /\ sent.rev <= frontier
    BY <1>1 DEF SavedOK
  <2>2. /\ Baselines!Represents({p.hash : p \in checkpoint.files}, checkpoint.rev)'
        /\ Baselines!Represents(sent.contents, sent.rev)'
    <3>1. PICK r \in Nat : r = checkpoint.rev
      BY <2>1
    <3>2. PICK S : S = {p.hash : p \in checkpoint.files}
      OBVIOUS
    <3>3. PICK q \in Nat : q = sent.rev
      BY <2>1
    <3>4. PICK T : T = sent.contents
      OBVIOUS
    <3>5. Baselines!Represents(S, r)' /\ Baselines!Represents(T, q)'
      BY <1>2, <2>1, <3>1, <3>2, <3>3, <3>4 DEF SavedOK
    <3> QED
      BY <3>1, <3>2, <3>3, <3>4, <3>5 DEF Baselines!Represents
  <2> QED
    BY <1>1, <2>1, <2>2 DEF SavedOK, Baselines!Intact
<1>4. RecoveryOK'
  <2>1. CASE pc \notin {"ensure", "split"}
    BY <2>1 DEF RecoveryOK
  <2>2. CASE pc \in {"ensure", "split"}
    <3>1. PICK rev \in Nat : Recovered(rev)
      BY <2>2 DEF RecoveryOK
    <3>2. rev <= frontier /\ Won(rev)' = Won(rev)
      BY <1>1, <3>1 DEF Recovered
    <3>3. \A i \in Won(rev) : uploads'[i] = uploads[i] /\ PageSet(i)' = PageSet(i)
      BY DEF Won, Baselines!Listed, PageSet, Baselines!PagesOf
    <3>4. \A i \in Won(rev) : \A page : Heads(i, page, rev)' <=> Heads(i, page, rev)
      BY <3>2, <3>3 DEF Heads
    <3>5. pc = "split" => Baselines!Represents({p.hash : p \in keep} \cup {j.bytes : j \in jobs}, rev)'
      <4>1. PICK S : S = {p.hash : p \in keep} \cup {j.bytes : j \in jobs}
        OBVIOUS
      <4>2. pc = "split" => Baselines!Represents(S, rev)'
        BY <1>2, <3>1, <3>2, <4>1 DEF Recovered
      <4> QED
        BY <4>1, <4>2 DEF Baselines!Represents
    <3>6. Recovered(rev)'
      BY <1>1, <3>1, <3>2, <3>3, <3>4, <3>5 DEF Recovered
    <3> QED
      BY <2>2, <3>6 DEF RecoveryOK
  <2> QED
    BY <2>1, <2>2
<1> QED
  BY <1>3, <1>4 DEF CacheOK

(* Damage makes no file right. *)
LEMMA DamageKeeps ==
  ASSUME BaselineInv, NEW place \in DOMAIN cache, Baselines!Damage(place) PROVE BaselineInv'
<1>1. /\ cache' = [cache EXCEPT ![place] = Baselines!Garbage]
         \/ cache' = [p \in DOMAIN cache \ {place} |-> cache[p]]
      /\ UNCHANGED <<uploads, frontier, checkpoint, pc, accepted, jobs, job, keep, built, sent>>
  BY DEF Baselines!Damage
<1>2. CacheOK'
  BY <1>1 DEF BaselineInv, CacheOK
<1>3. ASSUME NEW p, Baselines!Intact(p)' PROVE Baselines!Intact(p)
  BY <1>1, <1>3 DEF BaselineInv, CacheOK, Baselines!Intact
<1>4. UploadsOK' /\ NewestOK' /\ \A S, rev : Baselines!Represents(S, rev)' <=> Baselines!Represents(S, rev)
  BY <1>1 DEF BaselineInv, UploadsOK, NewestOK, PageSet, IsNewest, Heads, Won, Baselines!Listed, Baselines!Represents,
              Baselines!CanonicalEntry, Baselines!CanonicalPages
<1>5. SavedOK'
  BY <1>1, <1>3, <1>4 DEF BaselineInv, SavedOK
<1>6. RecoveryOK'
  BY <1>1, <1>4 DEF BaselineInv, RecoveryOK, Recovered, Won, Heads, PageSet, Baselines!Listed
<1> QED
  BY <1>2, <1>4, <1>5, <1>6 DEF BaselineInv

(* The transport's steps leave the cloud alone. *)
LEMMA CloudStays ==
  ASSUME UploadsOK, NewestOK, UNCHANGED <<uploads, frontier>>
  PROVE  /\ UploadsOK' /\ NewestOK'
         /\ \A S, rev : Baselines!Represents(S, rev)' <=> Baselines!Represents(S, rev)
         /\ \A rev : Won(rev)' = Won(rev)
         /\ \A i, page, rev : Heads(i, page, rev)' <=> Heads(i, page, rev)
  BY DEF UploadsOK, NewestOK, PageSet, IsNewest, Heads, Won, Baselines!Listed, Baselines!Represents,
         Baselines!CanonicalEntry, Baselines!CanonicalPages

(* Whatever a poll gives up, the journal and the last manifest stay. *)
LEMMA ResetKeeps ==
  ASSUME BaselineInv, Baselines!Reset, UNCHANGED <<uploads, frontier, cache, checkpoint, sent>> PROVE BaselineInv'
<1>1. pc' = "idle" /\ accepted' = {} /\ jobs' = {} /\ job' = None
  BY DEF Baselines!Reset
<1>2. /\ UploadsOK' /\ NewestOK' /\ \A S, rev : Baselines!Represents(S, rev)' <=> Baselines!Represents(S, rev)
  BY CloudStays DEF BaselineInv
<1>3. SavedOK'
  BY <1>1, <1>2 DEF BaselineInv, SavedOK
<1>4. RecoveryOK'
  BY <1>1 DEF RecoveryOK
<1> QED
  BY <1>2, <1>3, <1>4 DEF BaselineInv, CacheOK

(* Every head is accepted: a rival of it, which would be newer, competes with
   it. *)
LEMMA BeginRecoveryKeeps == ASSUME BaselineInv, Baselines!BeginRecovery PROVE BaselineInv'
<1>1. /\ pc = "idle" /\ frontier > 0 /\ accepted' = Baselines!Newest(frontier) /\ pc' = "ensure"
      /\ \A i \in Baselines!Newest(frontier), j \in Baselines!Listed(frontier) : ~Baselines!Competes(i, j)
      /\ UNCHANGED <<uploads, frontier, cache, checkpoint, job, keep, built, sent>>
  BY DEF Baselines!BeginRecovery
<1>2. UploadsOK /\ NewestOK /\ frontier \in Nat
  BY DEF BaselineInv, UploadsOK
<1>3. /\ UploadsOK' /\ NewestOK' /\ \A S, rev : Baselines!Represents(S, rev)' <=> Baselines!Represents(S, rev)
      /\ \A rev : Won(rev)' = Won(rev)
      /\ \A i, page, rev : Heads(i, page, rev)' <=> Heads(i, page, rev)
  BY <1>1, <1>2, CloudStays
<1>4. Baselines!Newest(frontier) = {i \in Baselines!Listed(frontier) : IsNewest(i, frontier)}
  BY <1>2, NewestAre
<1>5. ASSUME NEW i \in Baselines!Newest(frontier) PROVE i \in Won(frontier)
  <2>1. i \in Baselines!Listed(frontier) /\ i \in DOMAIN uploads
    BY <1>4 DEF Baselines!Listed
  <2>2. PICK k \in DOMAIN uploads : uploads[k].won /\ uploads[k].rev = uploads[i].rev /\ PageSet(k) = PageSet(i)
    BY <1>2, <2>1 DEF UploadsOK
  <2>3. k \in Baselines!Listed(frontier) /\ Baselines!SameIdentity(i, k)
    BY <1>2, <2>1, <2>2, Identity DEF Baselines!Listed, Baselines!SameIdentity
  <2>4. k # i => uploads[i].payload # uploads[k].payload
    <3>1. \A l \in DOMAIN uploads : 1 \in DOMAIN uploads[l].payload /\ uploads[l].payload[1].ink[1] = l
      BY <1>2, Payloads DEF UploadsOK
    <3> QED
      BY <2>1, <3>1
  <2>5. k = i
    BY <1>1, <2>2, <2>3, <2>4 DEF Baselines!Competes
  <2> QED
    BY <2>1, <2>2, <2>5 DEF Won
<1>6. ASSUME NEW i \in Won(frontier), NEW page, Heads(i, page, frontier) PROVE i \in Baselines!Newest(frontier)
  <2>1. i \in Baselines!Listed(frontier) /\ i \in DOMAIN uploads
    BY DEF Won, Baselines!Listed
  <2>2. PICK k \in DOMAIN uploads : IsNewest(k, frontier) /\ PageSet(k) = PageSet(i)
    BY <1>2, <2>1 DEF NewestOK
  <2>3. k \in Baselines!Newest(frontier) /\ k \in Won(frontier)
    BY <1>4, <1>5, <2>2 DEF IsNewest
  <2>4. uploads[k].rev <= uploads[i].rev /\ uploads[i].rev <= uploads[k].rev
    <3>1. uploads[k].rev \in Nat /\ uploads[i].rev \in Nat
      BY <1>2, <2>1 DEF UploadsOK
    <3>2. page \in PageSet(k)
      BY <1>6, <2>2 DEF Heads
    <3>3. uploads[k].rev <= uploads[i].rev
      BY <1>6, <2>3, <3>2 DEF Heads
    <3>4. uploads[i].rev < uploads[k].rev \/ uploads[i].rev = uploads[k].rev
      BY <2>1, <2>2 DEF IsNewest
    <3> QED
      BY <3>1, <3>3, <3>4
  <2>5. uploads[k].rev = uploads[i].rev
    BY <1>2, <2>1, <2>2, <2>4 DEF UploadsOK
  <2>6. k = i
    BY <1>2, <2>1, <2>2, <2>3, <2>5 DEF UploadsOK, Won
  <2> QED
    BY <2>3, <2>6
<1>7. \E i \in Baselines!Newest(frontier) : uploads[i].rev = frontier
  <2>1. PICK i \in DOMAIN uploads : uploads[i].won /\ uploads[i].rev = frontier
    BY <1>1, <1>2 DEF UploadsOK
  <2>2. i \in Won(frontier) /\ \A k \in Won(frontier) : uploads[k].rev <= uploads[i].rev
    BY <1>2, <2>1 DEF Won, Baselines!Listed
  <2>3. PICK page : page \in PageSet(i)
    <3>1. 1 \in DOMAIN uploads[i].payload
      BY <1>2, <2>1, Payloads
    <3> QED
      BY <3>1 DEF PageSet, Baselines!PagesOf
  <2>4. Heads(i, page, frontier)
    BY <2>2, <2>3 DEF Heads
  <2> QED
    BY <1>6, <2>1, <2>2, <2>4
<1>8. Recovered(frontier)'
  BY <1>1, <1>2, <1>3, <1>5, <1>6, <1>7 DEF Recovered
<1>9. RecoveryOK'
  <2>1. job' = None
    BY <1>1 DEF BaselineInv, RecoveryOK
  <2>2. \E rev \in Nat : Recovered(rev)'
    BY <1>1, <1>2, <1>8
  <2> QED
    BY <1>1, <2>1, <2>2 DEF RecoveryOK
<1>10. SavedOK'
  BY <1>1, <1>3 DEF BaselineInv, SavedOK
<1> QED
  BY <1>1, <1>3, <1>9, <1>10 DEF BaselineInv, CacheOK

Bytes(whole, some) == {p.hash : p \in whole} \cup {j.bytes : j \in some}

(* A snapshot moves from those to come to the files. *)
LEMMA DoneKeepsBytes ==
  ASSUME NEW j \in jobs, Baselines!Done(j)
  PROVE  Bytes(keep', jobs') = Bytes(keep, jobs)
<1>1. keep' = keep \cup {Baselines!PathOf(j)} /\ jobs' = jobs \ {j} /\ Baselines!PathOf(j).hash = j.bytes
  BY DEF Baselines!Done, Baselines!PathOf, Baselines!accepted_snapshot_path
<1>2. {p.hash : p \in keep'} = {p.hash : p \in keep} \cup {j.bytes}
  BY <1>1
<1>3. {k.bytes : k \in jobs} = {k.bytes : k \in jobs'} \cup {j.bytes}
  BY <1>1
<1> QED
  BY <1>2, <1>3 DEF Bytes

(* A step of a recovery that moves snapshots to files, or writes one. *)
LEMMA RecoveryStep ==
  ASSUME BaselineInv, pc \in {"ensure", "split"}, CacheOK', Bytes(keep', jobs') = Bytes(keep, jobs),
         job' # None => job'.of \in jobs' /\ job' = [of |-> job'.of, published |-> job'.published],
         UNCHANGED <<uploads, frontier, checkpoint, pc, accepted, built, sent>>
  PROVE  BaselineInv'
<1>1. /\ UploadsOK' /\ NewestOK' /\ \A S, rev : Baselines!Represents(S, rev)' <=> Baselines!Represents(S, rev)
      /\ \A rev : Won(rev)' = Won(rev)
      /\ \A i, page, rev : Heads(i, page, rev)' <=> Heads(i, page, rev)
  BY CloudStays DEF BaselineInv
<1>2. PICK rev \in Nat : Recovered(rev)
  BY DEF BaselineInv, RecoveryOK
<1>3. pc = "split" => Baselines!Represents(Bytes(keep, jobs), rev)'
  <2>1. PICK S : S = Bytes(keep, jobs)
    OBVIOUS
  <2>2. pc = "split" => Baselines!Represents(S, rev)'
    BY <1>1, <1>2, <2>1 DEF Recovered, Bytes
  <2>3. Bytes(keep', jobs') = S
    BY <2>1
  <2>4. pc = "split" => Baselines!Represents(S, rev)' /\ S = Bytes(keep', jobs')
    BY <2>2, <2>3
  <2> QED
    BY <2>4 DEF Baselines!Represents
<1>4. Recovered(rev)'
  BY <1>1, <1>2, <1>3 DEF Recovered, Bytes
<1>5. RecoveryOK'
  BY <1>4 DEF BaselineInv, RecoveryOK
<1>6. SavedOK'
  BY <1>1 DEF BaselineInv, SavedOK
<1> QED
  BY <1>1, <1>5, <1>6 DEF BaselineInv

(* A good file is one of the journal; a bad one is discarded and installed again. *)
LEMMA InspectKeeps == ASSUME BaselineInv, NEW j \in jobs, Baselines!Inspect(j) PROVE BaselineInv'
<1>1. /\ pc \in {"ensure", "split"} /\ job = None
      /\ UNCHANGED <<uploads, frontier, checkpoint, pc, accepted, built, sent>>
  BY DEF Baselines!Inspect
<1>2. CASE Baselines!Done(j) /\ UNCHANGED <<cache, job>>
  BY <1>1, <1>2, DoneKeepsBytes, RecoveryStep DEF BaselineInv, CacheOK
<1>3. CASE /\ cache' = [p \in DOMAIN cache \ {Baselines!PathOf(j)} |-> cache[p]]
           /\ job' = [of |-> j, published |-> FALSE] /\ UNCHANGED <<keep, jobs>>
  <2>1. CacheOK'
    BY <1>3 DEF BaselineInv, CacheOK
  <2>2. job'.of \in jobs' /\ job' = [of |-> job'.of, published |-> job'.published]
    BY <1>3
  <2>3. Bytes(keep', jobs') = Bytes(keep, jobs)
    BY <1>3
  <2> QED
    BY <1>1, <2>1, <2>2, <2>3, RecoveryStep
<1> QED
  BY <1>2, <1>3 DEF Baselines!Inspect

(* What is installed are the bytes its name hashes. *)
LEMMA InstallKeeps == ASSUME BaselineInv, Baselines!Install PROVE BaselineInv'
<1>1. /\ job # None /\ job' = [job EXCEPT !.published = TRUE]
      /\ cache' = [p \in DOMAIN cache \cup {Baselines!PathOf(job.of)} |->
                      IF p = Baselines!PathOf(job.of) THEN job.of.bytes ELSE cache[p]]
      /\ UNCHANGED <<uploads, frontier, checkpoint, pc, accepted, jobs, keep, built, sent>>
  BY DEF Baselines!Install
<1>2. /\ pc \in {"ensure", "split"} /\ job.of \in jobs
      /\ job = [of |-> job.of, published |-> job.published]
  BY <1>1 DEF BaselineInv, RecoveryOK
<1>3. job' = [of |-> job.of, published |-> TRUE]
  BY <1>1, <1>2
<1>4. Baselines!PathOf(job.of).hash = job.of.bytes
  BY DEF Baselines!PathOf, Baselines!accepted_snapshot_path
<1>5. CacheOK'
  BY <1>1, <1>4 DEF BaselineInv, CacheOK
<1>6. Bytes(keep', jobs') = Bytes(keep, jobs)
  BY <1>1
<1>7. job'.of \in jobs' /\ job' = [of |-> job'.of, published |-> job'.published]
  BY <1>1, <1>2, <1>3
<1> QED
  BY <1>1, <1>2, <1>5, <1>6, <1>7, RecoveryStep

(* A file becomes one of the journal only when it reads back right. *)
LEMMA VerifyInstalledKeeps == ASSUME BaselineInv, Baselines!VerifyInstalled PROVE BaselineInv'
<1>1. job # None /\ UNCHANGED <<uploads, frontier, cache, checkpoint, sent>>
  BY DEF Baselines!VerifyInstalled
<1>2. pc \in {"ensure", "split"} /\ job.of \in jobs
  BY <1>1 DEF BaselineInv, RecoveryOK
<1>3. CASE Baselines!Done(job.of) /\ job' = None /\ UNCHANGED <<pc, accepted, built>>
  <2>1. Bytes(keep', jobs') = Bytes(keep, jobs)
    BY <1>2, <1>3, DoneKeepsBytes
  <2>2. CacheOK'
    BY <1>1 DEF BaselineInv, CacheOK
  <2> QED
    BY <1>1, <1>2, <1>3, <2>1, <2>2, RecoveryStep
<1>4. CASE Baselines!Reset
  BY <1>1, <1>4, ResetKeeps
<1> QED
  BY <1>3, <1>4 DEF Baselines!VerifyInstalled

(* The selected entries of what is accepted are the heads of the pages. *)
LEMMA SelectedAreHeads ==
  ASSUME UploadsOK, NewestOK, NEW rev \in Nat, Recovered(rev), NEW i \in accepted, NEW page \in PageSet(i)
  PROVE  Baselines!Selected(i, page) <=> Heads(i, page, rev)
<1>1. accepted \subseteq Won(rev) /\ Won(rev) \subseteq DOMAIN uploads
  BY DEF Recovered, Won, Baselines!Listed
<1>2. Baselines!Selected(i, page) <=> \A k \in accepted : page \in PageSet(k) => uploads[k].rev <= uploads[i].rev
  BY DEF Baselines!Selected, PageSet
<1>3. PICK k \in DOMAIN uploads : Heads(k, page, rev)
  BY <1>1 DEF NewestOK
<1>4. k \in accepted /\ page \in PageSet(k)
  BY <1>3 DEF Recovered, Heads
<1>5. \A l \in DOMAIN uploads : uploads[l].rev \in Nat
  BY DEF UploadsOK
<1>6. ASSUME uploads[k].rev <= uploads[i].rev PROVE Heads(i, page, rev)
  BY <1>1, <1>3, <1>5, <1>6 DEF Heads
<1> QED
  BY <1>1, <1>2, <1>4, <1>6 DEF Heads

(* What Materialize keeps whole and what it splits off are the heads. *)
LEMMA MaterializeRepresents ==
  ASSUME UploadsOK, NewestOK, NEW rev \in Nat, Recovered(rev)
  PROVE  LET whole == {Baselines!PathOf(Baselines!AsJob(i)) : i \in {k \in accepted : Baselines!Whole(k)}}
             some == UNION {Baselines!Splits(i) : i \in {k \in accepted : ~Baselines!Whole(k)}}
         IN  Baselines!Represents(Bytes(whole, some), rev)
<1> DEFINE whole == {Baselines!PathOf(Baselines!AsJob(i)) : i \in {k \in accepted : Baselines!Whole(k)}}
           some == UNION {Baselines!Splits(i) : i \in {k \in accepted : ~Baselines!Whole(k)}}
           S == Bytes(whole, some)
           Part(s, i, N) == /\ Baselines!Range(s) = {uploads[i].payload[n] : n \in N} /\ N # {}
                            /\ \/ Baselines!Whole(i) /\ s = uploads[i].payload
                               \/ ~Baselines!Whole(i) /\ \E n \in N : N = {n} /\ s = <<uploads[i].payload[n]>>
<1>1. accepted \subseteq Won(rev) /\ Won(rev) \subseteq DOMAIN uploads
  BY DEF Recovered, Won, Baselines!Listed
<1>2. S = {uploads[i].payload : i \in {k \in accepted : Baselines!Whole(k)}}
          \cup {j.bytes : j \in some}
  <2>1. \A i : Baselines!PathOf(Baselines!AsJob(i)).hash = uploads[i].payload
    BY DEF Baselines!PathOf, Baselines!AsJob, Baselines!accepted_snapshot_path
  <2>2. {p.hash : p \in whole} = {uploads[i].payload : i \in {k \in accepted : Baselines!Whole(k)}}
    BY <2>1
  <2> QED
    BY <2>2 DEF Bytes
<1>3. ASSUME NEW i \in accepted, NEW n \in DOMAIN uploads[i].payload
      PROVE  /\ uploads[i].payload[n].page \in PageSet(i)
             /\ n \in Baselines!SelectedEntries(i) <=> Heads(i, uploads[i].payload[n].page, rev)
  <2>1. uploads[i].payload[n].page \in PageSet(i)
    BY DEF PageSet, Baselines!PagesOf
  <2> QED
    BY <2>1, SelectedAreHeads DEF Baselines!SelectedEntries
<1>4. ASSUME NEW s
      PROVE  s \in S <=> \E i \in accepted : \/ Baselines!Whole(i) /\ s = uploads[i].payload
                                             \/ ~Baselines!Whole(i) /\ \E n \in Baselines!SelectedEntries(i) :
                                                   s = <<uploads[i].payload[n]>>
  <2>1. ASSUME NEW i
        PROVE  (\E j \in Baselines!Splits(i) : s = j.bytes)
               <=> \E n \in Baselines!SelectedEntries(i) : s = <<uploads[i].payload[n]>>
    <3>1. Baselines!Splits(i) = {[id |-> {uploads[i].payload[n].page}, rev |-> uploads[i].rev,
                                  bytes |-> <<uploads[i].payload[n]>>] : n \in Baselines!SelectedEntries(i)}
      BY DEF Baselines!Splits, Baselines!serialize_baseline_page
    <3>2. ASSUME NEW j \in Baselines!Splits(i), s = j.bytes
          PROVE  \E n \in Baselines!SelectedEntries(i) : s = <<uploads[i].payload[n]>>
      BY <3>1, <3>2
    <3>3. ASSUME NEW n \in Baselines!SelectedEntries(i), s = <<uploads[i].payload[n]>>
          PROVE  \E j \in Baselines!Splits(i) : s = j.bytes
      <4>1. PICK j : j = [id |-> {uploads[i].payload[n].page}, rev |-> uploads[i].rev, bytes |-> <<uploads[i].payload[n]>>]
        OBVIOUS
      <4>2. j \in Baselines!Splits(i) /\ j.bytes = s
        BY <3>1, <3>3, <4>1
      <4> QED
        BY <4>2
    <3> QED
      BY <3>2, <3>3
  <2>2. (\E j \in some : s = j.bytes)
        <=> \E i \in accepted : ~Baselines!Whole(i) /\ \E j \in Baselines!Splits(i) : s = j.bytes
    OBVIOUS
  <2>3. s \in S <=> \/ \E i \in accepted : Baselines!Whole(i) /\ s = uploads[i].payload
                   \/ \E j \in some : s = j.bytes
    BY <1>2
  <2> HIDE DEF S, some
  <2> QED
    BY <2>1, <2>2, <2>3
<1> HIDE DEF S
<1>5. ASSUME NEW s \in S
      PROVE  \E i \in accepted : \E N \in SUBSET Baselines!SelectedEntries(i) : Part(s, i, N)
  <2>1. PICK i \in accepted : \/ Baselines!Whole(i) /\ s = uploads[i].payload
                              \/ ~Baselines!Whole(i) /\ \E n \in Baselines!SelectedEntries(i) :
                                    s = <<uploads[i].payload[n]>>
    BY <1>4
  <2>2. CASE Baselines!Whole(i) /\ s = uploads[i].payload
    <3>1. Baselines!SelectedEntries(i) = DOMAIN uploads[i].payload
      BY <2>2 DEF Baselines!Whole
    <3>2. 1 \in DOMAIN uploads[i].payload
      BY <1>1, Payloads
    <3>3. Part(s, i, DOMAIN uploads[i].payload)
      BY <2>2, <3>2 DEF Baselines!Range
    <3> QED
      BY <3>1, <3>3
  <2>3. CASE ~Baselines!Whole(i) /\ \E n \in Baselines!SelectedEntries(i) : s = <<uploads[i].payload[n]>>
    <3>1. PICK n \in Baselines!SelectedEntries(i) : s = <<uploads[i].payload[n]>>
      BY <2>3
    <3>2. Baselines!Range(s) = {uploads[i].payload[n]}
      BY <3>1 DEF Baselines!Range
    <3>3. Part(s, i, {n})
      BY <2>3, <3>1, <3>2
    <3> HIDE DEF Part
    <3> QED
      BY <3>3
  <2> QED
    BY <2>1, <2>2, <2>3
<1>6. ASSUME NEW e
      PROVE  (\E s \in S : e \in Baselines!Range(s))
             <=> \E i \in accepted : \E n \in Baselines!SelectedEntries(i) : e = uploads[i].payload[n]
  <2>1. ASSUME NEW s \in S, e \in Baselines!Range(s)
        PROVE  \E i \in accepted : \E n \in Baselines!SelectedEntries(i) : e = uploads[i].payload[n]
    BY <1>5, <2>1
  <2>2. ASSUME NEW i \in accepted, NEW n \in Baselines!SelectedEntries(i), e = uploads[i].payload[n]
        PROVE  \E s \in S : e \in Baselines!Range(s)
    <3>1. CASE Baselines!Whole(i)
      BY <1>4, <2>2, <3>1 DEF Baselines!Range, Baselines!SelectedEntries
    <3>2. CASE ~Baselines!Whole(i)
      <4>1. <<e>> \in S
        BY <1>4, <2>2, <3>2
      <4>2. e \in Baselines!Range(<<e>>)
        <5>1. 1 \in DOMAIN <<e>> /\ <<e>>[1] = e
          OBVIOUS
        <5> QED
          BY <5>1 DEF Baselines!Range
      <4> QED
        BY <4>1, <4>2
    <3> QED
      BY <3>1, <3>2
  <2> QED
    BY <2>1, <2>2
<1>7. Baselines!CanonicalPages(rev) = UNION {PageSet(i) : i \in Won(rev)}
  BY DEF Baselines!CanonicalPages, Won, PageSet
<1>8. UNION {Baselines!Range(p) : p \in S}
      = {Baselines!CanonicalEntry(page, rev) : page \in Baselines!CanonicalPages(rev)}
  <2>1. ASSUME NEW i \in accepted, NEW n \in Baselines!SelectedEntries(i)
        PROVE  \E page \in Baselines!CanonicalPages(rev) : uploads[i].payload[n] = Baselines!CanonicalEntry(page, rev)
    <3>1. n \in DOMAIN uploads[i].payload
      BY DEF Baselines!SelectedEntries
    <3>2. Heads(i, uploads[i].payload[n].page, rev)
      BY <1>3, <3>1
    <3>3. uploads[i].payload[n].page \in Baselines!CanonicalPages(rev)
      BY <1>7, <3>2 DEF Heads
    <3> QED
      BY <3>1, <3>2, <3>3, CanonicalHead DEF CanonicalIsHead
  <2>2. ASSUME NEW page \in Baselines!CanonicalPages(rev)
        PROVE  \E i \in accepted : \E n \in Baselines!SelectedEntries(i) :
                  Baselines!CanonicalEntry(page, rev) = uploads[i].payload[n]
    <3>1. PICK k \in DOMAIN uploads : Heads(k, page, rev)
      BY <1>7, <2>2 DEF NewestOK
    <3>2. k \in accepted
      BY <3>1 DEF Recovered, Heads
    <3>3. PICK n \in DOMAIN uploads[k].payload : uploads[k].payload[n].page = page
      BY <3>1 DEF Heads, PageSet, Baselines!PagesOf
    <3>4. n \in Baselines!SelectedEntries(k)
      BY <1>3, <3>1, <3>2, <3>3
    <3> QED
      BY <3>1, <3>2, <3>3, <3>4, CanonicalHead DEF CanonicalIsHead
  <2>3. ASSUME NEW e
        PROVE  (\E s \in S : e \in Baselines!Range(s))
               <=> \E page \in Baselines!CanonicalPages(rev) : e = Baselines!CanonicalEntry(page, rev)
    BY <1>6, <2>1, <2>2
  <2> QED
    BY <2>3
<1>9. ASSUME NEW p \in S, NEW q \in S, p # q
      PROVE  Baselines!PagesOf(p) \cap Baselines!PagesOf(q) = {}
  <2> SUFFICES ASSUME NEW page \in Baselines!PagesOf(p), page \in Baselines!PagesOf(q) PROVE FALSE
    OBVIOUS
  <2>1. PICK i \in accepted : \E N \in SUBSET Baselines!SelectedEntries(i) : Part(p, i, N)
    BY <1>5
  <2>8. PICK A \in SUBSET Baselines!SelectedEntries(i) : Part(p, i, A)
    BY <2>1
  <2>2. PICK k \in accepted : \E N \in SUBSET Baselines!SelectedEntries(k) : Part(q, k, N)
    BY <1>5
  <2>9. PICK B \in SUBSET Baselines!SelectedEntries(k) : Part(q, k, B)
    BY <2>2
  <2>3. PICK n \in A, m \in B : uploads[i].payload[n].page = page /\ uploads[k].payload[m].page = page
    <3>1. \A s : page \in Baselines!PagesOf(s) => \E e \in Baselines!Range(s) : e.page = page
      BY DEF Baselines!PagesOf, Baselines!Range
    <3> QED
      BY <2>8, <2>9, <3>1
  <2>4. n \in DOMAIN uploads[i].payload /\ m \in DOMAIN uploads[k].payload
    BY <2>8, <2>9, <2>3 DEF Baselines!SelectedEntries
  <2>5. Heads(i, page, rev) /\ Heads(k, page, rev)
    BY <1>3, <2>8, <2>9, <2>3, <2>4
  <2>6. i = k
    <3>1. uploads[i].rev \in Nat /\ uploads[k].rev \in Nat
      BY <1>1 DEF UploadsOK
    <3>2. uploads[i].rev = uploads[k].rev
      BY <2>5, <3>1 DEF Heads
    <3> QED
      BY <1>1, <3>2 DEF UploadsOK, Won
  <2>7. n = m
    BY <1>1, <2>3, <2>4, <2>6 DEF UploadsOK
  <2> QED
    BY <1>9, <2>8, <2>9, <2>3, <2>6, <2>7
<1> QED
  BY <1>8, <1>9 DEF Baselines!Represents, S

(* Reading the snapshots puts every page into one of them. *)
LEMMA MaterializeKeeps == ASSUME BaselineInv, Baselines!Materialize PROVE BaselineInv'
<1>1. pc = "ensure" /\ jobs = {} /\ job = None /\ UNCHANGED <<uploads, frontier, cache, checkpoint, sent>>
  BY DEF Baselines!Materialize
<1>2. CASE Baselines!Reset
  BY <1>1, <1>2, ResetKeeps
<1>3. CASE /\ keep' = {Baselines!PathOf(Baselines!AsJob(i)) : i \in {k \in accepted : Baselines!Whole(k)}}
           /\ jobs' = UNION {Baselines!Splits(i) : i \in {k \in accepted : ~Baselines!Whole(k)}}
           /\ pc' = "split" /\ UNCHANGED <<accepted, job, built>>
  <2>1. /\ UploadsOK' /\ NewestOK' /\ \A S, rev : Baselines!Represents(S, rev)' <=> Baselines!Represents(S, rev)
        /\ \A rev : Won(rev)' = Won(rev)
        /\ \A i, page, rev : Heads(i, page, rev)' <=> Heads(i, page, rev)
    BY <1>1, CloudStays DEF BaselineInv
  <2>2. PICK rev \in Nat : Recovered(rev)
    BY <1>1 DEF BaselineInv, RecoveryOK
  <2>3. Baselines!Represents(Bytes(keep', jobs'), rev)
    BY <1>3, <2>2, MaterializeRepresents DEF BaselineInv
  <2>4. Baselines!Represents({p.hash : p \in keep} \cup {j.bytes : j \in jobs}, rev)'
    <3>1. PICK S : S = Bytes(keep', jobs')
      OBVIOUS
    <3>2. Baselines!Represents(S, rev)'
      BY <2>1, <2>3, <3>1
    <3> QED
      BY <3>1, <3>2 DEF Bytes, Baselines!Represents
  <2>5. Recovered(rev)'
    BY <1>1, <1>3, <2>1, <2>2, <2>4 DEF Recovered
  <2>6. RecoveryOK'
    BY <1>1, <1>3, <2>5 DEF RecoveryOK
  <2>7. SavedOK'
    BY <1>1, <1>3, <2>1 DEF BaselineInv, SavedOK
  <2> QED
    BY <1>1, <2>1, <2>6, <2>7 DEF BaselineInv, CacheOK
<1> QED
  BY <1>2, <1>3 DEF Baselines!Materialize

(* The checkpoint of a poll: nothing is left to come, and the newest revision
   is the one recovered. *)
LEMMA SaveJournalKeeps == ASSUME BaselineInv, Baselines!SaveJournal PROVE BaselineInv'
<1>1. /\ pc = "split" /\ jobs = {} /\ job = None /\ UNCHANGED <<uploads, frontier, cache, sent>>
      /\ checkpoint' = [files |-> keep, rev |-> Baselines!Max({uploads[i].rev : i \in accepted})]
      /\ pc' = "idle" /\ accepted' = {} /\ jobs' = {} /\ job' = None
  BY DEF Baselines!SaveJournal, Baselines!Reset
<1>2. /\ UploadsOK' /\ NewestOK' /\ \A S, rev : Baselines!Represents(S, rev)' <=> Baselines!Represents(S, rev)
  BY <1>1, CloudStays DEF BaselineInv
<1>3. PICK rev \in Nat : Recovered(rev)
  BY <1>1 DEF BaselineInv, RecoveryOK
<1>4. Baselines!Max({uploads[i].rev : i \in accepted}) = rev
  <2>1. \A i \in accepted : uploads[i].rev \in Nat /\ uploads[i].rev <= rev
    BY <1>3 DEF BaselineInv, UploadsOK, Recovered, Won, Baselines!Listed
  <2>2. \E i \in accepted : uploads[i].rev = rev
    BY <1>3 DEF Recovered
  <2>3. PICK R : R = {uploads[i].rev : i \in accepted}
    OBVIOUS
  <2>4. rev \in R /\ \A x \in R : x \in Nat /\ x <= rev
    BY <2>1, <2>2, <2>3
  <2>5. Baselines!Max(R) = rev
    <3> DEFINE m == CHOOSE x \in R : \A y \in R : x >= y
    <3>1. \E x \in R : \A y \in R : x >= y
      BY <2>4
    <3>2. m \in R /\ \A y \in R : m >= y
      BY <3>1
    <3>3. Baselines!Max(R) = m
      BY DEF Baselines!Max
    <3> HIDE DEF m
    <3> QED
      BY <2>4, <3>2, <3>3
  <2> QED
    BY <2>3, <2>5
<1>5. Baselines!Represents({p.hash : p \in keep}, rev)
  <2>1. {p.hash : p \in keep} \cup {j.bytes : j \in jobs} = {p.hash : p \in keep}
    BY <1>1
  <2> QED
    BY <1>1, <1>3, <2>1 DEF Recovered
<1>6. rev \in 0 .. frontier
  BY <1>3 DEF Recovered, BaselineInv, UploadsOK
<1>7. SavedOK'
  <2>1. checkpoint'.rev = rev /\ checkpoint'.files = keep
    BY <1>1, <1>4
  <2>2. Baselines!Represents({p.hash : p \in checkpoint.files}, checkpoint.rev)'
    <3>1. PICK S : S = {p.hash : p \in keep}
      OBVIOUS
    <3>2. Baselines!Represents(S, rev)'
      BY <1>2, <1>5, <3>1
    <3> QED
      BY <2>1, <3>1, <3>2 DEF Baselines!Represents
  <2> QED
    BY <1>1, <1>2, <1>6, <2>1, <2>2 DEF BaselineInv, SavedOK
<1>8. RecoveryOK'
  BY <1>1 DEF RecoveryOK
<1> QED
  BY <1>1, <1>2, <1>7, <1>8 DEF BaselineInv, CacheOK

(* A manifest is begun, and built of what the files hold when they are read:
   if they are right when they are checked after that, they were then. *)
LEMMA BuildsKeep == ASSUME BaselineInv, Baselines!BeginBuild \/ Baselines!Build PROVE BaselineInv'
<1>1. CASE Baselines!Reset /\ UNCHANGED <<uploads, frontier, cache, checkpoint, sent>>
  BY <1>1, ResetKeeps
<1>2. CASE /\ pc \notin {"ensure", "split"} /\ pc' \in {"build", "built"}
           /\ pc' = "built" => built' = {cache[p] : p \in checkpoint.files}
           /\ UNCHANGED <<uploads, frontier, cache, checkpoint, accepted, jobs, job, keep, sent>>
  <2>1. /\ UploadsOK' /\ NewestOK' /\ \A S, rev : Baselines!Represents(S, rev)' <=> Baselines!Represents(S, rev)
    BY <1>2, CloudStays DEF BaselineInv
  <2>2. ASSUME \A p \in checkpoint.files : Baselines!Intact(p)
        PROVE  {cache[p] : p \in checkpoint.files} = {p.hash : p \in checkpoint.files}
    BY <2>2 DEF Baselines!Intact
  <2>3. SavedOK'
    BY <1>2, <2>1, <2>2 DEF BaselineInv, SavedOK, Baselines!Intact
  <2>4. RecoveryOK'
    BY <1>2 DEF BaselineInv, RecoveryOK
  <2> QED
    BY <1>2, <2>1, <2>3, <2>4 DEF BaselineInv, CacheOK
<1>3. CASE Baselines!BeginBuild
  BY <1>2, <1>3 DEF Baselines!BeginBuild
<1>4. CASE Baselines!Build
  BY <1>1, <1>2, <1>4 DEF Baselines!Build
<1> QED
  BY <1>3, <1>4

(* What leaves was read before the files were found right once more. *)
LEMMA SendKeeps == ASSUME BaselineInv, Baselines!Send PROVE BaselineInv'
<1>1. /\ pc = "built" /\ UNCHANGED <<uploads, frontier, cache, checkpoint>>
      /\ sent' = IF \A p \in checkpoint.files : Baselines!Intact(p)
                 THEN [contents |-> built, rev |-> checkpoint.rev] ELSE sent
      /\ pc' = "idle" /\ accepted' = {} /\ jobs' = {} /\ job' = None
  BY DEF Baselines!Send, Baselines!Reset
<1>2. /\ UploadsOK' /\ NewestOK' /\ \A S, rev : Baselines!Represents(S, rev)' <=> Baselines!Represents(S, rev)
  BY <1>1, CloudStays DEF BaselineInv
<1>3. sent'.rev \in 0 .. frontier /\ Baselines!Represents(sent'.contents, sent'.rev)
  <2>1. CASE \A p \in checkpoint.files : Baselines!Intact(p)
    BY <1>1, <2>1 DEF BaselineInv, SavedOK
  <2>2. CASE ~\A p \in checkpoint.files : Baselines!Intact(p)
    BY <1>1, <2>2 DEF BaselineInv, SavedOK
  <2> QED
    BY <2>1, <2>2
<1>4. Baselines!Represents(sent.contents, sent.rev)'
  <2>1. PICK S : S = sent'.contents
    OBVIOUS
  <2>2. PICK rev : rev = sent'.rev
    OBVIOUS
  <2>3. Baselines!Represents(S, rev)'
    BY <1>2, <1>3, <2>1, <2>2
  <2> QED
    BY <2>1, <2>2, <2>3 DEF Baselines!Represents
<1>5. SavedOK'
  BY <1>1, <1>2, <1>3, <1>4 DEF BaselineInv, SavedOK
<1>6. RecoveryOK'
  BY <1>1 DEF RecoveryOK
<1> QED
  BY <1>1, <1>2, <1>5, <1>6 DEF BaselineInv, CacheOK

(* Every step. *)
LEMMA NextBaseline ==
  ASSUME Baselines!BaselineAssumption, BaselineInv, [Baselines!Next]_(Baselines!vars) PROVE BaselineInv'
<1> USE DEF BaselineInv
<1>1. CASE UNCHANGED Baselines!vars
  <2>1. UNCHANGED <<uploads, frontier, cache, checkpoint, pc, accepted, jobs, job, keep, built, sent>>
    BY <1>1 DEF Baselines!vars
  <2>2. frontier \in Nat /\ \A rev \in Nat : Won(rev)' = Won(rev)
    BY <2>1, CloudStays DEF UploadsOK
  <2> QED
    BY <2>1, <2>2, CloudMoves, CloudStays
<1>2. CASE (\E t \in Texts, legacy \in BOOLEAN : Baselines!Upload(t, legacy)) \/ (\E i \in DOMAIN uploads : Baselines!Rival(i))
  <2>1. /\ UploadsOK' /\ NewestOK' /\ \A rev \in Nat : rev <= frontier => Won(rev)' = Won(rev)
    BY <1>2, UploadKeeps, RivalKeeps
  <2>2. /\ \E u : uploads' = Append(uploads, u)
        /\ UNCHANGED <<frontier, cache, checkpoint, pc, accepted, jobs, job, keep, built, sent>>
    BY <1>2 DEF Baselines!Upload, Baselines!Rival
  <2>3. frontier \in Nat /\ \A i \in DOMAIN uploads : uploads'[i] = uploads[i]
    BY <2>2 DEF UploadsOK
  <2> QED
    BY <2>1, <2>2, <2>3, CloudMoves
<1>3. CASE Baselines!BrokerAccepts
  <2>1. /\ UploadsOK' /\ NewestOK' /\ \A rev \in Nat : rev <= frontier => Won(rev)' = Won(rev)
    BY <1>3, BrokerKeeps
  <2>2. /\ uploads' = uploads /\ frontier' = frontier + 1 /\ frontier \in Nat
        /\ UNCHANGED <<cache, checkpoint, pc, accepted, jobs, job, keep, built, sent>>
    BY <1>3 DEF Baselines!BrokerAccepts, UploadsOK
  <2> QED
    BY <2>1, <2>2, CloudMoves
<1>4. CASE \E place \in DOMAIN cache : Baselines!Damage(place)
  BY <1>4, DamageKeeps
<1>5. CASE Baselines!Recovery
  BY <1>5, BeginRecoveryKeeps, InspectKeeps, InstallKeeps, VerifyInstalledKeeps, MaterializeKeeps, SaveJournalKeeps
     DEF Baselines!Recovery
<1>6. CASE Baselines!Fault
  BY <1>6, ResetKeeps DEF Baselines!Fault
<1>7. CASE Baselines!BeginBuild \/ Baselines!Build \/ Baselines!Send
  BY <1>7, BuildsKeep, SendKeeps
<1> QED
  BY <1>1, <1>2, <1>3, <1>4, <1>5, <1>6, <1>7 DEF Baselines!Next

(* The invariant of the accepted baselines: a poll, from its listing to its
   checkpoint, works with the heads of every page up to one revision. *)
THEOREM BaselineInvariance ==
  ASSUME Baselines!BaselineAssumption PROVE Baselines!Spec => []BaselineInv
<1>1. Baselines!Init => BaselineInv
  BY InitBaseline
<1>2. BaselineInv /\ [Baselines!Next]_(Baselines!vars) => BaselineInv'
  BY NextBaseline
<1> QED
  BY <1>1, <1>2, PTL DEF Baselines!Spec

(* A recovery works on uploads the broker's frontier covers; every file holds
   its own bytes or damaged ones. *)
THEOREM BaselineTypes ==
  ASSUME Baselines!BaselineAssumption PROVE Baselines!Spec => []Baselines!TypeOK
<1>1. ASSUME BaselineInv PROVE Baselines!TypeOK
  <2>1. frontier \in 0 .. Len(uploads)
    <3>1. uploads \in Seq(Uploads) /\ frontier \in Nat
      BY <1>1 DEF BaselineInv, UploadsOK
    <3>2. Len(uploads) \in Nat /\ DOMAIN uploads = 1 .. Len(uploads)
      BY <3>1
    <3>3. frontier > 0 => \E i \in DOMAIN uploads : frontier <= i
      BY <1>1, <3>1 DEF BaselineInv, UploadsOK
    <3> QED
      BY <3>1, <3>2, <3>3
  <2>2. accepted \subseteq Baselines!Listed(frontier)
    <3>1. CASE pc \notin {"ensure", "split"}
      BY <1>1, <3>1 DEF BaselineInv, RecoveryOK
    <3>2. CASE pc \in {"ensure", "split"}
      <4>1. PICK rev \in Nat : Recovered(rev)
        BY <1>1, <3>2 DEF BaselineInv, RecoveryOK
      <4>2. frontier \in Nat /\ \A i \in DOMAIN uploads : uploads[i].rev \in Nat
        BY <1>1 DEF BaselineInv, UploadsOK
      <4> QED
        BY <4>1, <4>2 DEF Recovered, Won, Baselines!Listed
    <3> QED
      BY <3>1, <3>2
  <2>3. /\ pc \in {"idle", "ensure", "split", "build", "built"}
        /\ \A p \in DOMAIN cache : cache[p] \in {p.hash, Baselines!Garbage}
        /\ pc = "idle" => jobs = {} /\ job = None
    BY <1>1 DEF BaselineInv, RecoveryOK, CacheOK
  <2> QED
    BY <2>1, <2>2, <2>3 DEF Baselines!TypeOK
<1> QED
  BY <1>1, BaselineInvariance, PTL

(* The journalled baselines are exactly the ink the broker accepted, every page
   once (supernote_snapshot.rs materialize_non_overlapping_baselines). *)
THEOREM JournalCanonical ==
  ASSUME Baselines!BaselineAssumption PROVE Baselines!Spec => []Baselines!JournalIsCanonical
<1>1. BaselineInv => Baselines!JournalIsCanonical
  BY DEF BaselineInv, SavedOK, Baselines!JournalIsCanonical
<1> QED
  BY <1>1, BaselineInvariance, PTL

(* A manifest is only ever built from those bytes, whenever the files are
   damaged (service.rs upload_legacy_boox_if_ready). *)
THEOREM SentCanonical ==
  ASSUME Baselines!BaselineAssumption PROVE Baselines!Spec => []Baselines!SentIsCanonical
<1>1. BaselineInv => Baselines!SentIsCanonical
  BY DEF BaselineInv, SavedOK, Baselines!SentIsCanonical
<1> QED
  BY <1>1, BaselineInvariance, PTL
=============================================================================
