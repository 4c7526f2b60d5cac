---------------------------- MODULE FileSettle ----------------------------
(***************************************************************************)
(* When the folder transport believes that a Supernote export is finished: *)
(* file_is_settled, the double read and the remembered hashes of           *)
(* upload_supernote_if_ready (transport.rs).  The plugin or a sync client  *)
(* rewrites the file chunk by chunk while a poll reads it chunk by chunk.  *)
(* Times are kept as ages, in ticks, up to the largest age that the code   *)
(* can tell apart.                                                         *)
(***************************************************************************)
EXTENDS Naturals, Sequences

CONSTANTS Chunks,     \* a whole export, in chunks
          Settle,     \* settle_seconds
          MaxPass,    \* how long one poll may take
          MaxSaves, MaxStops, MaxCrashes,
          SameStamp,  \* TRUE: a renamed file may bring the mtime it replaces
          None

\* The age at which times stop, the contents of a file, and FileObservation.
Cap == Settle + MaxPass
Versions == 1 .. MaxSaves
Bytes == UNION {[1 .. n -> Versions] : n \in 0 .. Chunks}
Observations == [size : 0 .. Chunks, stamp : Nat, first : 0 .. Cap, hash : Bytes \cup {None}]

SettleAssumption ==
    /\ {Chunks, Settle, MaxPass, MaxSaves, MaxStops, MaxCrashes} \subseteq Nat
    /\ Chunks > 0 /\ Settle > 1 /\ SameStamp \in BOOLEAN
    /\ None \notin Nat \cup Bytes \cup Observations

VARIABLES file,      \* the export: its chunks (version numbers), mtime and its age
          written,   \* the age of its last real change
          saving,    \* a save in progress: the place of its next chunk, or AtEnd
          saves, stops, crashes,
          obs,       \* the FileObservation of the poll's copy of the state
          journal,   \* observation, uploaded hash and pending upload, as saved
          uploaded, pending,
          pc, late,  \* the poll's step, and the age of its `now`
          content, posted,   \* the bytes read, and those hashed afterwards
          open       \* what the open handle still reads after a rename

fileVars == <<file, written, saving, saves, stops>>
readVars == <<content, posted, open>>
stateVars == <<obs, uploaded, pending>>
vars == <<fileVars, crashes, stateVars, journal, pc, late, readVars>>

Older(age) == IF age < Cap THEN age + 1 ELSE Cap
Whole(bytes) == \E v \in 1 .. MaxSaves : bytes = [i \in 1 .. Chunks |-> v]

Init == /\ file = [chunks |-> <<>>, stamp |-> 0, age |-> 0] /\ written = 0
        /\ saving = None /\ saves = 0 /\ stops = 0 /\ crashes = 0
        /\ obs = None /\ uploaded = <<>> /\ pending = FALSE
        /\ journal = [obs |-> None, uploaded |-> <<>>, pending |-> FALSE]
        /\ pc = "idle" /\ late = 0 /\ content = <<>> /\ posted = <<>> /\ open = None
-----------------------------------------------------------------------------
(* Time and the writers of the export *)

Aged(o) == IF o = None THEN None ELSE [o EXCEPT !.first = Older(@)]

\* A save never rests for Settle, and a poll ends within MaxPass.
Tick == /\ saving # None => written + 1 < Settle
        /\ pc # "idle" => late < MaxPass
        /\ file' = [file EXCEPT !.age = Older(@)] /\ written' = Older(written)
        /\ obs' = Aged(obs) /\ journal' = [journal EXCEPT !.obs = Aged(@)]
        /\ late' = IF pc = "idle" THEN 0 ELSE late + 1
        /\ UNCHANGED <<saving, saves, stops, crashes, uploaded, pending, pc, readVars>>

\* The mtime of a write: writes within one tick cannot be told apart.
Stamped(chunks) == [chunks |-> chunks, age |-> 0,
                    stamp |-> IF file.age = 0 /\ file.stamp > 0 THEN file.stamp
                              ELSE file.stamp + 1]
writerRest == <<stops, crashes, stateVars, journal, pc, late, content, posted>>

\* The place of a save that truncated the file.
AtEnd == 0

\* A save starts by truncating the file, or by overwriting its first chunk.
BeginSave == /\ saving = None /\ saves < MaxSaves
             /\ saves' = saves + 1 /\ written' = 0
             /\ \/ saving' = AtEnd /\ file' = Stamped(<<>>)
                \/ /\ Len(file.chunks) = Chunks /\ Chunks > 1
                   /\ saving' = 2 /\ file' = Stamped([file.chunks EXCEPT ![1] = saves'])
             /\ UNCHANGED <<writerRest, open>>

\* The next chunk: at the end of the file, or at a place in it.
WriteChunk ==
    /\ saving # None /\ written' = 0
    /\ \/ /\ saving = AtEnd
          /\ file' = Stamped(Append(file.chunks, saves))
          /\ saving' = IF Len(file'.chunks) = Chunks THEN None ELSE saving
       \/ /\ saving # AtEnd
          /\ file' = Stamped([file.chunks EXCEPT ![saving] = saves])
          /\ saving' = IF saving = Chunks THEN None ELSE saving + 1
    /\ UNCHANGED <<saves, writerRest, open>>

\* A sync client that wrote a hidden or .part.json file renames it, with the
\* mtime of the sending device.
RenameIn == /\ saving = None /\ saves < MaxSaves
            /\ saves' = saves + 1 /\ written' = 0
            /\ \E stamp \in {file.stamp + 1} \cup (IF SameStamp THEN {file.stamp} ELSE {}) :
                  file' = [chunks |-> [i \in 1 .. Chunks |-> saves'], age |-> Cap, stamp |-> stamp]
            /\ open' = IF pc \in {"read", "hash"} /\ open = None THEN file.chunks ELSE open
            /\ UNCHANGED <<saving, writerRest>>

\* The writer disappears in the middle of a truncating save.
StopSave == /\ saving = AtEnd /\ stops < MaxStops
            /\ stops' = stops + 1 /\ saving' = None
            /\ UNCHANGED <<file, written, saves, crashes, stateVars, journal, pc, late, readVars>>
-----------------------------------------------------------------------------
(* One poll: upload_supernote_if_ready on a copy of the state *)

\* supernote_export_files: the name exists; temporary names are not listed.
Listed == saves > 0

BeginPoll == /\ pc = "idle" /\ late' = 0
             /\ pc' = IF pending \/ ~Listed THEN "save" ELSE "check"
             /\ content' = <<>> /\ posted' = <<>> /\ open' = None
             /\ UNCHANGED <<fileVars, crashes, stateVars, journal>>

SameMetadata == obs # None /\ obs.size = Len(file.chunks) /\ obs.stamp = file.stamp
\* file_is_settled: nothing moved since the observation, which is old enough,
\* and so is the mtime.
file_is_settled == SameMetadata /\ obs.first >= Settle + late /\ file.age >= Settle + late

Observed(first, bytes) == [size |-> Len(file.chunks), stamp |-> file.stamp, first |-> first,
                           hash |-> bytes]
\* The observation file_is_settled leaves behind.
Observe == obs' = IF SameMetadata THEN obs ELSE Observed(late, None)

CheckSettled == /\ pc = "check"
                /\ pc' = IF file_is_settled THEN "read" ELSE "save"
                /\ Observe
                /\ UNCHANGED <<fileVars, crashes, uploaded, pending, journal, late, readVars>>

Handle == IF open = None THEN file.chunks ELSE open
NextOf(bytes) == Len(bytes) < Len(Handle)

\* read_snapshot_and_current_hash: fs::read, then sha256_file of the name.
ReadChunk == /\ pc = "read"
             /\ IF NextOf(content)
                THEN /\ content' = Append(content, Handle[Len(content) + 1])
                     /\ UNCHANGED <<pc, open>>
                ELSE pc' = "hash" /\ open' = None /\ UNCHANGED content
             /\ UNCHANGED <<fileVars, crashes, stateVars, journal, late, posted>>
HashChunk == /\ pc = "hash"
             /\ IF NextOf(posted)
                THEN /\ posted' = Append(posted, Handle[Len(posted) + 1])
                     /\ UNCHANGED <<pc, open>>
                ELSE pc' = "recheck" /\ open' = None /\ UNCHANGED posted
             /\ UNCHANGED <<fileVars, crashes, stateVars, journal, late, content>>

ChangedWhileRead == posted # content
ChangedSilently == obs.hash # None /\ obs.hash # content

\* An error discards the copy of the state.
Discard == /\ pc' = "idle" /\ late' = 0
           /\ obs' = journal.obs /\ uploaded' = journal.uploaded /\ pending' = journal.pending

\* The second file_is_settled, the two hash comparisons, and the upload of a
\* parsed export that was not uploaded before.
Recheck ==
    /\ pc = "recheck"
    /\ \/ ~file_is_settled /\ Observe /\ pc' = "save" /\ UNCHANGED <<uploaded, pending, late>>
       \/ /\ file_is_settled /\ (ChangedWhileRead \/ ChangedSilently)
          /\ pc' = "remember" /\ UNCHANGED <<stateVars, late>>
       \/ /\ file_is_settled /\ ~ChangedWhileRead /\ ~ChangedSilently
          /\ IF Len(content) < Chunks THEN Discard
             ELSE /\ pc' = "save" /\ UNCHANGED late
                  /\ obs' = [obs EXCEPT !.hash = content]
                  /\ uploaded' = content
                  /\ pending' = (uploaded # content)
    /\ UNCHANGED <<fileVars, crashes, journal, readVars>>

\* remember_content_change: the metadata and the clock of now, not of the poll.
remember_content_change == obs' = Observed(0, posted)
Remember == /\ pc = "remember" /\ pc' = "save"
            /\ remember_content_change
            /\ UNCHANGED <<fileVars, crashes, uploaded, pending, journal, late, readVars>>

Save == /\ pc = "save" /\ pc' = "idle" /\ late' = 0
        /\ journal' = [obs |-> obs, uploaded |-> uploaded, pending |-> pending]
        /\ UNCHANGED <<fileVars, crashes, stateVars, readVars>>

Crash == /\ pc # "idle" /\ crashes < MaxCrashes /\ crashes' = crashes + 1
         /\ Discard
         /\ UNCHANGED <<fileVars, journal, readVars>>

\* The broker's answer, taken up at the start of a poll.
Accepted == /\ pc = "idle" /\ pending
            /\ pending' = FALSE /\ journal' = [journal EXCEPT !.pending = FALSE]
            /\ UNCHANGED <<fileVars, crashes, obs, uploaded, pc, late, readVars>>

Poll == BeginPoll \/ CheckSettled \/ ReadChunk \/ HashChunk \/ Recheck \/ Remember \/ Save
Next == Tick \/ BeginSave \/ WriteChunk \/ RenameIn \/ StopSave \/ Poll \/ Crash \/ Accepted

\* Time passes, a save that was begun goes on (or its writer disappears), the
\* watch loop polls; the broker's answer waits until a poll finds it (SF).
Spec == /\ Init /\ [][Next]_vars
        /\ WF_vars(Tick) /\ WF_vars(WriteChunk) /\ WF_vars(Poll) /\ SF_vars(Accepted)
-----------------------------------------------------------------------------
\* The poll's locals and the observations have the types of FileObservation
\* and of upload_supernote_if_ready's locals (transport.rs 1456-1500).
TypeOK == /\ {file.chunks, content, posted, uploaded} \subseteq Bytes
          /\ obs \in Observations \cup {None} /\ journal.obs \in Observations \cup {None}
          /\ written \in 0 .. Cap /\ late \in 0 .. MaxPass
          /\ pc \in {"idle", "check", "read", "hash", "recheck", "remember", "save"}

\* What is uploaded is one save of the export, never a mixture of two or a
\* part of one, whenever the writer overtakes the reader (1457-1500).
UploadedWhole == uploaded # <<>> => Whole(uploaded)

\* An export is uploaded only if the file had really been left alone for Settle
\* before the poll began, whatever mtime it carries, less the length of the poll
\* that first saw it: that poll dates the observation by its own start (2137-2168).
UploadIsQuietStep == ~pending /\ pending' => written + MaxPass >= Settle + late
UploadIsQuiet == [][UploadIsQuietStep]_vars

\* The last save is uploaded in the end, if its writer finished it: deferrals,
\* crashes and resets of the quiet period do not go on for ever (1456-1512).
Saved == saves = MaxSaves /\ saving = None /\ Whole(file.chunks)
LastSaveUploads == Saved ~> uploaded = file.chunks
=============================================================================
