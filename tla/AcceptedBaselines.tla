--------------------------- MODULE AcceptedBaselines ---------------------------
(***************************************************************************)
(* The Supernote baselines of the folder transport.  Every poll rebuilds,  *)
(* from the immutable uploads in the cloud, the newest accepted snapshot   *)
(* of every set of pages; keeps each as a file named by its identity, its  *)
(* revision and its hash; splits the snapshots of which only some pages    *)
(* are still the newest; and journals the files that remain.  A BOOX edit  *)
(* is compared with exactly those files.                                   *)
(*                                                                         *)
(* A payload is a sequence of pages with the ink written on them, and      *)
(* stands for its own hash.  The cache may be damaged between any two      *)
(* steps, a download may fail, the transport may die; a second transport   *)
(* may have uploaded the same pages under the same revision.               *)
(***************************************************************************)
EXTENDS Integers, Sequences, FiniteSets, SequencesExt, FiniteSetsExt

CONSTANTS None,        \* no value
          Texts,       \* the native export files the device can write
          MaxUploads,  \* bound on uploads
          MaxRivals,   \* bound on uploads of another transport
          MaxDamage,   \* bound on damage to the cache
          MaxFaults    \* bound on failed downloads and crashes

VARIABLES uploads,     \* the objects in the cloud, in the order of arrival
          frontier,    \* the Supernote revision the broker has accepted
          cache,       \* the accepted-snapshot directory: path -> bytes
          journal,     \* checkpoint: accepted_local_hashes and its revision
          pc,          \* what the transport is doing
          accepted,    \* recovery: the newest upload of every identity
          jobs,        \* recovery: the snapshots still to be installed
          job,         \* recovery: the one being installed
          keep,        \* recovery: the files of the new journal
          built,       \* manifest builder: what it read
          sent,        \* the baselines of the last manifest uploaded
          left         \* what remains of the bounds

vars == <<uploads, frontier, cache, journal, pc, accepted, jobs, job, keep, built, sent, left>>

Garbage == <<>>

----------------------------------------------------------------------------
(* Exports. *)

\* parse_baseline_text: one page or a batch, never both, never a page twice.
Repeats(pages) == ~IsInjective(pages)

Parses(t) ==
    /\ t.schema \in {None, "1", "2"}
    /\ \/ t.form = "page" /\ Len(t.pages) = 1
       \/ /\ t.form = "pages"
          /\ t.schema = "1"
          /\ t.pages # <<>>
    /\ ~Repeats(t.pages)

Ordered(pages) == SortSeq(pages, LAMBDA a, b : a < b)

\* Sorting the pages of an export loses and doubles none.
BaselineAssumption ==
    /\ {MaxUploads, MaxRivals, MaxDamage, MaxFaults} \subseteq Nat
    /\ \A t \in Texts : Parses(t) =>
          Ordered(t.pages) \in Seq(Nat) \ {<<>>} /\ IsInjective(Ordered(t.pages))

\* The parsed export, its pages in order; `ink' tells this export's strokes.
Payload(t, ink) ==
    LET order == Ordered(t.pages)
    IN  [i \in DOMAIN order |-> [page |-> order[i], ink |-> <<ink, i>>]]

PagesOf(payload) == {payload[i].page : i \in DOMAIN payload}

\* snapshot_identity: the set of represented pages, from the object's
\* metadata, or from the payload of an object older than the metadata.
object_page_indices(u) == IF u.legacy THEN None ELSE "stated"

SourceIdentity(u) == IF object_page_indices(u) = None THEN PagesOf(u.payload) ELSE u.pages

\* serialize_baseline_page: one page as a snapshot of its own.
serialize_baseline_page(entry) == <<entry>>

accepted_snapshot_path(identity, rev, hash) == [id |-> identity, rev |-> rev, hash |-> hash]

----------------------------------------------------------------------------
(* The device, the broker and the other transport. *)

Pending == \E i \in DOMAIN uploads : uploads[i].rev = frontier + 1

Upload(t, legacy) ==
    /\ left.uploads > 0
    /\ Parses(t)
    /\ ~Pending
    /\ LET payload == Payload(t, Len(uploads) + 1)
       IN  uploads' = Append(uploads, [rev |-> frontier + 1, legacy |-> legacy,
                                       pages |-> PagesOf(payload), payload |-> payload,
                                       won |-> TRUE])
    /\ left' = [left EXCEPT !.uploads = @ - 1]
    /\ UNCHANGED <<frontier, cache, journal, pc, accepted, jobs, job, keep, built, sent>>

\* Another transport uploads the same pages under a revision already taken.
Rival(i) ==
    /\ left.rivals > 0
    /\ LET ink == Len(uploads) + 1
           u == uploads[i]
       IN  uploads' = Append(uploads, [u EXCEPT !.won = FALSE,
                                !.payload = [k \in DOMAIN u.payload |-> [u.payload[k] EXCEPT !.ink[1] = ink]]])
    /\ left' = [left EXCEPT !.rivals = @ - 1]
    /\ UNCHANGED <<frontier, cache, journal, pc, accepted, jobs, job, keep, built, sent>>

BrokerAccepts ==
    /\ Pending
    /\ frontier' = frontier + 1
    /\ UNCHANGED <<uploads, cache, journal, pc, accepted, jobs, job, keep, built, sent, left>>

Damage(path) ==
    /\ left.damage > 0
    /\ \/ cache' = [cache EXCEPT ![path] = Garbage]
       \/ cache' = [p \in DOMAIN cache \ {path} |-> cache[p]]
    /\ left' = [left EXCEPT !.damage = @ - 1]
    /\ UNCHANGED <<uploads, frontier, journal, pc, accepted, jobs, job, keep, built, sent>>

----------------------------------------------------------------------------
(* Recovery. *)

Reset ==
    /\ pc' = "idle"
    /\ accepted' = {} /\ jobs' = {} /\ job' = None /\ keep' = {} /\ built' = {}

Listed(rev) == {i \in DOMAIN uploads : uploads[i].rev <= rev}

SameIdentity(i, j) == SourceIdentity(uploads[i]) = SourceIdentity(uploads[j])

Competes(i, j) ==
    /\ i # j /\ SameIdentity(i, j)
    /\ uploads[i].rev = uploads[j].rev
    /\ uploads[i].payload # uploads[j].payload

\* The newest accepted upload of every identity.
Newest(rev) ==
    {i \in Listed(rev) : \A j \in Listed(rev) :
        SameIdentity(i, j) => uploads[j].rev < uploads[i].rev \/ (uploads[j].rev = uploads[i].rev /\ j <= i)}

AsJob(i) == [id |-> SourceIdentity(uploads[i]), rev |-> uploads[i].rev, bytes |-> uploads[i].payload]

PathOf(j) == accepted_snapshot_path(j.id, j.rev, j.bytes)

\* recover_acknowledged_uploads lists the cloud.  Two payloads of the newest
\* revision of an identity are refused; two of an older one only when the
\* listing shows them one after the other, and otherwise never matter.
BeginRecovery ==
    /\ pc = "idle"
    /\ frontier > 0
    /\ \A i \in Newest(frontier), j \in Listed(frontier) : ~Competes(i, j)
    /\ accepted' = Newest(frontier)
    /\ jobs' = {AsJob(i) : i \in Newest(frontier)}
    /\ pc' = "ensure"
    /\ UNCHANGED <<uploads, frontier, cache, journal, job, keep, built, sent, left>>

Done(j) ==
    /\ keep' = keep \cup {PathOf(j)}
    /\ jobs' = jobs \ {j}

\* ensure_supernote_accepted_snapshot and persist_snapshot_bytes: a good file
\* stays, a bad one is discarded, and an absent one is to be installed.
Inspect(j) ==
    /\ pc \in {"ensure", "split"}
    /\ job = None
    /\ IF PathOf(j) \in DOMAIN cache /\ cache[PathOf(j)] = j.bytes
       THEN Done(j) /\ UNCHANGED <<cache, job>>
       ELSE /\ cache' = [p \in DOMAIN cache \ {PathOf(j)} |-> cache[p]]
            /\ job' = [of |-> j, published |-> FALSE]
            /\ UNCHANGED <<keep, jobs>>
    /\ UNCHANGED <<uploads, frontier, journal, pc, accepted, built, sent, left>>

Install ==
    /\ job # None
    /\ ~job.published
    /\ cache' = [p \in DOMAIN cache \cup {PathOf(job.of)} |->
                    IF p = PathOf(job.of) THEN job.of.bytes ELSE cache[p]]
    /\ job' = [job EXCEPT !.published = TRUE]
    /\ UNCHANGED <<uploads, frontier, journal, pc, accepted, jobs, keep, built, sent, left>>

Installed(j) == PathOf(j) \in DOMAIN cache /\ cache[PathOf(j)] = j.bytes

VerifyInstalled ==
    /\ job # None
    /\ job.published
    /\ IF Installed(job.of)
       THEN Done(job.of) /\ job' = None /\ UNCHANGED <<pc, accepted, built>>
       ELSE Reset
    /\ UNCHANGED <<uploads, frontier, cache, journal, sent, left>>

\* materialize_non_overlapping_baselines: the newest snapshot of each page.
Readable == \A i \in accepted : Installed(AsJob(i))

Selected(i, page) == \A k \in accepted : page \in PagesOf(uploads[k].payload) => uploads[k].rev <= uploads[i].rev

Competing ==
    \E i, k \in accepted : \E page \in PagesOf(uploads[i].payload) \cap PagesOf(uploads[k].payload) :
        i # k /\ uploads[i].rev = uploads[k].rev

SelectedEntries(i) == {n \in DOMAIN uploads[i].payload : Selected(i, uploads[i].payload[n].page)}

\* A snapshot with a page still current is kept whole.
KeepWhole(i) == SelectedEntries(i) # {}

Whole(i) == SelectedEntries(i) = DOMAIN uploads[i].payload

Splits(i) ==
    {[id |-> {uploads[i].payload[n].page}, rev |-> uploads[i].rev,
      bytes |-> serialize_baseline_page(uploads[i].payload[n])] : n \in SelectedEntries(i)}

Materialize ==
    /\ pc = "ensure" /\ jobs = {} /\ job = None
    /\ IF Readable /\ ~Competing
       THEN /\ keep' = {PathOf(AsJob(i)) : i \in {k \in accepted : Whole(k)}}
            /\ jobs' = UNION {Splits(i) : i \in {k \in accepted : ~Whole(k)}}
            /\ pc' = "split"
            /\ UNCHANGED <<accepted, job, built>>
       ELSE Reset
    /\ UNCHANGED <<uploads, frontier, cache, journal, sent, left>>

\* The checkpoint of the poll: the files of accepted_local_hashes.
SaveJournal ==
    /\ pc = "split" /\ jobs = {} /\ job = None
    /\ journal' = [files |-> keep, rev |-> Max({uploads[i].rev : i \in accepted})]
    /\ Reset
    /\ UNCHANGED <<uploads, frontier, cache, sent, left>>

\* A download fails, or the transport dies: the next poll starts again.
Fault ==
    /\ left.faults > 0
    /\ pc # "idle"
    /\ left' = [left EXCEPT !.faults = @ - 1]
    /\ Reset
    /\ UNCHANGED <<uploads, frontier, cache, journal, sent>>

----------------------------------------------------------------------------
(* upload_legacy_boox_if_ready: the accepted files are checked, read by    *)
(* the manifest builder, and checked again before the manifest leaves.     *)

Intact(path) == path \in DOMAIN cache /\ cache[path] = path.hash

validate_unique_baseline_pages(files) ==
    \A p, q \in files : p # q => PagesOf(p.hash) \cap PagesOf(q.hash) = {}

BeginBuild ==
    /\ pc = "idle"
    /\ journal.files # {}
    /\ \A p \in journal.files : Intact(p)
    /\ validate_unique_baseline_pages(journal.files)
    /\ pc' = "build"
    /\ UNCHANGED <<uploads, frontier, cache, journal, accepted, jobs, job, keep, built, sent, left>>

Build ==
    /\ pc = "build"
    /\ IF \A p \in journal.files : p \in DOMAIN cache
       THEN built' = {cache[p] : p \in journal.files} /\ pc' = "built" /\ UNCHANGED <<accepted, jobs, job, keep>>
       ELSE Reset
    /\ UNCHANGED <<uploads, frontier, cache, journal, sent, left>>

Send ==
    /\ pc = "built"
    /\ sent' = IF \A p \in journal.files : Intact(p)
               THEN [contents |-> built, rev |-> journal.rev] ELSE sent
    /\ Reset
    /\ UNCHANGED <<uploads, frontier, cache, journal, left>>

----------------------------------------------------------------------------
Init ==
    /\ uploads = <<>> /\ frontier = 0
    /\ cache = [p \in {} |-> Garbage]
    /\ journal = [files |-> {}, rev |-> 0]
    /\ pc = "idle" /\ accepted = {} /\ jobs = {} /\ job = None /\ keep = {} /\ built = {}
    /\ sent = [contents |-> {}, rev |-> 0]
    /\ left = [uploads |-> MaxUploads, rivals |-> MaxRivals, damage |-> MaxDamage, faults |-> MaxFaults]

Recovery ==
    \/ BeginRecovery \/ (\E j \in jobs : Inspect(j)) \/ Install \/ VerifyInstalled
    \/ Materialize \/ SaveJournal

Next ==
    \/ \E t \in Texts, legacy \in BOOLEAN : Upload(t, legacy)
    \/ \E i \in DOMAIN uploads : Rival(i)
    \/ BrokerAccepts
    \/ \E path \in DOMAIN cache : Damage(path)
    \/ Recovery \/ Fault \/ BeginBuild \/ Build \/ Send

\* The transport polls for ever and the broker handles what it is sent.
Spec == Init /\ [][Next]_vars /\ WF_vars(BrokerAccepts)
             /\ SF_vars(BeginRecovery) /\ WF_vars(Recovery) /\ WF_vars(Build \/ Send)

----------------------------------------------------------------------------
(* Properties. *)

\* A recovery works on uploads the broker's frontier covers; a file to be
\* installed is named after its own bytes.
TypeOK ==
    /\ pc \in {"idle", "ensure", "split", "build", "built"}
    /\ frontier \in 0..Len(uploads)
    /\ accepted \subseteq Listed(frontier)
    /\ \A p \in DOMAIN cache : cache[p] \in {p.hash, Garbage}
    /\ pc = "idle" => jobs = {} /\ job = None

\* The ink the broker holds for a page at a revision: that of the newest
\* upload it accepted for the page.
CanonicalEntry(page, rev) ==
    LET of == {i \in Listed(rev) : uploads[i].won /\ page \in PagesOf(uploads[i].payload)}
        newest == CHOOSE i \in of : \A k \in of : uploads[k].rev <= uploads[i].rev
    IN  CHOOSE e \in Range(uploads[newest].payload) : e.page = page

CanonicalPages(rev) ==
    UNION {PagesOf(uploads[i].payload) : i \in {k \in Listed(rev) : uploads[k].won}}

\* A set of payloads is the canonical one: every page once, with its newest ink.
Represents(payloads, rev) ==
    /\ UNION {Range(p) : p \in payloads} = {CanonicalEntry(page, rev) : page \in CanonicalPages(rev)}
    /\ \A p, q \in payloads : p # q => PagesOf(p) \cap PagesOf(q) = {}

\* The journalled baselines are exactly the ink the broker accepted, page by
\* page, however batches and single pages superseded each other and whoever
\* else uploaded (supernote_snapshot.rs materialize_non_overlapping_baselines).
JournalIsCanonical == Represents({p.hash : p \in journal.files}, journal.rev)

\* A manifest is only ever built from those bytes, although the files may be
\* damaged at any moment between recovery, checking, building and sending.
SentIsCanonical == Represents(sent.contents, sent.rev)

\* Whatever is accepted is journalled in the end: damage, failed downloads and
\* crashes only delay it.  (A rival under the newest revision stops recovery,
\* as the code intends, so this is checked without rivals.)
BaselinesCatchUp == \A n \in 1..MaxUploads : (frontier = n) ~> (journal.rev >= n)
=============================================================================
