------------------------------ MODULE ConfigPaths ------------------------------
(***************************************************************************)
(* The folder transport's configuration: TransportConfig::load resolves    *)
(* every path against the configuration file, validate and                 *)
(* validate_config_path refuse a configuration in which two roles (a BOOX  *)
(* PDF and its temporaries, the four Supernote directories of a document,  *)
(* the checkpoint and its companions, the handoff root, the configuration  *)
(* file itself) could touch the same file, and the transport then creates  *)
(* the directories and runs until it is started again.                     *)
(*                                                                         *)
(* A path is a sequence of components; a component is a tuple whose first  *)
(* entry is a name and whose further entries are the suffixes the code     *)
(* adds to it (".name.previous.part" is <<"name", "previous">>).  The      *)
(* file system is a set of directories and a function of symbolic links,   *)
(* whose targets may be missing.  Physical is the reference: where the     *)
(* operating system ends up once every directory on the way exists.        *)
(***************************************************************************)
EXTENDS Integers, Sequences, FiniteSets, SequencesExt, FiniteSetsExt, TLC

CONSTANTS Configs,   \* the configurations tried, see TypeOK for their form
          Existing,  \* the directories that exist at first, closed upwards
          Links,     \* symbolic links: where they stand -> where they point
          Windows,   \* BOOLEAN: case-insensitive names, lexical ".."
          Lower      \* names with a lower-case spelling of another name

VARIABLES config,    \* the configuration file
          dirs,      \* directories that exist
          phase      \* "stopped", "refused", "running", "polled"

vars == <<config, dirs, phase>>

Up == <<"..">>
NoPath == <<<<"?">>>>
Default == <<<<"default">>>>
Documents == {1, 2}

----------------------------------------------------------------------------
(* Paths. *)

FoldName(c) == IF Windows /\ c[1] \in DOMAIN Lower THEN <<Lower[c[1]]>> \o Tail(c) ELSE c

platform_path_key(p) == [i \in DOMAIN p |-> FoldName(p[i])]

Parent(p) == IF p = <<>> THEN <<>> ELSE Front(p)

key_contains_path(directory, candidate) == IsPrefix(directory, candidate)

Overlap(p, q) == key_contains_path(p, q) \/ key_contains_path(q, p)

lexical_normalize(p) ==
    FoldLeft(LAMBDA acc, c : IF c = Up THEN Parent(acc) ELSE Append(acc, c), <<>>, p)

\* Windows removes ".." from the spelling before it looks at the disk.
Walked(p) == platform_path_key(IF Windows THEN lexical_normalize(p) ELSE p)

\* canonicalize: every component exists, links are followed.
Canonical(p) ==
    LET Enter(at, c) ==
            LET next == Append(at, c)
                real == IF next \in DOMAIN Links THEN Links[next] ELSE next
            IN  CASE at = NoPath -> NoPath
                  [] at # NoPath /\ c = Up -> Parent(at)
                  [] OTHER -> IF real \in dirs THEN real ELSE NoPath
    IN  FoldLeft(Enter, <<>>, Walked(p))

\* symlink_metadata: the entry itself is a link.
IsLink(p) ==
    LET w == Walked(p) IN
    /\ w # <<>> /\ Last(w) # Up
    /\ Canonical(Front(w)) # NoPath
    /\ Append(Canonical(Front(w)), Last(w)) \in DOMAIN Links

\* The longest prefix that exists, resolved; the rest is appended to it.
AncestorLength(p) == Max({k \in 0..Len(p) : Canonical(SubSeq(p, 1, k)) # NoPath})

Dangling(p) == \E k \in (AncestorLength(p) + 1)..Len(p) : IsLink(SubSeq(p, 1, k))

resolve_existing_ancestor(p) ==
    LET k == AncestorLength(p)
    IN  lexical_normalize(Canonical(SubSeq(p, 1, k)) \o SubSeq(p, k + 1, Len(p)))

\* A validation that only compares spellings.
LexicalVariants(p) == {platform_path_key(lexical_normalize(p))}

path_key_variants(p) ==
    {platform_path_key(lexical_normalize(p)), platform_path_key(resolve_existing_ancestor(p))}

path_sets_overlap(P, Q) == \E p \in P, q \in Q : Overlap(p, q)

----------------------------------------------------------------------------
(* The names a mapping reserves. *)

Suffixed(p, suffix) == Append(Front(p), Append(Last(p), suffix))

StaticSuffixes == {"compact-upload", "previous"}
Generations == {"g1"}

is_boox_temporary_for(candidate, boox) ==
    \E s \in StaticSuffixes \cup Generations : candidate = Suffixed(boox, s)

is_at_or_below_boox_temporary(candidate, boox) ==
    \E k \in 1..Len(candidate) : is_boox_temporary_for(SubSeq(candidate, 1, k), boox)

boox_paths_conflict(left, right) ==
    \/ left = right
    \/ is_at_or_below_boox_temporary(left, right)
    \/ is_at_or_below_boox_temporary(right, left)

boox_mapping_overlaps_path(boox, other) ==
    \/ Overlap(boox, other)
    \/ \E s \in StaticSuffixes : Overlap(Suffixed(boox, s), other)
    \/ is_at_or_below_boox_temporary(other, boox)

boox_overlaps(P, Q) == \E p \in P, q \in Q : boox_mapping_overlaps_path(p, q)

state_reserved_paths(p) == {p} \cup {Suffixed(p, s) : s \in {"next", "prev", "lock"}}

supernote_acknowledged_directory(incoming) == Append(Parent(incoming), <<"acknowledged">>)

supernote_accepted_directory(export) == Append(Parent(export), <<".inkbridge-accepted">>)

----------------------------------------------------------------------------
(* TransportConfig::load.  Relative paths are resolved against the         *)
(* directory of the configuration file, an absent statePath gets its       *)
(* default beside it.                                                      *)

resolve_path(path) ==
    IF path.relative THEN Parent(config.file) \o path.parts ELSE path.parts

StatePath ==
    IF config.state.parts = Default THEN Append(Parent(config.file), <<"folder-state">>)
    ELSE resolve_path(config.state)

HandoffRoot == resolve_path(config.root)

HasRoot == config.root.parts # NoPath

Boox(d) == resolve_path(config.boox[d])

Directories(d) ==
    LET export == resolve_path(config.export[d])
        incoming == resolve_path(config.incoming[d])
    IN  [outgoing |-> export, incoming |-> incoming,
         acknowledged |-> supernote_acknowledged_directory(incoming),
         accepted |-> supernote_accepted_directory(export)]

Directions == {"outgoing", "incoming", "acknowledged", "accepted"}

AllDirectories == {<<d, dir>> : d \in Documents, dir \in Directions}

DirectoryPath(x) == Directories(x[1])[x[2]]

MappedPaths ==
    {Boox(d) : d \in Documents} \cup {DirectoryPath(x) : x \in AllDirectories}
    \cup state_reserved_paths(StatePath) \cup {config.file}
    \cup (IF HasRoot THEN {HandoffRoot} ELSE {})

StateKeys == UNION {path_key_variants(p) : p \in state_reserved_paths(StatePath)}

resolvable == \A p \in MappedPaths : ~Dangling(p)

reject_leaf_symlinks ==
    /\ \A d \in Documents : ~IsLink(Boox(d))
    /\ HasRoot => ~IsLink(HandoffRoot)

\* The Supernote directories, and the BOOX files, with the keys compared.
DirectoryKeys == {[of |-> x, keys |-> path_key_variants(DirectoryPath(x))] : x \in AllDirectories}

BooxKeys == {[of |-> d, keys |-> path_key_variants(Boox(d))] : d \in Documents}

boox_conflicts(P, Q) == \E p \in P, q \in Q : boox_paths_conflict(p, q)

validate ==
    LET directories == DirectoryKeys
        booxes == BooxKeys
        state == StateKeys
        root == path_key_variants(HandoffRoot)
    IN
    /\ config.sound
    /\ reject_leaf_symlinks
    /\ HasRoot =>
         /\ ~path_sets_overlap(root, state)
         /\ \A b \in booxes : ~boox_conflicts(root, b.keys)
         /\ \A x \in directories : ~boox_overlaps(root, x.keys)
    /\ \A b, c \in booxes : b.of # c.of => ~boox_conflicts(b.keys, c.keys)
    /\ \A b \in booxes :
         /\ ~boox_overlaps(b.keys, state)
         /\ \A x \in directories : ~boox_overlaps(b.keys, x.keys)
    /\ \A x \in directories :
         /\ ~path_sets_overlap(x.keys, state)
         /\ \A y \in directories : x.of # y.of => ~path_sets_overlap(x.keys, y.keys)

validate_config_path ==
    LET own == path_key_variants(config.file) IN
    /\ ~path_sets_overlap(own, StateKeys)
    /\ HasRoot => ~path_sets_overlap(own, path_key_variants(HandoffRoot))
    /\ \A b \in BooxKeys : ~boox_overlaps(b.keys, own)
    /\ \A x \in DirectoryKeys : ~path_sets_overlap(own, x.keys)

load == resolvable /\ validate /\ validate_config_path

----------------------------------------------------------------------------
(* The process: started, it loads; running, it polls and creates what it   *)
(* needs; it may be stopped and started again.                             *)

Physical(p) ==
    FoldLeft(LAMBDA at, c :
                LET next == Append(at, c)
                IN  IF c = Up THEN Parent(at)
                    ELSE IF next \in DOMAIN Links THEN Links[next] ELSE next,
             <<>>, Walked(p))

\* Every directory on the way is made.
create_dir_all(p) == {Physical(SubSeq(Walked(p), 1, k)) : k \in 0..Len(Walked(p))}

Init ==
    /\ config \in Configs
    /\ dirs = Existing
    /\ phase = "stopped"

Start ==
    /\ phase = "stopped"
    /\ phase' = IF load THEN "running" ELSE "refused"
    /\ UNCHANGED <<config, dirs>>

Poll ==
    /\ phase = "running"
    /\ dirs' = dirs \cup UNION {create_dir_all(DirectoryPath(x)) : x \in AllDirectories}
                    \cup UNION {create_dir_all(Parent(Boox(d))) : d \in Documents}
                    \cup create_dir_all(Parent(StatePath))
    /\ phase' = "polled"
    /\ UNCHANGED config

Stop ==
    /\ phase = "polled"
    /\ phase' = "stopped"
    /\ UNCHANGED <<config, dirs>>

Next == Start \/ Poll \/ Stop

Spec == Init /\ [][Next]_vars /\ WF_vars(Next)

----------------------------------------------------------------------------
(* Properties. *)

\* Paths of the configuration are spelled or absent, the phase is one of the
\* process's four.
TypeOK ==
    /\ phase \in {"stopped", "refused", "running", "polled"}
    /\ config.sound \in BOOLEAN
    /\ <<>> \in dirs
    /\ \A p \in dirs : Parent(p) \in dirs

\* The files a BOOX mapping writes: the PDF and its temporaries.  With a
\* handoff root the transport leaves the legacy PDF alone.
BooxFiles(d) ==
    IF HasRoot THEN {}
    ELSE {Physical(Boox(d))}
         \cup {Physical(Suffixed(Boox(d), s)) : s \in StaticSuffixes \cup Generations}

Touches(role) ==
    CASE role[1] = "boox"  -> BooxFiles(role[2])
      [] role[1] = "dir"   -> {Physical(DirectoryPath(role[2]))}
      [] role[1] = "state" -> {Physical(p) : p \in state_reserved_paths(StatePath)}
      [] role[1] = "file"  -> {Physical(config.file)}
      [] role[1] = "root"  -> IF HasRoot THEN {Physical(HandoffRoot)} ELSE {}

Roles ==
    {<<"boox", d>> : d \in Documents} \cup {<<"dir", x>> : x \in AllDirectories}
    \cup {<<"state", 0>>, <<"file", 0>>, <<"root", 0>>}

Footprints == {[role |-> r, files |-> Touches(r)] : r \in Roles}

Clash(f, g) ==
    \E p \in f.files, q \in g.files :
        IF f.role[1] = "boox" /\ g.role[1] = "boox" THEN p = q ELSE Overlap(p, q)

\* A running transport never lets two roles reach the same file or
\* directory, whatever links, "..", spelling or missing directories the
\* configuration uses (model.rs validate and validate_config_path).
RolesKeepApart ==
    phase \in {"running", "polled"} =>
        LET prints == Footprints
        IN  \A f, g \in prints : f.role # g.role => ~Clash(f, g)

\* The directories the transport creates never turn a configuration it
\* accepted into one it refuses when it is started again.
StartsAgain == phase = "polled" => load
=============================================================================
