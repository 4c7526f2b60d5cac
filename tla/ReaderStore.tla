---------------------------- MODULE ReaderStore ----------------------------
(***************************************************************************)
(* The reader's SQLite store (persistence/sqlite.rs) and the settings it   *)
(* keeps (settings/mod.rs): schema migrations statement by statement,      *)
(* typed settings by scope, reading positions, and a kill between any two  *)
(* statements.  Each statement commits by itself: neither a migration with *)
(* its version nor a setting with its counter is a transaction.            *)
(***************************************************************************)
EXTENDS Integers, Sequences, FiniteSets, TLC

CONSTANTS Books, None,
          IntKeys, BoolKeys,    \* settings by the type of their default
          Ints,                 \* the integers stored
          Positions,            \* reading positions
          KillPoints,           \* the phases the process may be killed in
          MaxPuts, MaxCrashes

Keys == IntKeys \cup BoolKeys

Typed == [kind : {"Int"}, value : Ints] \cup [kind : {"Bool"}, value : BOOLEAN]

KindCode(v) == IF v.kind = "Bool" THEN 0 ELSE 1

\* to_storage: the text of the value's column
ToStorage(v) == [kind |-> KindCode(v), text |-> IF v.kind = "Bool" THEN (IF v.value THEN "1" ELSE "0") ELSE ToString(v.value)]

StoreAssumption ==
    /\ KillPoints \subseteq {"migrate", "open", "bump"}
    /\ Ints \subseteq Int /\ {MaxPuts, MaxCrashes} \subseteq Nat /\ IntKeys \cap BoolKeys = {}
    /\ \A i, j \in Ints : ToString(i) = ToString(j) => i = j
    /\ None \notin Typed \cup {ToStorage(v) : v \in Typed} \cup Nat

VARIABLES userVersion, tables,  \* the schema on disk
          rows,                 \* settings: a stored value of each scope and key
          config,               \* settings_meta.version, None before its row is there
          positions,
          phase,                \* "closed", "migrate", "open", "bump" or "failed"
          at,                   \* the statement migrate has reached
          current,              \* user_version as migrate read it
          put,                  \* what the reader last stored, by scope and key
          seen,                 \* the settings each version was loaded with
          puts, crashes,
          torn                  \* has a kill cut a migration in two?

vars == <<userVersion, tables, rows, config, positions, phase, at, current, put, seen, puts, crashes, torn>>

-----------------------------------------------------------------------------
(* Values *)

Scopes == {"global"} \cup Books

\* from_storage: a kind it does not know, or a number that is none, is nothing
FromStorage(row) ==
    CASE row.kind = 0 -> [kind |-> "Bool", value |-> row.text = "1"]
      [] row.kind = 1 /\ \E i \in Ints : ToString(i) = row.text ->
            [kind |-> "Int", value |-> CHOOSE i \in Ints : ToString(i) = row.text]
      [] OTHER -> None

\* registry::meta
Default(key) == IF key \in IntKeys THEN [kind |-> "Int", value |-> 6] ELSE [kind |-> "Bool", value |-> FALSE]

\* load_settings: the rows it can read, by scope and key
Snapshot == [s \in Scopes |-> [k \in Keys |-> IF rows[s][k] = None THEN None ELSE FromStorage(rows[s][k])]]

ResolveGlobalFirst(values, key, book) ==
    IF values["global"][key] # None THEN values["global"][key]
    ELSE IF book # None /\ values[book][key] # None THEN values[book][key] ELSE Default(key)

\* resolve: the book's value, then the global one, then the default
Resolve(values, key, book) ==
    IF book # None /\ values[book][key] # None THEN values[book][key]
    ELSE IF values["global"][key] # None THEN values["global"][key] ELSE Default(key)

\* get_int, get_bool: a value of another type counts as the default
Get(values, key, book) ==
    LET v == Resolve(values, key, book)
    IN  IF v.kind = Default(key).kind THEN v.value ELSE Default(key).value

\* flash_interval, night_flash_interval
FlashInterval(n) == IF n < 1 THEN 1 ELSE n

-----------------------------------------------------------------------------
(* Opening *)

\* MIGRATIONS, one statement after the other, each migration ending with its bump.
Statements ==
    LET S(version, does, table) == [version |-> version, does |-> does, table |-> table]
    IN  << S(1, "create", "reading_position"), S(1, "bump", None),
           S(2, "create", "settings"), S(2, "create", "settings_meta"),
           S(2, "insert", "settings_meta"), S(2, "bump", None) >>

AllTables == {"reading_position", "settings", "settings_meta"}

Init ==
    /\ \/ userVersion = 0 /\ tables = {} /\ positions = [b \in Books |-> None]
       \/ userVersion = 1 /\ tables = {"reading_position"} /\ positions \in [Books -> Positions \cup {None}]
    /\ rows = [s \in Scopes |-> [k \in Keys |-> None]] /\ config = None
    /\ phase = "closed" /\ at = 1 /\ current = 0
    /\ put = [s \in Scopes |-> [k \in Keys |-> None]]
    /\ seen = <<>> /\ puts = 0 /\ crashes = 0 /\ torn = FALSE

Open ==
    /\ phase \in {"closed", "failed"}
    /\ phase' = "migrate" /\ at' = 1 /\ current' = userVersion
    /\ UNCHANGED <<userVersion, tables, rows, config, positions, put, seen, puts, crashes, torn>>

\* CREATE TABLE and INSERT fail on what is there already.
Refused(st) ==
    \/ st.does = "create" /\ st.table \in tables
    \/ st.does = "insert" /\ config # None

NoMigration == at' = 1 /\ current' = 0

\* migrate, one statement of a version not reached yet; a refused one ends the opening.
Migrate ==
    /\ phase = "migrate"
    /\ LET st == Statements[at]
           after == IF at = Len(Statements) THEN "open" ELSE "migrate"
       IN  \/ /\ current >= st.version
              /\ phase' = after /\ UNCHANGED <<tables, config, userVersion>>
           \/ /\ current < st.version /\ Refused(st)
              /\ phase' = "failed" /\ UNCHANGED <<tables, config, userVersion>>
           \/ /\ current < st.version /\ ~Refused(st)
              /\ phase' = after
              /\ tables' = IF st.does = "create" THEN tables \cup {st.table} ELSE tables
              /\ config' = IF st.does = "insert" THEN 0 ELSE config
              /\ userVersion' = IF st.does = "bump" THEN st.version ELSE userVersion
    /\ IF phase' = "migrate" THEN at' = at + 1 /\ UNCHANGED current ELSE NoMigration
    /\ UNCHANGED <<rows, positions, put, seen, puts, crashes, torn>>

-----------------------------------------------------------------------------
(* Use *)

\* put_setting: the row, then the version; the connection's mutex is held.
PutRow(scope, key, v) ==
    /\ phase = "open" /\ puts < MaxPuts
    /\ puts' = puts + 1
    /\ rows' = [rows EXCEPT ![scope][key] = ToStorage(v)]
    /\ put' = [put EXCEPT ![scope][key] = v]
    /\ phase' = "bump"
    /\ UNCHANGED <<userVersion, tables, config, positions, at, current, seen, crashes, torn>>

BumpVersion ==
    /\ phase = "bump"
    /\ config' = config + 1 /\ phase' = "open"
    /\ UNCHANGED <<userVersion, tables, rows, positions, at, current, put, seen, puts, crashes, torn>>

\* load_settings
LoadSettings ==
    /\ phase = "open" /\ config \notin DOMAIN seen
    /\ seen' = [v \in DOMAIN seen \cup {config} |-> IF v = config THEN Snapshot ELSE seen[v]]
    /\ UNCHANGED <<userVersion, tables, rows, config, positions, phase, at, current, put, puts, crashes, torn>>

SavePosition(book, pos) ==
    /\ phase = "open"
    /\ positions' = [positions EXCEPT ![book] = pos]
    /\ UNCHANGED <<userVersion, tables, rows, config, phase, at, current, put, seen, puts, crashes, torn>>

\* The session ends: the store is dropped.
CloseStore ==
    /\ phase = "open"
    /\ phase' = "closed"
    /\ UNCHANGED <<userVersion, tables, rows, config, positions, at, current, put, seen, puts, crashes, torn>>

\* Between two statements of one migration that is to run.
InMigration ==
    /\ phase = "migrate" /\ current < Statements[at].version
    /\ at > 1 /\ Statements[at - 1].version = Statements[at].version

Crash ==
    /\ phase \in KillPoints /\ crashes < MaxCrashes
    /\ crashes' = crashes + 1 /\ phase' = "closed"
    /\ torn' = (torn \/ InMigration)
    /\ NoMigration
    /\ UNCHANGED <<userVersion, tables, rows, config, positions, put, seen, puts>>

Next ==
    \/ Open \/ Migrate \/ BumpVersion \/ LoadSettings \/ CloseStore \/ Crash
    \/ \E s \in Scopes : \E k \in Keys : \E v \in Typed : PutRow(s, k, v)
    \/ \E b \in Books : \E p \in Positions : SavePosition(b, p)

Spec == Init /\ [][Next]_vars

-----------------------------------------------------------------------------
(* Properties *)

\* The types, and that no migration is skipped: an open store has every table,
\* the row of the counter and the last schema version.
TypeOK ==
    /\ phase \in {"closed", "open", "failed", "bump", "migrate"} /\ at \in DOMAIN Statements
    /\ positions \in [Books -> Positions \cup {None}]
    /\ phase \in {"open", "bump"} => tables = AllTables /\ userVersion = 2 /\ config # None

\* The value a reader of the settings wants: its own, then everyone's, if it
\* has the type of the setting.
Wanted(key, book) ==
    LET own == IF book = None THEN None ELSE put[book][key]
        stored == IF own # None THEN own ELSE put["global"][key]
    IN  IF stored = None \/ stored.kind # Default(key).kind THEN Default(key).value ELSE stored.value

\* What the getters answer, after kills and reopenings too, is what was last
\* stored in the narrowest scope; nothing stored in another scope shows.
SettingsHold ==
    phase = "open" => \A k \in Keys : \A b \in Books \cup {None} : Get(Snapshot, k, b) = Wanted(k, b)

\* The refresh policy never gets an interval below one.
IntervalUsable == \A k \in IntKeys : \A b \in Books \cup {None} : FlashInterval(Get(Snapshot, k, b)) >= 1

\* The version of the settings names their content: two loads of the same
\* version see the same settings (settings/mod.rs, SettingsSnapshot), as long as
\* every setting stored was counted: a kill between the two statements of
\* put_setting leaves changed settings under the old version.
VersionNamesSettings ==
    phase = "open" /\ config = puts /\ config \in DOMAIN seen => seen[config] = Snapshot

\* Opening succeeds from a new file, from the file of an older version and after
\* a kill, unless the kill came between two statements of one migration: the
\* tables are there then but the version is not, and no later opening gets past
\* them, against "ordered, idempotent migration list" (sqlite.rs:4).
AlwaysOpens == phase = "failed" => torn
=============================================================================
