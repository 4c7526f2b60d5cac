------------------------------- MODULE MCFiles ------------------------------
(***************************************************************************)
(* The parts of the folder transport that rest on the file system: its     *)
(* configuration, its journal, the installation of a local PDF, which is   *)
(* the module extended here, and the view cache. A behaviour follows one   *)
(* instance, the scenario; the variables of the other modules are Parked,  *)
(* those of a module it EXTENDS at rest.                                   *)
(***************************************************************************)
EXTENDS Integers, Sequences, SequencesExt, LocalInstall

CONSTANTS Scenarios, Parked, None,
          e0, j1, j2, absent, torn,      \* journals
          p1, p2                         \* publishers

VARIABLES scenario,   \* the instance a behaviour follows
          path, previous, next, mem, hadCurrent,
          pinned, holder, docDir, entry, possible, viewFiles, synced, detached, deaths,
          losses, failures,
          config, dirs, phase,
          step

journalVars == <<path, previous, next, mem, hadCurrent>>
cacheVars == <<pinned, holder, docDir, entry, possible, viewFiles, synced, detached,
              deaths, losses, failures>>
configVars == <<config, dirs, phase>>
suiteVars == <<scenario, journalVars, cacheVars, configVars, vars, step>>

(* An ordinary configuration of two documents in which one or two roles are given *)
(* another path: through a link, through a link whose target is missing, with "..", *)
(* in another spelling, relative to the configuration file, or at a reserved name. *)
P(names) == [i \in DOMAIN names |-> <<names[i]>>]
Abs(names) == [relative |-> FALSE, parts |-> P(names)]
Rel(names) == [relative |-> TRUE, parts |-> P(names)]
Beside(names, suffix) ==
    [relative |-> FALSE, parts |-> Append(Front(P(names)), Append(Last(P(names)), suffix))]

ExistingDirs == {<<>>, P(<<"d">>), P(<<"d", "cfg">>), P(<<"d", "b">>), P(<<"d", "real">>)}
SymLinks == (P(<<"d", "link">>) :> P(<<"d", "real">>)) @@ (P(<<"d", "gone">>) :> P(<<"d", "later">>))
            @@ (P(<<"d", "b", "leaf">>) :> P(<<"d", "b">>))
LowerCase == ("REAL" :> "real") @@ ("One" :> "one")

Base ==
    [sound |-> TRUE,
     file |-> P(<<"d", "cfg", "config">>),
     state |-> Rel(<<"default">>),
     root |-> Abs(<<"?">>),
     boox |-> (1 :> Abs(<<"d", "b", "one">>) @@ 2 :> Abs(<<"d", "b", "two">>)),
     export |-> (1 :> Abs(<<"d", "s1", "out">>) @@ 2 :> Rel(<<"..", "s2", "out">>)),
     incoming |-> (1 :> Abs(<<"d", "s1", "in">>) @@ 2 :> Abs(<<"d", "s2", "in">>))]

Candidates ==
    {Abs(<<"d", "real", "x">>), Abs(<<"d", "REAL", "x">>), Abs(<<"d", "link", "x">>),
     Abs(<<"d", "link", "..", "real", "x">>), Abs(<<"d", "miss", "..", "real", "x">>),
     Rel(<<"..", "real">>), Abs(<<"d", "gone", "x">>), Abs(<<"d", "later", "x">>),
     Abs(<<"d", "b", "leaf">>), Abs(<<"d", "b", "One">>),
     Beside(<<"d", "b", "one">>, "previous"), Beside(<<"d", "b", "one">>, "g1"),
     Beside(<<"d", "cfg", "folder-state">>, "next"),
     Abs(<<"d", "s1", "acknowledged">>), Abs(<<"d", "s2">>), Rel(<<"nest", "x">>)}

\* One role of a configuration given another path.
With(c, role, to) ==
    CASE role = "state"  -> [c EXCEPT !.state = to]
      [] role = "root"   -> [c EXCEPT !.root = to]
      [] role = "file"   -> IF to.relative THEN c ELSE [c EXCEPT !.file = to.parts]
      [] role = "boox1"  -> [c EXCEPT !.boox[1] = to]
      [] role = "boox2"  -> [c EXCEPT !.boox[2] = to]
      [] role = "out1"   -> [c EXCEPT !.export[1] = to]
      [] role = "out2"   -> [c EXCEPT !.export[2] = to]
      [] role = "in1"    -> [c EXCEPT !.incoming[1] = to]

RolePairs == ({"boox1", "out1"} \X {"boox2", "out2", "state", "root", "file"})
             \cup {<<"out1", "in1">>, <<"state", "file">>, <<"root", "state">>, <<"root", "file">>}

AnyConfigs ==
    {With(With(Base, r[1], p), r[2], q) : r \in RolePairs, p \in Candidates, q \in Candidates}
    \cup {[Base EXCEPT !.sound = FALSE]}

\* The pairs whose roles are compared by the spelling of their names too.
SpelledConfigs ==
    {With(With(Base, r[1], p), r[2], q) : p \in Candidates, q \in Candidates,
        r \in {<<"boox1", "boox2">>, <<"boox1", "out2">>, <<"out1", "state">>, <<"root", "file">>}}

Journal == INSTANCE StateFile
    WITH States <- {e0, j1, j2}, Empty <- e0, Missing <- absent, Torn <- torn, pc <- step
\* two publishers that bring the same bytes, also when a call fails, and two that do not
Agreed == INSTANCE SpreadCache
    WITH Procs <- {p1, p2}, Bytes <- [p \in {p1, p2} |-> "x"], MaxDirs <- 3,
         MaxDeaths <- 1, MaxLosses <- 1, MaxErrors <- 0, MaxDetaches <- 0, pc <- step,
         errors <- failures, files <- viewFiles
Failing == INSTANCE SpreadCache
    WITH Procs <- {p1, p2}, Bytes <- [p \in {p1, p2} |-> "x"], MaxDirs <- 2,
         MaxDeaths <- 1, MaxLosses <- 1, MaxErrors <- 1, MaxDetaches <- 0, pc <- step,
         errors <- failures, files <- viewFiles
Rival == INSTANCE SpreadCache
    WITH Procs <- {p1, p2}, Bytes <- (p1 :> "x") @@ (p2 :> "y"), MaxDirs <- 2,
         MaxDeaths <- 1, MaxLosses <- 1, MaxErrors <- 0, MaxDetaches <- 1, pc <- step,
         errors <- failures, files <- viewFiles
UnixPaths == INSTANCE ConfigPaths
    WITH Configs <- AnyConfigs, Existing <- ExistingDirs, Links <- SymLinks,
         Lower <- LowerCase, Windows <- FALSE
WinPaths == INSTANCE ConfigPaths
    WITH Configs <- SpelledConfigs, Existing <- ExistingDirs, Links <- SymLinks,
         Lower <- LowerCase, Windows <- TRUE

ASSUME Journal!StateAssumption /\ InstallAssumption /\ Agreed!SpreadCacheAssumption
       /\ Failing!SpreadCacheAssumption /\ Rival!SpreadCacheAssumption

NoJournal == path = Parked /\ previous = Parked /\ next = Parked /\ mem = Parked
          /\ hadCurrent = Parked
NoCache == pinned = Parked /\ holder = Parked /\ docDir = Parked /\ entry = Parked
        /\ possible = Parked /\ viewFiles = Parked /\ synced = Parked /\ detached = Parked
        /\ deaths = Parked /\ losses = Parked /\ failures = Parked
NoConfig == config = Parked /\ dirs = Parked /\ phase = Parked

\* The extended module at rest, while another is followed.
Resting == windows = FALSE /\ Init

SuiteInit ==
    /\ scenario \in Scenarios
    /\ \/ scenario = "journal" /\ Journal!Init /\ NoCache /\ NoConfig /\ Resting
       \/ scenario = "install" /\ Init /\ step = Parked /\ NoJournal /\ NoCache /\ NoConfig
       \/ scenario = "agreed" /\ Agreed!Init /\ NoJournal /\ NoConfig /\ Resting
       \/ scenario = "failing" /\ Failing!Init /\ NoJournal /\ NoConfig /\ Resting
       \/ scenario = "rival" /\ Rival!Init /\ NoJournal /\ NoConfig /\ Resting
       \/ scenario = "unixPaths" /\ UnixPaths!Init /\ step = Parked /\ NoJournal /\ NoCache
          /\ Resting
       \/ scenario = "windowsPaths" /\ WinPaths!Init /\ step = Parked /\ NoJournal
          /\ NoCache /\ Resting

SuiteNext ==
    /\ UNCHANGED scenario
    /\ \/ scenario = "journal" /\ Journal!Next /\ UNCHANGED <<vars, cacheVars, configVars>>
       \/ scenario = "install" /\ Next /\ UNCHANGED <<step, journalVars, cacheVars, configVars>>
       \/ scenario = "agreed" /\ Agreed!Next /\ UNCHANGED <<journalVars, vars, configVars>>
       \/ scenario = "failing" /\ Failing!Next /\ UNCHANGED <<journalVars, vars, configVars>>
       \/ scenario = "rival" /\ Rival!Next /\ UNCHANGED <<journalVars, vars, configVars>>
       \/ /\ scenario = "unixPaths" /\ UnixPaths!Next
          /\ UNCHANGED <<step, journalVars, vars, cacheVars>>
       \/ /\ scenario = "windowsPaths" /\ WinPaths!Next
          /\ UNCHANGED <<step, journalVars, vars, cacheVars>>

SuiteSpec == SuiteInit /\ [][SuiteNext]_suiteVars
-----------------------------------------------------------------------------
\* SpreadCache: what is published is one whole, lasting pair.
\*   - NoMixedPair: the published name never holds an incomplete or mixed PDF
\*     and sidecar, whoever dies and whenever the power goes.
\*   - AnswerIsDurable: what a publisher was told is published is on the
\*     disk.
\*   - AgreedSucceeds: a publisher that brings the bytes all others bring
\*     succeeds when nothing but deaths and losses of power stood in its way.
\*   - PublishedIsImmutable: a published view is never changed or replaced,
\*     unless the user removed it.
PublishedPairs ==
    /\ [](/\ scenario = "agreed" => Agreed!NoMixedPair /\ Agreed!AnswerIsDurable
                                    /\ Agreed!AgreedSucceeds
          /\ scenario = "failing" => Failing!NoMixedPair /\ Failing!AnswerIsDurable
          /\ scenario = "rival" => Rival!NoMixedPair /\ Rival!AnswerIsDurable)
    /\ [][/\ scenario = "agreed" => Agreed!PublishedIsImmutableStep
          /\ scenario = "failing" => Failing!PublishedIsImmutableStep
          /\ scenario = "rival" => Rival!PublishedIsImmutableStep]_suiteVars

\* ConfigPaths: an accepted configuration stays safe and stays accepted.
\*   - RolesKeepApart: a running transport never lets two roles reach the
\*     same file, whatever links, "..", spelling or missing directories the
\*     configuration uses.
\*   - StartsAgain: the directories the transport creates never turn a
\*     configuration it accepted into one it refuses.
RolesKeepApart ==
    /\ scenario = "unixPaths" => UnixPaths!RolesKeepApart /\ UnixPaths!StartsAgain
    /\ scenario = "windowsPaths" => WinPaths!RolesKeepApart /\ WinPaths!StartsAgain

\* StateFile: save and load implement one atomic durable journal, whatever
\* call fails and wherever the process dies.
AtomicJournal ==
    /\ scenario = "journal" => Journal!Checkpoint!Init
    /\ [][scenario = "journal" => [Journal!Checkpoint!Next]_(Journal!Checkpoint!cvars)]_suiteVars
=============================================================================
