----------------------------- MODULE EinkPolicy -----------------------------
(***************************************************************************)
(* The e-ink refresh policy (reader-core/policy/eink_policy.rs), the wire  *)
(* that carries its commands to the shell and the device's capabilities    *)
(* back (device-eink), and the panel that executes them.  A byte is a      *)
(* number, a field of several bytes one element.                           *)
(***************************************************************************)
EXTENDS Integers, Sequences, FiniteSets

CONSTANTS Profiles,      \* the flag sequences adapters advertise
          Sent,          \* how many of its flags a shell sends
          Screen, Regions,
          Intervals      \* configured page turns between flashes

FlagCount == 12

PolicyAssumption ==
    /\ \A f \in Profiles : f \in [1 .. FlagCount -> BOOLEAN]
    /\ Sent \subseteq 1 .. FlagCount /\ Intervals \subseteq Nat

VARIABLES caps, interval, nightInterval, avoid,    \* fixed for a policy
          partialCount, nightPartialCount, night,
          moving,      \* is a finger scrolling?
          panel        \* what the panel shows: see Fresh

policy == <<caps, interval, nightInterval, avoid>>
vars == <<policy, partialCount, nightPartialCount, night, moving, panel>>

-----------------------------------------------------------------------------
(* The wire *)

Version == 1

\* DeviceCapabilities: the flags the policy reads, by declaration order.
FromFlags(flags) ==
    LET g(i) == i \in DOMAIN flags /\ flags[i]
    IN  [einkFull |-> g(2), fastMode |-> g(4), regional |-> g(5)]

EncodeCapabilities(flags) == <<Version, Len(flags)>> \o flags

DecodeCapabilities(bytes) == FromFlags(SubSeq(bytes, 3, 2 + bytes[2]))

IntentCodes == <<"Full", "Partial", "Ui", "Fast", "FlashUi", "FlashPartial">>

IntentFromCode(code) == IntentCodes[code + 1]

IntentCode(intent) == CHOOSE c \in 0 .. 5 : IntentFromCode(c) = intent

Tags == <<"Update", "WaitForLast", "EnterFast", "LeaveFast">>

EncodeRecord(c) ==
    IF c.tag = "Update" THEN <<0, IntentCode(c.intent), c.rect>>
    ELSE <<(CHOOSE t \in 1 .. 3 : Tags[t + 1] = c.tag), 0, 0>>

EncodeCommands(cmds) == <<Version, Len(cmds)>> \o [i \in DOMAIN cmds |-> EncodeRecord(cmds[i])]

Update(rect, intent) == [tag |-> "Update", rect |-> rect, intent |-> intent]

Command(tag) == [tag |-> tag]

DecodeCommands(bytes) ==
    [i \in 1 .. bytes[2] |->
        LET r == bytes[2 + i]
        IN  IF r[1] = 0 THEN Update(r[3], IntentFromCode(r[2])) ELSE Command(Tags[r[1] + 1])]

-----------------------------------------------------------------------------
(* The panel *)

Flashing == {"Full", "FlashUi", "FlashPartial"}

\* One command.  Only a Full clears the ghost of the partial page turns, which
\* "since" counts; "streak" counts those since a scroll began, too.
Execute(p, c, cause) ==
    LET full == c.tag = "Update" /\ c.intent = "Full"
        turned(n) == IF full THEN 0 ELSE IF cause = "turn" THEN n + 1 ELSE n
    IN  CASE c.tag = "EnterFast" -> [p EXCEPT !.fast = TRUE, !.lost = FALSE]
          [] c.tag = "LeaveFast" -> [p EXCEPT !.fast = FALSE]
          [] c.tag = "WaitForLast" -> [p EXCEPT !.busy = FALSE]
          [] OTHER ->
               [p EXCEPT !.since = turned(@), !.streak = turned(@),
                         !.early = /\ caps.einkFull /\ full /\ cause = "turn"
                                   /\ IF night THEN p.since + 1 < nightInterval ELSE p.streak + 1 < interval,
                         !.over = IF p.busy /\ c.intent \in Flashing THEN cause ELSE "none",
                         !.busy = caps.einkFull,
                         !.bad = @ \/ (~caps.einkFull /\ (c.intent # "Full" \/ c.rect # Screen))
                                   \/ (~caps.regional /\ c.intent # "Full" /\ c.rect # Screen /\ cause = "scroll")]

ExecuteAll(cmds, cause) ==
    LET on == DecodeCommands(EncodeCommands(cmds))
        done[i \in 0 .. Len(on)] == IF i = 0 THEN panel ELSE Execute(done[i - 1], on[i], cause)
    IN  done[Len(on)]

Causes == {"turn", "scroll", "settle", "menu", "flip"}

\* fast: the fast region is pinned; lost: the end of the scroll that pinned it
\* never came; since: page turns since the last Full; streak: those since the
\* last Full or the start of a scroll; early: the last flash came too soon; over:
\* what sent a flash over a running update, if the last update was one; busy: an
\* update is running; bad: an update it cannot execute.
Fresh == [fast |-> FALSE, lost |-> FALSE, since |-> 0, streak |-> 0, early |-> FALSE,
          over |-> "none", busy |-> FALSE, bad |-> FALSE]

-----------------------------------------------------------------------------
(* The policy *)

AtLeastOne(n) == IF n < 1 THEN 1 ELSE n

\* with_interval, with_night_interval, with_avoid_flashing
Init ==
    /\ \E f \in Profiles : \E n \in Sent : caps = DecodeCapabilities(EncodeCapabilities(SubSeq(f, 1, n)))
    /\ \E n, m \in Intervals : interval = AtLeastOne(n) /\ nightInterval = AtLeastOne(m)
    /\ avoid \in BOOLEAN
    /\ partialCount = 0 /\ nightPartialCount = 0 /\ night = FALSE
    /\ moving = FALSE /\ panel = Fresh

Quiet == <<Update(Screen, "Partial")>>

Flash == <<Command("WaitForLast"), Update(Screen, "Full")>>

\* A page turn also ends a scroll whose end was lost.
OnPageTurn ==
    /\ moving' = FALSE
    /\ IF ~caps.einkFull
       THEN /\ panel' = [ExecuteAll(<<Update(Screen, "Full")>>, "turn")
                         EXCEPT !.lost = @ \/ moving]
            /\ UNCHANGED <<partialCount, nightPartialCount>>
       ELSE LET count == IF night THEN nightPartialCount + 1 ELSE partialCount + 1
                promote == count >= (IF night THEN nightInterval ELSE interval)
                kept == IF promote THEN 0 ELSE count
            IN  /\ panel' = [ExecuteAll(IF promote /\ ~avoid
                                        THEN Flash ELSE <<Update(Screen, "Partial")>>, "turn")
                             EXCEPT !.lost = @ \/ moving]
                /\ partialCount' = IF night THEN partialCount ELSE kept
                /\ nightPartialCount' = IF night THEN kept ELSE nightPartialCount
    /\ UNCHANGED <<policy, night>>

\* The turns are counted anew, but nothing on the panel is cleaned.
OnScrollStart ==
    /\ ~moving
    /\ moving' = TRUE
    /\ partialCount' = 0
    /\ panel' = [ExecuteAll(IF caps.fastMode THEN <<Command("EnterFast")>> ELSE <<>>, "scroll")
                 EXCEPT !.streak = 0]
    /\ UNCHANGED <<policy, nightPartialCount, night>>

OnScrollUpdate(dirty) ==
    /\ moving
    /\ panel' = ExecuteAll(IF ~caps.einkFull THEN <<>>
                           ELSE <<Update(IF caps.regional THEN dirty ELSE Screen,
                                         IF caps.fastMode THEN "Fast" ELSE "Partial")>>, "scroll")
    /\ UNCHANGED <<policy, partialCount, nightPartialCount, night, moving>>

OnScrollEnd(settle) ==
    /\ moving
    /\ moving' = FALSE
    /\ panel' = ExecuteAll(IF ~caps.einkFull THEN <<Update(Screen, "Full")>>
                           ELSE (IF caps.fastMode THEN <<Command("LeaveFast")>> ELSE <<>>)
                                \o <<Update(settle, "Partial")>>, "settle")
    /\ UNCHANGED <<policy, partialCount, nightPartialCount, night>>

OnMenu(open, region) ==
    /\ ~moving
    /\ panel' = ExecuteAll(<<IF ~caps.einkFull THEN Update(Screen, "Full")
                             ELSE Update(region, IF open \/ avoid THEN "Ui" ELSE "FlashUi")>>, "menu")
    /\ UNCHANGED <<policy, partialCount, nightPartialCount, night, moving>>

OnNightMode(on) ==
    /\ ~moving
    /\ night' = on
    /\ IF on THEN nightPartialCount' = 0 /\ UNCHANGED partialCount
       ELSE partialCount' = 0 /\ UNCHANGED nightPartialCount
    /\ panel' = ExecuteAll(<<Update(Screen, IF avoid /\ caps.einkFull THEN "Partial" ELSE "Full")>>, "flip")
    /\ UNCHANGED <<policy, moving>>

Next ==
    \/ OnPageTurn \/ OnScrollStart
    \/ \E r \in Regions : OnScrollUpdate(r) \/ OnScrollEnd(r) \/ \E open \in BOOLEAN : OnMenu(open, r)
    \/ \E on \in BOOLEAN : OnNightMode(on)

\* Page turns that no Full follows are counted up to Ghosts: while flashing is
\* off, and by day when scrolls come between.
Ghosts == 6

Bounded == panel'.since <= Ghosts

Spec == Init /\ [][Next /\ Bounded]_vars

-----------------------------------------------------------------------------
(* Properties *)

\* The types of the capabilities and of the panel.
TypeOK ==
    /\ caps \in [einkFull : BOOLEAN, fastMode : BOOLEAN, regional : BOOLEAN]
    /\ {partialCount, nightPartialCount} \subseteq Nat
    /\ avoid \in BOOLEAN /\ night \in BOOLEAN /\ moving \in BOOLEAN
    /\ panel \in [fast : BOOLEAN, lost : BOOLEAN, since : Nat, streak : Nat, early : BOOLEAN,
                  over : Causes \cup {"none"}, busy : BOOLEAN, bad : BOOLEAN]

\* With flashing allowed there are never as many page turns as the interval of
\* the mode without a Full: at night since the last one, whatever scrolls came
\* between; by day since the last one or the last scroll, so turns that scrolls
\* interrupt may go on without any (eink_policy.rs:176-180).
GhostBounded ==
    ~avoid /\ caps.einkFull =>
        IF night THEN panel.since < nightInterval ELSE panel.streak < interval

\* A page turn flashes when its interval is over and not before, counted in the
\* same way.
NoEarlyFlash == ~panel.early

\* A page turn's flash never overtakes an update the panel is still showing.  A
\* theme flip's Full and a closing menu's FlashUi may: they send no WaitForLast.
FlashWaits == panel.over \in {"none", "flip", "menu"}

\* A basic panel is only asked for full-screen Full updates and one without
\* regional updates never for a part of the screen while scrolling, whatever
\* part of its flags an older shell sent.
WithinCapabilities == ~panel.bad

\* A panel under full control leaves the fast region when the scroll is over,
\* unless its end was lost.  (on_scroll_end never sends LeaveFast to another.)
FastOnlyWhileScrolling == caps.einkFull /\ panel.fast => moving \/ panel.lost

\* The panel is flashed after as many page turns as configured and not sooner,
\* such a flash waits, and the panel is asked only for what it can do
\* (on_page_turn, on_scroll_start, on_scroll_update, on_scroll_end, on_menu and
\* on_night_mode together).
PanelSound ==
    /\ GhostBounded /\ NoEarlyFlash /\ FlashWaits
    /\ WithinCapabilities /\ FastOnlyWhileScrolling
=============================================================================
