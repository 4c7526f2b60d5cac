-------------------------- MODULE EinkPolicyProofs --------------------------
(***************************************************************************)
(* Machine-checked: PanelSound of EinkPolicy, for any intervals, any       *)
(* device profiles, however much of them a shell sends, and any regions;   *)
(* in the second part, about the reader's settings store, ReaderStore: its *)
(* migrations, and that the settings it answers are those last stored; in  *)
(* the third, about the bridge between shell and core, ReaderBridge: its   *)
(* handles, what a close saves, and the coalescing of page turns.          *)
(***************************************************************************)
EXTENDS EinkPolicy, TLAPS

-----------------------------------------------------------------------------
(* The wire *)

Intents == {"Full", "Partial", "Ui", "Fast", "FlashUi", "FlashPartial"}

Commands ==
    {Update(r, i) : r \in Regions \cup {Screen}, i \in Intents}
        \cup {Command(t) : t \in {"WaitForLast", "EnterFast", "LeaveFast"}}

(* Every intent has a code of its own. *)
LEMMA IntentWire ==
    ASSUME NEW i \in Intents
    PROVE  IntentCode(i) \in 0 .. 5 /\ IntentFromCode(IntentCode(i)) = i
<1>1. \E c \in 0 .. 5 : IntentFromCode(c) = i
  <2>1. /\ IntentFromCode(0) = "Full" /\ IntentFromCode(1) = "Partial" /\ IntentFromCode(2) = "Ui"
        /\ IntentFromCode(3) = "Fast" /\ IntentFromCode(4) = "FlashUi" /\ IntentFromCode(5) = "FlashPartial"
    BY DEF IntentFromCode, IntentCodes
  <2>2. \A c \in {0, 1, 2, 3, 4, 5} : c \in 0 .. 5
    OBVIOUS
  <2> QED
    BY <2>1, <2>2 DEF Intents
<1> QED
  BY <1>1 DEF IntentCode

(* What the shell decodes of a record is the command. *)
Decoded(r) == IF r[1] = 0 THEN Update(r[3], IntentFromCode(r[2])) ELSE Command(Tags[r[1] + 1])

LEMMA RecordWire ==
    ASSUME NEW c \in Commands
    PROVE  Decoded(EncodeRecord(c)) = c
<1>1. CASE c.tag = "Update"
  <2>1. PICK r \in Regions \cup {Screen}, i \in Intents : c = Update(r, i)
    BY <1>1 DEF Commands, Command
  <2>2. EncodeRecord(c) = <<0, IntentCode(i), r>>
    BY <2>1 DEF EncodeRecord, Update
  <2> QED
    BY <2>1, <2>2, IntentWire DEF Decoded
<1>2. CASE c.tag # "Update"
  <2>1. PICK t \in {"WaitForLast", "EnterFast", "LeaveFast"} : c = Command(t)
    BY <1>2 DEF Commands, Update
  <2> DEFINE code == CHOOSE k \in 1 .. 3 : Tags[k + 1] = t
  <2>2. \E k \in 1 .. 3 : Tags[k + 1] = t
    <3>1. Tags[2] = "WaitForLast" /\ Tags[3] = "EnterFast" /\ Tags[4] = "LeaveFast"
      BY DEF Tags
    <3>2. \E k \in {1, 2, 3} : Tags[k + 1] = t
      BY <2>1, <3>1
    <3> QED
      BY <3>2
  <2>3. code \in 1 .. 3 /\ Tags[code + 1] = t
    BY <2>2
  <2>4. EncodeRecord(c) = <<code, 0, 0>>
    BY <1>2, <2>1 DEF EncodeRecord, Command
  <2> HIDE DEF code
  <2>5. EncodeRecord(c)[1] = code /\ code # 0
    BY <2>3, <2>4
  <2>6. Decoded(EncodeRecord(c)) = Command(Tags[code + 1])
    BY <2>5 DEF Decoded
  <2> QED
    BY <2>1, <2>3, <2>6
<1> QED
  BY <1>1, <1>2

(* The shell executes the commands the core sends. *)
LEMMA CommandsWire ==
    ASSUME NEW cmds \in Seq(Commands)
    PROVE  DecodeCommands(EncodeCommands(cmds)) = cmds
<1> DEFINE body == [i \in DOMAIN cmds |-> EncodeRecord(cmds[i])]
           bytes == <<Version, Len(cmds)>> \o body
<1>1. cmds \in [1 .. Len(cmds) -> Commands] /\ Len(cmds) \in Nat
  OBVIOUS
<1>2. Len(body) = Len(cmds) /\ body \in Seq({EncodeRecord(c) : c \in Commands})
  BY <1>1
<1>3. bytes[2] = Len(cmds) /\ \A i \in 1 .. Len(cmds) : bytes[2 + i] = body[i]
  BY <1>1, <1>2 DEF Version
<1>4. DecodeCommands(EncodeCommands(cmds)) = [i \in 1 .. Len(cmds) |-> Decoded(body[i])]
  BY <1>3 DEF DecodeCommands, EncodeCommands, Decoded
<1>5. \A i \in 1 .. Len(cmds) : Decoded(body[i]) = cmds[i]
  BY <1>1, RecordWire
<1> QED
  BY <1>1, <1>4, <1>5
-----------------------------------------------------------------------------
(* The panel *)

Ran(cmds, cause) ==
    IF Len(cmds) = 0 THEN panel
    ELSE IF Len(cmds) = 1 THEN Execute(panel, cmds[1], cause)
    ELSE Execute(Execute(panel, cmds[1], cause), cmds[2], cause)

(* At most two commands are sent at a time; they are executed in their order. *)
LEMMA Executes ==
    ASSUME NEW cmds \in Seq(Commands), NEW cause, Len(cmds) \in {0, 1, 2}
    PROVE  ExecuteAll(cmds, cause) = Ran(cmds, cause)
<1> DEFINE n == Len(cmds)
           Runs(g) == g = [i \in 0 .. n |-> IF i = 0 THEN panel ELSE Execute(g[i - 1], cmds[i], cause)]
           done == CHOOSE g : Runs(g)
<1>1. n \in {0, 1, 2}
  OBVIOUS
<1>2. \E g : Runs(g)
  <2> DEFINE p1 == Execute(panel, cmds[1], cause)
             p2 == Execute(p1, cmds[2], cause)
             f == [i \in 0 .. n |-> IF i = 0 THEN panel ELSE IF i = 1 THEN p1 ELSE p2]
             h == [i \in 0 .. n |-> IF i = 0 THEN panel ELSE Execute(f[i - 1], cmds[i], cause)]
  <2>1. ASSUME NEW i \in 0 .. n PROVE f[i] = h[i]
    <3>1. CASE i = 0
      BY <3>1
    <3>2. CASE i = 1
      BY <3>2, <1>1
    <3>3. CASE i = 2
      BY <3>3, <1>1
    <3> QED
      BY <1>1, <3>1, <3>2, <3>3
  <2>2. f = h
    BY <2>1
  <2>3. Runs(f)
    BY <2>2
  <2> QED
    BY <2>3
<1>3. Runs(done)
  BY <1>2
<1>4. ExecuteAll(cmds, cause) = done[n]
  BY CommandsWire DEF ExecuteAll
<1> HIDE DEF done
<1>5. \A i \in 0 .. n : done[i] = IF i = 0 THEN panel ELSE Execute(done[i - 1], cmds[i], cause)
  BY <1>3
<1>6. CASE n = 0
  BY <1>4, <1>5, <1>6 DEF Ran
<1>7. CASE n = 1
  <2>1. done[0] = panel /\ done[1] = Execute(done[0], cmds[1], cause)
    BY <1>5, <1>7
  <2> QED
    BY <1>4, <1>7, <2>1 DEF Ran
<1>8. CASE n = 2
  <2>1. /\ done[0] = panel /\ done[1] = Execute(done[0], cmds[1], cause)
        /\ done[2] = Execute(done[1], cmds[2], cause)
    BY <1>5, <1>8
  <2> QED
    BY <1>4, <1>8, <2>1 DEF Ran
<1> QED
  BY <1>1, <1>6, <1>7, <1>8

Panels == [fast : BOOLEAN, lost : BOOLEAN, since : Nat, streak : Nat, early : BOOLEAN,
           over : Causes \cup {"none"}, busy : BOOLEAN, bad : BOOLEAN]

(* A page turn that would be flashed too soon. *)
TooSoon(p) == IF night THEN p.since + 1 < nightInterval ELSE p.streak + 1 < interval

(* What one update does to the panel. *)
Drawn(q, p, r, i, cause) ==
    /\ q \in Panels /\ q.fast = p.fast /\ q.lost = p.lost /\ q.busy = caps.einkFull
    /\ q.since = IF i = "Full" THEN 0 ELSE IF cause = "turn" THEN p.since + 1 ELSE p.since
    /\ q.streak = IF i = "Full" THEN 0 ELSE IF cause = "turn" THEN p.streak + 1 ELSE p.streak
    /\ q.early => cause = "turn" /\ caps.einkFull /\ i = "Full" /\ TooSoon(p)
    /\ q.over # "none" => p.busy /\ i \in Flashing /\ q.over = cause
    /\ q.bad => \/ p.bad
                \/ ~caps.einkFull /\ (i # "Full" \/ r # Screen)
                \/ ~caps.regional /\ i # "Full" /\ r # Screen /\ cause = "scroll"

LEMMA UpdateEffect ==
    ASSUME TypeOK, interval \in Nat, nightInterval \in Nat,
           NEW p \in Panels, NEW r, NEW i \in Intents, NEW cause \in Causes
    PROVE  Drawn(Execute(p, Update(r, i), cause), p, r, i, cause)
<1> DEFINE turned(n) == IF i = "Full" THEN 0 ELSE IF cause = "turn" THEN n + 1 ELSE n
           since == turned(p.since)
           streak == turned(p.streak)
           early == caps.einkFull /\ i = "Full" /\ cause = "turn" /\ TooSoon(p)
           over == IF p.busy /\ i \in Flashing THEN cause ELSE "none"
           bad == p.bad \/ (~caps.einkFull /\ (i # "Full" \/ r # Screen))
                        \/ (~caps.regional /\ i # "Full" /\ r # Screen /\ cause = "scroll")
<1>1. Execute(p, Update(r, i), cause) =
        [p EXCEPT !.since = since, !.streak = streak, !.early = early, !.over = over,
                  !.busy = caps.einkFull, !.bad = bad]
  BY DEF Execute, Update, TooSoon
<1>2. since \in Nat /\ streak \in Nat /\ early \in BOOLEAN /\ over \in Causes \cup {"none"}
      /\ bad \in BOOLEAN /\ caps.einkFull \in BOOLEAN
  BY DEF Panels, TypeOK
<1> HIDE DEF since, streak, early, over, bad
<1>3. LET q == Execute(p, Update(r, i), cause)
      IN  /\ q \in Panels /\ q.fast = p.fast /\ q.lost = p.lost /\ q.busy = caps.einkFull
          /\ q.since = since /\ q.streak = streak /\ q.early = early /\ q.over = over /\ q.bad = bad
  BY <1>1, <1>2 DEF Panels
<1> QED
  BY <1>3 DEF Drawn, since, streak, early, over, bad

(* What the commands without a picture do to the panel. *)
LEMMA CommandEffect ==
    ASSUME NEW p \in Panels, NEW cause
    PROVE  /\ Execute(p, Command("EnterFast"), cause) = [p EXCEPT !.fast = TRUE, !.lost = FALSE]
           /\ Execute(p, Command("LeaveFast"), cause) = [p EXCEPT !.fast = FALSE]
           /\ Execute(p, Command("WaitForLast"), cause) = [p EXCEPT !.busy = FALSE]
  BY DEF Execute, Command

(* The streams the policy sends. *)
LEMMA Streams ==
    ASSUME NEW c \in Commands, NEW d \in Commands, NEW cause
    PROVE  /\ ExecuteAll(<<>>, cause) = panel
           /\ ExecuteAll(<<c>>, cause) = Execute(panel, c, cause)
           /\ ExecuteAll(<<c, d>>, cause) = Execute(Execute(panel, c, cause), d, cause)
<1>1. << >> \in Seq(Commands) /\ Len(<< >>) = 0
  OBVIOUS
<1>2. <<c>> \in Seq(Commands) /\ Len(<<c>>) = 1 /\ <<c>>[1] = c
  OBVIOUS
<1>3. <<c, d>> \in Seq(Commands) /\ Len(<<c, d>>) = 2 /\ <<c, d>>[1] = c /\ <<c, d>>[2] = d
  OBVIOUS
<1>0. ASSUME NEW s \in Seq(Commands), Len(s) \in {0, 1, 2} PROVE ExecuteAll(s, cause) = Ran(s, cause)
  BY <1>0, Executes
<1>4. /\ ExecuteAll(<<>>, cause) = Ran(<<>>, cause) /\ ExecuteAll(<<c>>, cause) = Ran(<<c>>, cause)
      /\ ExecuteAll(<<c, d>>, cause) = Ran(<<c, d>>, cause)
  <2>1. Len(<< >>) \in {0, 1, 2} /\ Len(<<c>>) \in {0, 1, 2} /\ Len(<<c, d>>) \in {0, 1, 2}
    BY <1>1, <1>2, <1>3
  <2>2. ExecuteAll(<<>>, cause) = Ran(<<>>, cause)
    BY <1>0, <1>1, <2>1
  <2>3. ExecuteAll(<<c>>, cause) = Ran(<<c>>, cause)
    BY <1>0, <1>2, <2>1
  <2>4. ExecuteAll(<<c, d>>, cause) = Ran(<<c, d>>, cause)
    BY <1>0, <1>3, <2>1
  <2> QED
    BY <2>2, <2>3, <2>4
<1>5. Ran(<<>>, cause) = panel
  BY <1>1 DEF Ran
<1>6. Ran(<<c>>, cause) = Execute(panel, c, cause)
  BY <1>2 DEF Ran
<1>7. Ran(<<c, d>>, cause) = Execute(Execute(panel, c, cause), d, cause)
  BY <1>3 DEF Ran
<1> QED
  BY <1>4, <1>5, <1>6, <1>7

(* Every update and command the policy names is one the wire carries. *)
LEMMA Carried ==
    /\ \A r \in Regions \cup {Screen}, i \in Intents : Update(r, i) \in Commands
    /\ \A t \in {"WaitForLast", "EnterFast", "LeaveFast"} : Command(t) \in Commands
  BY DEF Commands

-----------------------------------------------------------------------------
(* The inductive invariant *)

(* Both counters stay below their own interval, and with flashing allowed the
   counter of the current mode is the page turns it has to count: at night those
   since the last Full, by day those since the last Full or scroll.  Only a panel
   under full control reports a running update, and only one with a fast mode is
   in it. *)
Counted ==
    ~avoid /\ caps.einkFull =>
        IF night THEN nightPartialCount = panel.since ELSE partialCount = panel.streak

Counting ==
    /\ interval \in Nat /\ nightInterval \in Nat
    /\ partialCount < interval /\ nightPartialCount < nightInterval
    /\ Counted

Capable == (panel.busy => caps.einkFull) /\ (panel.fast => caps.fastMode)

IInv == TypeOK /\ Counting /\ Capable /\ PanelSound

(* The types of the current state, as the effects of an update need them. *)
LEMMA Types ==
    ASSUME IInv
    PROVE  /\ panel \in Panels /\ interval \in Nat /\ nightInterval \in Nat
           /\ partialCount \in Nat /\ nightPartialCount \in Nat
           /\ caps.einkFull \in BOOLEAN /\ caps.fastMode \in BOOLEAN
           /\ avoid \in BOOLEAN /\ night \in BOOLEAN /\ moving \in BOOLEAN
  BY DEF IInv, TypeOK, Counting, Panels

(* One update, unless it is asked too much of, leaves a panel that PanelSound holds of. *)
LEMMA OneUpdate ==
    ASSUME IInv, NEW r \in Regions \cup {Screen}, NEW i \in Intents, NEW cause \in Causes
    PROVE  Drawn(ExecuteAll(<<Update(r, i)>>, cause), panel, r, i, cause)
<1>1. TypeOK /\ panel \in Panels /\ interval \in Nat /\ nightInterval \in Nat
  BY Types DEF IInv
<1>2. Update(r, i) \in Commands
  BY Carried
<1>3. ExecuteAll(<<Update(r, i)>>, cause) = Execute(panel, Update(r, i), cause)
  BY <1>2, Streams
<1>4. Drawn(Execute(panel, Update(r, i), cause), panel, r, i, cause)
  BY <1>1, UpdateEffect
<1> QED
  BY <1>3, <1>4, Zenon

(* A flash waits for the update the panel is showing. *)
LEMMA OneFlash ==
    ASSUME IInv, NEW cause \in Causes
    PROVE  Drawn(ExecuteAll(Flash, cause), [panel EXCEPT !.busy = FALSE], Screen, "Full", cause)
<1>1. [panel EXCEPT !.busy = FALSE] \in Panels
  BY Types DEF Panels
<1>2. Command("WaitForLast") \in Commands /\ Update(Screen, "Full") \in Commands /\ "Full" \in Intents
  BY Carried DEF Intents
<1>3. ExecuteAll(Flash, cause) =
        Execute(Execute(panel, Command("WaitForLast"), cause), Update(Screen, "Full"), cause)
  BY <1>2, Streams DEF Flash
<1>4. Execute(panel, Command("WaitForLast"), cause) = [panel EXCEPT !.busy = FALSE]
  BY Types, CommandEffect, Zenon
<1>5. TypeOK /\ interval \in Nat /\ nightInterval \in Nat
  BY Types DEF IInv
<1> DEFINE p == [panel EXCEPT !.busy = FALSE]
<1>6. p \in Panels
  BY <1>1
<1> HIDE DEF p
<1>7. Drawn(Execute(p, Update(Screen, "Full"), cause), p, Screen, "Full", cause)
  BY <1>2, <1>5, <1>6, UpdateEffect
<1> QED
  BY <1>3, <1>4, <1>7, Zenon DEF p

(* A page turn: the count goes up with the ghost, and a flash clears both. *)
LEMMA PageTurn ==
    ASSUME IInv, OnPageTurn
    PROVE  IInv'
<1>1. UNCHANGED <<caps, interval, nightInterval, avoid, night>> /\ moving' = FALSE
  BY DEF OnPageTurn, policy
<1>2. ASSUME NEW q \in Panels, panel' = [q EXCEPT !.lost = @ \/ moving]
      PROVE  /\ panel' \in Panels /\ panel'.fast = q.fast /\ panel'.lost = (q.lost \/ moving)
             /\ panel'.since = q.since /\ panel'.streak = q.streak /\ panel'.early = q.early
             /\ panel'.over = q.over /\ panel'.busy = q.busy /\ panel'.bad = q.bad
  BY <1>2, Types DEF Panels
<1>3. "Full" \in Intents /\ "Partial" \in Intents /\ "turn" \in Causes /\ "Partial" \notin Flashing
  BY DEF Intents, Causes, Flashing
<1>4. ASSUME panel' \in Panels, ~panel'.early, panel'.over = "none", ~panel'.bad,
             panel'.busy = caps.einkFull, panel'.fast = panel.fast, panel'.lost = (panel.lost \/ moving),
             partialCount' \in Nat, nightPartialCount' \in Nat,
             partialCount' < interval, nightPartialCount' < nightInterval, Counted'
      PROVE  IInv'
  <2>1. TypeOK'
    BY <1>1, <1>4, Types DEF IInv, TypeOK, Panels
  <2>2. Counting' /\ Capable'
    BY <1>1, <1>4, Types DEF IInv, Counting, Capable
  <2>3. GhostBounded'
    BY <1>1, <2>2, Types DEF Counting, Counted, GhostBounded
  <2>4. (NoEarlyFlash /\ FlashWaits /\ WithinCapabilities)'
    BY <1>4 DEF NoEarlyFlash, FlashWaits, WithinCapabilities
  <2>5. FastOnlyWhileScrolling'
    BY <1>1, <1>4, Types DEF IInv, PanelSound, FastOnlyWhileScrolling, Panels
  <2> QED
    BY <2>1, <2>2, <2>3, <2>4, <2>5 DEF IInv, PanelSound
<1>5. /\ partialCount < interval /\ nightPartialCount < nightInterval /\ Counted /\ ~panel.bad
      /\ (panel.busy => caps.einkFull)
  BY DEF IInv, Counting, Capable, PanelSound, WithinCapabilities
<1>6. CASE ~caps.einkFull
  <2> DEFINE q == ExecuteAll(<<Update(Screen, "Full")>>, "turn")
  <2>1. Drawn(q, panel, Screen, "Full", "turn")
    BY <1>3, OneUpdate
  <2>2. panel' = [q EXCEPT !.lost = @ \/ moving] /\ UNCHANGED <<partialCount, nightPartialCount>>
    BY <1>6 DEF OnPageTurn
  <2> HIDE DEF q
  <2>3. /\ panel' \in Panels /\ panel'.fast = q.fast /\ panel'.lost = (q.lost \/ moving)
        /\ panel'.early = q.early /\ panel'.over = q.over
        /\ panel'.busy = q.busy /\ panel'.bad = q.bad
    BY <1>2, <2>1, <2>2 DEF Drawn
  <2>4. q.fast = panel.fast /\ q.lost = panel.lost /\ q.busy = caps.einkFull /\ ~q.early
        /\ q.over = "none" /\ ~q.bad
    BY <1>5, <1>6, <2>1 DEF Drawn
  <2>5. Counted'
    BY <1>1, <1>6 DEF Counted
  <2> QED
    BY <1>4, <1>5, <2>2, <2>3, <2>4, <2>5, Types
<1>7. CASE caps.einkFull
  <2> DEFINE count == IF night THEN nightPartialCount + 1 ELSE partialCount + 1
             promote == count >= (IF night THEN nightInterval ELSE interval)
             kept == IF promote THEN 0 ELSE count
             q == ExecuteAll(IF promote /\ ~avoid THEN Flash ELSE <<Update(Screen, "Partial")>>, "turn")
  <2>1. /\ panel' = [q EXCEPT !.lost = @ \/ moving]
        /\ partialCount' = IF night THEN partialCount ELSE kept
        /\ nightPartialCount' = IF night THEN kept ELSE nightPartialCount
    BY <1>7 DEF OnPageTurn
  <2>2. /\ partialCount' \in Nat /\ nightPartialCount' \in Nat
        /\ partialCount' < interval /\ nightPartialCount' < nightInterval
    BY <1>5, <2>1, Types
  <2>3. CASE promote /\ ~avoid
    <3> DEFINE p == [panel EXCEPT !.busy = FALSE]
    <3>1. Drawn(q, p, Screen, "Full", "turn")
      BY <1>3, <2>3, OneFlash
    <3>2. /\ p.fast = panel.fast /\ p.lost = panel.lost /\ p.since = panel.since
          /\ p.streak = panel.streak /\ p.bad = panel.bad /\ p.busy = FALSE
      BY Types DEF Panels
    <3> HIDE DEF p
    <3>3. ~TooSoon(p)
      BY <1>5, <1>7, <2>3, <3>2, Types DEF TooSoon, Counted, Panels
    <3> HIDE DEF q
    <3>4. /\ panel' \in Panels /\ panel'.fast = q.fast /\ panel'.lost = (q.lost \/ moving)
          /\ panel'.since = q.since /\ panel'.streak = q.streak /\ panel'.early = q.early
          /\ panel'.over = q.over /\ panel'.busy = q.busy /\ panel'.bad = q.bad
      BY <1>2, <2>1, <3>1 DEF Drawn
    <3>5. /\ q.fast = panel.fast /\ q.lost = panel.lost /\ q.busy = caps.einkFull /\ ~q.early
          /\ q.over = "none" /\ ~q.bad /\ q.since = 0 /\ q.streak = 0
      BY <1>5, <1>7, <3>1, <3>2, <3>3 DEF Drawn
    <3>6. Counted'
      BY <1>1, <2>1, <2>3, <3>4, <3>5 DEF Counted
    <3> QED
      BY <1>4, <2>2, <3>4, <3>5, <3>6, Types
  <2>4. CASE ~(promote /\ ~avoid)
    <3>1. Drawn(q, panel, Screen, "Partial", "turn")
      BY <1>3, <2>4, OneUpdate
    <3> HIDE DEF q
    <3>2. /\ panel' \in Panels /\ panel'.fast = q.fast /\ panel'.lost = (q.lost \/ moving)
          /\ panel'.since = q.since /\ panel'.streak = q.streak /\ panel'.early = q.early
          /\ panel'.over = q.over /\ panel'.busy = q.busy /\ panel'.bad = q.bad
      BY <1>2, <2>1, <3>1 DEF Drawn
    <3>3. /\ q.fast = panel.fast /\ q.lost = panel.lost /\ q.busy = caps.einkFull /\ ~q.early
          /\ q.over = "none" /\ ~q.bad /\ q.since = panel.since + 1 /\ q.streak = panel.streak + 1
      BY <1>3, <1>5, <1>7, <3>1 DEF Drawn
    <3>4. Counted'
      BY <1>1, <1>5, <2>1, <2>4, <3>2, <3>3, Types DEF Counted
    <3> QED
      BY <1>4, <2>2, <3>2, <3>3, <3>4, Types
  <2> QED
    BY <2>3, <2>4
<1> QED
  BY <1>6, <1>7, Types

(* A step other than a page turn, which keeps or restarts the counters. *)
LEMMA OtherStep ==
    ASSUME IInv, UNCHANGED policy, night' \in BOOLEAN, moving' \in BOOLEAN, panel' \in Panels,
           partialCount' \in {0, partialCount}, nightPartialCount' \in {0, nightPartialCount},
           Counted', ~panel'.early, panel'.over \in {"none", "flip", "menu"}, ~panel'.bad,
           panel'.busy => caps.einkFull, panel'.fast => caps.fastMode,
           caps.einkFull /\ panel'.fast => moving' \/ panel'.lost
    PROVE  IInv'
<1>1. UNCHANGED <<caps, interval, nightInterval, avoid>>
  BY DEF policy
<1>2. TypeOK'
  BY <1>1, Types DEF IInv, TypeOK, Panels
<1>3. Counting' /\ Capable'
  <2>1. 0 < interval /\ 0 < nightInterval
    BY Types DEF IInv, Counting
  <2>2. partialCount' < interval /\ nightPartialCount' < nightInterval
    BY <2>1, Types DEF IInv, Counting
  <2> QED
    BY <1>1, <2>2, Types DEF Counting, Capable
<1>4. GhostBounded'
  BY <1>1, <1>2, <1>3 DEF TypeOK, Counting, Counted, GhostBounded
<1> QED
  BY <1>1, <1>2, <1>3, <1>4
  DEF IInv, PanelSound, NoEarlyFlash, FlashWaits, WithinCapabilities, FastOnlyWhileScrolling

(* What the invariant says of the panel before a step. *)
LEMMA Before ==
    ASSUME IInv
    PROVE  /\ ~panel.early /\ panel.over \in {"none", "flip", "menu"} /\ ~panel.bad
           /\ (panel.busy => caps.einkFull) /\ (panel.fast => caps.fastMode)
           /\ (caps.einkFull /\ panel.fast => moving \/ panel.lost) /\ Counted
  BY Types
  DEF IInv, Counting, Capable, Panels, PanelSound, NoEarlyFlash, FlashWaits, WithinCapabilities,
      FastOnlyWhileScrolling

(* An update that is no page turn is never a flash too soon, and one over another
   only by a theme flip or a closing menu. *)
LEMMA Calm ==
    ASSUME IInv, NEW q, NEW p \in Panels, NEW r, NEW i \in Intents, NEW cause \in Causes \ {"turn"},
           Drawn(q, p, r, i, cause), ~p.bad, p.busy => caps.einkFull,
           caps.einkFull \/ (i = "Full" /\ r = Screen),
           caps.einkFull /\ cause \in {"scroll", "settle"} => i \notin Flashing,
           cause = "scroll" /\ i # "Full" => caps.regional \/ r = Screen
    PROVE  /\ q \in Panels /\ (i = "Full" => q.since = 0 /\ q.streak = 0)
           /\ (i # "Full" => q.since = p.since /\ q.streak = p.streak)
           /\ ~q.early /\ q.over \in {"none", "flip", "menu"} /\ ~q.bad
           /\ q.busy = caps.einkFull /\ q.fast = p.fast /\ q.lost = p.lost
  BY Types DEF Drawn, Panels, Causes

(* Calm and Before together, as an action uses them. *)
LEMMA CalmStep ==
    ASSUME IInv, NEW q, NEW r, NEW i \in Intents, NEW cause \in Causes \ {"turn"},
           Drawn(q, panel, r, i, cause),
           caps.einkFull \/ (i = "Full" /\ r = Screen),
           caps.einkFull /\ cause \in {"scroll", "settle"} => i \notin Flashing,
           cause = "scroll" /\ i # "Full" => caps.regional \/ r = Screen
    PROVE  /\ q \in Panels /\ (i = "Full" => q.since = 0 /\ q.streak = 0)
           /\ (i # "Full" => q.since = panel.since /\ q.streak = panel.streak)
           /\ ~q.early /\ q.over \in {"none", "flip", "menu"} /\ ~q.bad
           /\ q.busy = caps.einkFull /\ q.fast = panel.fast /\ q.lost = panel.lost
  BY Types, Before, Calm

(* The counts agree with the panel still, if neither has changed. *)
LEMMA SameCounts ==
    ASSUME IInv, UNCHANGED <<policy, partialCount, nightPartialCount, night>>,
           caps.einkFull => panel'.since = panel.since /\ panel'.streak = panel.streak
    PROVE  Counted'
  BY Before DEF Counted, policy

LEMMA ScrollStart ==
    ASSUME IInv, OnScrollStart
    PROVE  IInv'
<1>1. /\ moving' = TRUE /\ partialCount' = 0 /\ UNCHANGED <<policy, nightPartialCount, night>>
      /\ panel' = [ExecuteAll(IF caps.fastMode THEN <<Command("EnterFast")>> ELSE <<>>, "scroll")
                      EXCEPT !.streak = 0]
  BY DEF OnScrollStart
<1>2. Command("EnterFast") \in Commands
  BY Carried
<1>3. /\ panel' \in Panels /\ panel'.since = panel.since /\ panel'.streak = 0
      /\ panel'.early = panel.early /\ panel'.over = panel.over /\ panel'.bad = panel.bad
      /\ panel'.busy = panel.busy /\ (panel'.fast => caps.fastMode)
  <2>1. CASE caps.fastMode
    <3>1. ExecuteAll(<<Command("EnterFast")>>, "scroll") = Execute(panel, Command("EnterFast"), "scroll")
      BY <1>2, Streams
    <3>2. Execute(panel, Command("EnterFast"), "scroll") = [panel EXCEPT !.fast = TRUE, !.lost = FALSE]
      BY Types, CommandEffect, Zenon
    <3>3. panel' = [[panel EXCEPT !.fast = TRUE, !.lost = FALSE] EXCEPT !.streak = 0]
      BY <1>1, <2>1, <3>1, <3>2
    <3> QED
      BY <2>1, <3>3, Types DEF Panels
  <2>2. CASE ~caps.fastMode
    <3>1. panel' = [panel EXCEPT !.streak = 0]
      BY <1>1, <1>2, <2>2, Streams
    <3> QED
      BY <3>1, Types, Before DEF Panels
  <2> QED
    BY <2>1, <2>2
<1>4. Counted'
  BY <1>1, <1>3, Before DEF Counted, policy
<1> QED
  BY <1>1, <1>3, <1>4, Types, Before, OtherStep

LEMMA ScrollUpdate ==
    ASSUME IInv, NEW dirty \in Regions, OnScrollUpdate(dirty)
    PROVE  IInv'
<1> DEFINE rect == IF caps.regional THEN dirty ELSE Screen
           intent == IF caps.fastMode THEN "Fast" ELSE "Partial"
<1>1. /\ UNCHANGED <<policy, partialCount, nightPartialCount, night, moving>>
      /\ panel' = ExecuteAll(IF ~caps.einkFull THEN <<>> ELSE <<Update(rect, intent)>>, "scroll")
  BY DEF OnScrollUpdate
<1>2. rect \in Regions \cup {Screen} /\ intent \in Intents /\ intent # "Full" /\ intent \notin Flashing
      /\ (caps.regional \/ rect = Screen) /\ "scroll" \in Causes \ {"turn"}
  BY DEF Intents, Flashing, Causes
<1> HIDE DEF rect, intent
<1>3. CASE ~caps.einkFull
  <2>1. panel' = panel
    BY <1>1, <1>3, Carried, Streams
  <2>2. Counted'
    BY <1>1, <2>1, SameCounts
  <2> QED
    BY <1>1, <2>1, <2>2, Types, Before, OtherStep
<1>4. CASE caps.einkFull
  <2>1. Drawn(panel', panel, rect, intent, "scroll")
    BY <1>1, <1>2, <1>4, OneUpdate
  <2>2. /\ panel' \in Panels /\ panel'.since = panel.since /\ panel'.streak = panel.streak
        /\ ~panel'.early /\ panel'.over \in {"none", "flip", "menu"} /\ ~panel'.bad
        /\ panel'.busy = caps.einkFull /\ panel'.fast = panel.fast /\ panel'.lost = panel.lost
    BY <1>2, <1>4, <2>1, CalmStep
  <2>3. Counted'
    BY <1>1, <2>2, SameCounts
  <2> QED
    BY <1>1, <1>4, <2>2, <2>3, Types, Before, OtherStep
<1> QED
  BY <1>3, <1>4

LEMMA ScrollEnd ==
    ASSUME IInv, NEW settle \in Regions, OnScrollEnd(settle)
    PROVE  IInv'
<1>1. /\ moving' = FALSE /\ UNCHANGED <<policy, partialCount, nightPartialCount, night>>
      /\ panel' = ExecuteAll(IF ~caps.einkFull THEN <<Update(Screen, "Full")>>
                             ELSE (IF caps.fastMode THEN <<Command("LeaveFast")>> ELSE <<>>)
                                      \o <<Update(settle, "Partial")>>, "settle")
  BY DEF OnScrollEnd
<1>2. /\ "Full" \in Intents /\ "Partial" \in Intents /\ Command("LeaveFast") \in Commands
      /\ Update(settle, "Partial") \in Commands /\ "Partial" \notin Flashing
      /\ "settle" \in Causes \ {"turn"}
  BY Carried DEF Intents, Flashing, Causes
<1>3. ASSUME panel' \in Panels, caps.einkFull => panel'.since = panel.since /\ panel'.streak = panel.streak,
             ~panel'.early, panel'.over \in {"none", "flip", "menu"}, ~panel'.bad,
             panel'.busy = caps.einkFull, panel'.fast => panel.fast,
             caps.einkFull => ~panel'.fast
      PROVE  IInv'
  <2>1. Counted'
    BY <1>1, <1>3, SameCounts
  <2> QED
    BY <1>1, <1>3, <2>1, Types, Before, OtherStep
<1>4. CASE ~caps.einkFull
  <2>1. Drawn(panel', panel, Screen, "Full", "settle")
    BY <1>1, <1>2, <1>4, OneUpdate
  <2> QED
    BY <1>2, <1>3, <1>4, <2>1, CalmStep
<1>5. CASE caps.einkFull /\ caps.fastMode
  <2> DEFINE p == [panel EXCEPT !.fast = FALSE]
  <2>1. panel' = Execute(Execute(panel, Command("LeaveFast"), "settle"), Update(settle, "Partial"), "settle")
    <3>1. ASSUME NEW a \in Commands, NEW b \in Commands PROVE <<a>> \o <<b>> = <<a, b>>
      <4>1. <<a>> \in Seq(Commands) /\ <<b>> \in Seq(Commands) /\ Len(<<a>>) = 1 /\ Len(<<b>>) = 1
        OBVIOUS
      <4>2. /\ (<<a>> \o <<b>>) \in Seq(Commands) /\ Len(<<a>> \o <<b>>) = 2
            /\ (<<a>> \o <<b>>)[1] = a /\ (<<a>> \o <<b>>)[2] = b
        BY <4>1
      <4>3. <<a, b>> \in Seq(Commands) /\ Len(<<a, b>>) = 2 /\ <<a, b>>[1] = a /\ <<a, b>>[2] = b
        OBVIOUS
      <4>4. ASSUME NEW s \in Seq(Commands), NEW t \in Seq(Commands), Len(s) = 2, Len(t) = 2,
                   s[1] = t[1], s[2] = t[2]
            PROVE  s = t
        <5>1. \A i \in 1 .. 2 : s[i] = t[i]
          BY <4>4
        <5> QED
          BY <4>4, <5>1
      <4> QED
        BY <4>2, <4>3, <4>4
    <3>2. ExecuteAll(<<Command("LeaveFast"), Update(settle, "Partial")>>, "settle") =
            Execute(Execute(panel, Command("LeaveFast"), "settle"), Update(settle, "Partial"), "settle")
      BY <1>2, Streams
    <3>3. <<Command("LeaveFast")>> \o <<Update(settle, "Partial")>> =
            <<Command("LeaveFast"), Update(settle, "Partial")>>
      BY <1>2, <3>1
    <3> QED
      BY <1>1, <1>5, <3>2, <3>3
  <2>2. /\ p \in Panels /\ p.since = panel.since /\ p.streak = panel.streak /\ p.bad = panel.bad
        /\ p.fast = FALSE /\ Execute(panel, Command("LeaveFast"), "settle") = p
    <3>1. Execute(panel, Command("LeaveFast"), "settle") = p
      BY Types, CommandEffect, Zenon
    <3> QED
      BY <3>1, Types DEF Panels
  <2> HIDE DEF p
  <2>3. Drawn(panel', p, settle, "Partial", "settle")
    <3>1. TypeOK /\ interval \in Nat /\ nightInterval \in Nat
      BY Types DEF IInv
    <3>2. Drawn(Execute(p, Update(settle, "Partial"), "settle"), p, settle, "Partial", "settle")
      BY <1>2, <2>2, <3>1, UpdateEffect
    <3> QED
      BY <2>1, <2>2, <3>2, Zenon
  <2>4. ~p.bad /\ "settle" # "scroll" /\ "Partial" # "Full" /\ (p.busy => caps.einkFull)
    BY <1>5, <2>2, Before
  <2>5. /\ panel' \in Panels /\ panel'.since = p.since /\ panel'.streak = p.streak /\ ~panel'.early
        /\ panel'.over \in {"none", "flip", "menu"} /\ ~panel'.bad /\ panel'.busy = caps.einkFull
        /\ panel'.fast = p.fast
    <3>1. /\ caps.einkFull \/ ("Partial" = "Full" /\ settle = Screen)
          /\ caps.einkFull /\ "settle" \in {"scroll", "settle"} => "Partial" \notin Flashing
          /\ "settle" = "scroll" /\ "Partial" # "Full" => caps.regional \/ settle = Screen
      BY <1>2, <1>5, <2>4
    <3>2. p \in Panels /\ ~p.bad /\ (p.busy => caps.einkFull) /\ "Partial" # "Full"
      BY <2>2, <2>4
    <3> QED
      BY <1>2, <2>3, <3>1, <3>2, Calm, Zenon
  <2> QED
    BY <1>3, <1>5, <2>2, <2>5
<1>6. CASE caps.einkFull /\ ~caps.fastMode
  <2>1. << >> \o <<Update(settle, "Partial")>> = <<Update(settle, "Partial")>>
    OBVIOUS
  <2>2. Drawn(panel', panel, settle, "Partial", "settle")
    BY <1>1, <1>2, <1>6, <2>1, OneUpdate
  <2>3. ~panel.fast
    BY <1>6, Before
  <2>4. /\ panel' \in Panels /\ panel'.since = panel.since /\ panel'.streak = panel.streak
        /\ ~panel'.early /\ panel'.over \in {"none", "flip", "menu"} /\ ~panel'.bad
        /\ panel'.busy = caps.einkFull /\ panel'.fast = panel.fast
    BY <1>2, <1>6, <2>2, CalmStep
  <2> QED
    BY <1>3, <1>6, <2>3, <2>4
<1> QED
  BY <1>4, <1>5, <1>6

LEMMA Menu ==
    ASSUME IInv, NEW open \in BOOLEAN, NEW region \in Regions, OnMenu(open, region)
    PROVE  IInv'
<1> DEFINE intent == IF ~caps.einkFull THEN "Full" ELSE IF open \/ avoid THEN "Ui" ELSE "FlashUi"
           rect == IF ~caps.einkFull THEN Screen ELSE region
<1>1. /\ UNCHANGED <<policy, partialCount, nightPartialCount, night, moving>>
      /\ panel' = ExecuteAll(<<Update(rect, intent)>>, "menu")
  BY DEF OnMenu
<1>2. /\ rect \in Regions \cup {Screen} /\ intent \in Intents
      /\ (~caps.einkFull => intent = "Full" /\ rect = Screen)
      /\ (caps.einkFull => intent # "Full") /\ "menu" \in Causes \ {"turn"}
  BY DEF Intents, Causes
<1> HIDE DEF intent, rect
<1>3. Drawn(panel', panel, rect, intent, "menu")
  BY <1>1, <1>2, OneUpdate
<1>4. /\ panel' \in Panels
      /\ (intent # "Full" => panel'.since = panel.since /\ panel'.streak = panel.streak)
      /\ ~panel'.early /\ panel'.over \in {"none", "flip", "menu"} /\ ~panel'.bad
      /\ panel'.busy = caps.einkFull /\ panel'.fast = panel.fast /\ panel'.lost = panel.lost
  BY <1>2, <1>3, CalmStep
<1>5. Counted'
  BY <1>1, <1>2, <1>4, SameCounts
<1> QED
  BY <1>1, <1>2, <1>4, <1>5, Types, Before, OtherStep

LEMMA NightMode ==
    ASSUME IInv, NEW on \in BOOLEAN, OnNightMode(on)
    PROVE  IInv'
<1> DEFINE intent == IF avoid /\ caps.einkFull THEN "Partial" ELSE "Full"
<1>1. /\ night' = on /\ UNCHANGED <<policy, moving>>
      /\ panel' = ExecuteAll(<<Update(Screen, intent)>>, "flip")
      /\ partialCount' = (IF on THEN partialCount ELSE 0)
      /\ nightPartialCount' = (IF on THEN 0 ELSE nightPartialCount)
  BY DEF OnNightMode
<1>2. intent \in Intents /\ (~caps.einkFull => intent = "Full") /\ (~avoid => intent = "Full")
      /\ "flip" \in Causes \ {"turn"}
  BY DEF Intents, Causes
<1> HIDE DEF intent
<1>3. Drawn(panel', panel, Screen, intent, "flip")
  BY <1>1, <1>2, OneUpdate
<1>4. /\ panel' \in Panels /\ (intent = "Full" => panel'.since = 0 /\ panel'.streak = 0)
      /\ ~panel'.early /\ panel'.over \in {"none", "flip", "menu"} /\ ~panel'.bad
      /\ panel'.busy = caps.einkFull /\ panel'.fast = panel.fast /\ panel'.lost = panel.lost
  BY <1>2, <1>3, CalmStep
<1>5. Counted'
  BY <1>1, <1>2, <1>4 DEF Counted, policy
<1> QED
  BY <1>1, <1>4, <1>5, Types, Before, OtherStep

LEMMA InitIInv ==
    ASSUME PolicyAssumption, Init
    PROVE  IInv
<1>1. \A n \in Intervals : AtLeastOne(n) \in Nat /\ 0 < AtLeastOne(n)
  BY DEF PolicyAssumption, AtLeastOne
<1>2. interval \in Nat /\ 0 < interval /\ nightInterval \in Nat /\ 0 < nightInterval
  BY <1>1 DEF Init
<1>3. caps \in [einkFull : BOOLEAN, fastMode : BOOLEAN, regional : BOOLEAN]
  BY DEF Init, DecodeCapabilities, FromFlags
<1>4. /\ avoid \in BOOLEAN /\ partialCount = 0 /\ nightPartialCount = 0 /\ night = FALSE
      /\ moving = FALSE /\ panel = Fresh
  BY DEF Init
<1>5. TypeOK
  <2>1. Fresh \in [fast : BOOLEAN, lost : BOOLEAN, since : Nat, streak : Nat, early : BOOLEAN,
                  over : Causes \cup {"none"}, busy : BOOLEAN, bad : BOOLEAN]
    BY DEF Fresh
  <2>2. {partialCount, nightPartialCount} \subseteq Nat
    BY <1>4
  <2>3. night \in BOOLEAN /\ moving \in BOOLEAN
    BY <1>4
  <2> QED
    BY <1>3, <1>4, <2>1, <2>2, <2>3, Zenon DEF TypeOK
<1>6. Counting /\ Capable
  BY <1>2, <1>3, <1>4 DEF Counting, Counted, Capable, Fresh
<1>7. PanelSound
  BY <1>2, <1>4
  DEF PanelSound, Fresh, GhostBounded, NoEarlyFlash, FlashWaits, WithinCapabilities,
      FastOnlyWhileScrolling
<1> QED
  BY <1>5, <1>6, <1>7 DEF IInv

LEMMA NextIInv ==
    ASSUME IInv, [Next]_vars
    PROVE  IInv'
<1>1. CASE OnPageTurn
  BY <1>1, PageTurn
<1>2. CASE OnScrollStart
  BY <1>2, ScrollStart
<1>3. ASSUME NEW r \in Regions, OnScrollUpdate(r) PROVE IInv'
  BY <1>3, ScrollUpdate
<1>4. ASSUME NEW r \in Regions, OnScrollEnd(r) PROVE IInv'
  BY <1>4, ScrollEnd
<1>5. ASSUME NEW r \in Regions, NEW open \in BOOLEAN, OnMenu(open, r) PROVE IInv'
  BY <1>5, Menu
<1>6. ASSUME NEW on \in BOOLEAN, OnNightMode(on) PROVE IInv'
  BY <1>6, NightMode
<1>7. CASE UNCHANGED vars
  BY <1>7
  DEF vars, policy, IInv, TypeOK, Counting, Counted, Capable, PanelSound, GhostBounded, NoEarlyFlash, FlashWaits,
      WithinCapabilities, FastOnlyWhileScrolling
<1> QED
  BY <1>1, <1>2, <1>3, <1>4, <1>5, <1>6, <1>7 DEF Next

(* With flashing allowed a page turn is flashed when as many turns as the
   interval have gone without a Full - by day, without a Full or a scroll - and
   not sooner; such a flash waits for the running update; and the panel is asked
   only for what it can do: for any intervals, profiles and regions, and however
   many turns go without a Full (no bound on them is assumed). *)
THEOREM PanelCared == ASSUME PolicyAssumption PROVE Init /\ [][Next]_vars => []PanelSound
<1>1. Init => IInv
  BY InitIInv
<1>2. IInv /\ [Next]_vars => IInv'
  BY NextIInv
<1>3. IInv => PanelSound
  BY DEF IInv
<1> QED
  BY <1>1, <1>2, <1>3, PTL

(* The same of the specification the runs check, whose ghost is bounded. *)
THEOREM PanelCaredBounded == ASSUME PolicyAssumption PROVE Spec => []PanelSound
<1>1. Init => IInv
  BY InitIInv
<1>2. IInv /\ [Next /\ Bounded]_vars => IInv'
  BY NextIInv
<1>3. IInv => PanelSound
  BY DEF IInv
<1> QED
  BY <1>1, <1>2, <1>3, PTL DEF Spec

(* The counters and the panel keep their types. *)
THEOREM TypeCorrect == ASSUME PolicyAssumption PROVE Spec => []TypeOK
<1>1. Init => IInv
  BY InitIInv
<1>2. IInv /\ [Next /\ Bounded]_vars => IInv'
  BY NextIInv
<1>3. IInv => TypeOK
  BY DEF IInv
<1> QED
  BY <1>1, <1>2, <1>3, PTL DEF Spec
-----------------------------------------------------------------------------
(* The settings store: ReaderStore, for any books, settings, values and kill
   points. The rows are the settings last put, in the form of the columns
   (RowsOK), which from_storage turns back (RoundTrip). A migration knows which
   tables are there from the statement it has reached and the version it read
   (MigrationOK); as long as no kill has cut one in two, exactly (FreshOK). *)
CONSTANTS Books, None, IntKeys, BoolKeys, Ints, Positions, KillPoints, MaxPuts, MaxCrashes
VARIABLES userVersion, tables, rows, config, positions, phase, at, current, put, seen, puts, crashes, torn

Store == INSTANCE ReaderStore

SettingsSet == [Store!Scopes -> [Store!Keys -> Store!Typed \cup {None}]]

RowsOK ==
    /\ put \in SettingsSet
    /\ rows = [s \in Store!Scopes |-> [k \in Store!Keys |->
                  IF put[s][k] = None THEN None ELSE Store!ToStorage(put[s][k])]]

(* What the version on disk, and the statement reached, stand for. *)
MigrationOK ==
    /\ phase \in {"closed", "open", "failed", "bump", "migrate"} /\ at \in 1 .. 6
    /\ current \in 0 .. 2 /\ userVersion \in 0 .. 2 /\ tables \subseteq Store!AllTables
    /\ config \in Nat \cup {None}
    /\ userVersion >= 1 => "reading_position" \in tables
    /\ userVersion = 2 => tables = Store!AllTables /\ config # None
    /\ phase = "migrate" => /\ userVersion = IF at >= 3 /\ current = 0 THEN 1 ELSE current
                            /\ at >= 2 => "reading_position" \in tables
                            /\ at >= 4 => "settings" \in tables
                            /\ at >= 5 => tables = Store!AllTables
                            /\ at = 6 => config # None
    /\ phase \in {"open", "bump"} => userVersion = 2

StoreInv == /\ RowsOK /\ MigrationOK
            /\ positions \in [Books -> Positions \cup {None}]

(* What an older version of the reader, or nobody yet, left behind. *)
LEMMA InitStore == ASSUME Store!StoreAssumption, Store!Init PROVE StoreInv
  BY DEF Store!Init, StoreInv, RowsOK, SettingsSet, MigrationOK, Store!AllTables

(* The statements of the two migrations. *)
LEMMA StatementsAre ==
  /\ Len(Store!Statements) = 6 /\ DOMAIN Store!Statements = 1 .. 6
  /\ \A n \in 1 .. 6 : Store!Statements[n].version = IF n < 3 THEN 1 ELSE 2
  /\ \A n \in 1 .. 6 : Store!Statements[n].does = IF n \in {2, 6} THEN "bump" ELSE IF n = 5 THEN "insert" ELSE "create"
  /\ Store!Statements[1].table = "reading_position"
  /\ Store!Statements[3].table = "settings" /\ Store!Statements[4].table = "settings_meta"
  BY DEF Store!Statements

(* A statement of a version: skipped, refused or run. *)
Runs(version, refused, made, counter, bumped) ==
    \/ current >= version /\ UNCHANGED <<tables, config, userVersion>> /\ phase' # "failed"
    \/ current < version /\ refused /\ phase' = "failed" /\ UNCHANGED <<tables, config, userVersion>>
    \/ /\ current < version /\ ~refused /\ phase' # "failed"
       /\ tables' = made /\ config' = counter /\ userVersion' = bumped

LEMMA MigrateIs ==
    ASSUME StoreInv, Store!Migrate
    PROVE  /\ phase = "migrate" /\ UNCHANGED <<rows, positions, put, seen, puts, crashes, torn>>
           /\ phase' = "failed" \/ phase' = IF at = 6 THEN "open" ELSE "migrate"
           /\ IF phase' = "migrate" THEN at' = at + 1 /\ current' = current ELSE at' = 1 /\ current' = 0
           /\ at = 1 => Runs(1, "reading_position" \in tables, tables \cup {"reading_position"}, config, userVersion)
           /\ at = 2 => Runs(1, FALSE, tables, config, 1)
           /\ at = 3 => Runs(2, "settings" \in tables, tables \cup {"settings"}, config, userVersion)
           /\ at = 4 => Runs(2, "settings_meta" \in tables, tables \cup {"settings_meta"}, config, userVersion)
           /\ at = 5 => Runs(2, config # None, tables, 0, userVersion)
           /\ at = 6 => Runs(2, FALSE, tables, config, 2)
<1> DEFINE st == Store!Statements[at]
<1>1. at \in 1 .. 6 /\ phase = "migrate" /\ UNCHANGED <<rows, positions, put, seen, puts, crashes, torn>>
  BY DEF StoreInv, MigrationOK, Store!Migrate
<1>2. /\ \/ current >= st.version /\ phase' # "failed" /\ UNCHANGED <<tables, config, userVersion>>
         \/ current < st.version /\ Store!Refused(st) /\ phase' = "failed" /\ UNCHANGED <<tables, config, userVersion>>
         \/ /\ current < st.version /\ ~Store!Refused(st) /\ phase' # "failed"
            /\ tables' = IF st.does = "create" THEN tables \cup {st.table} ELSE tables
            /\ config' = IF st.does = "insert" THEN 0 ELSE config
            /\ userVersion' = IF st.does = "bump" THEN st.version ELSE userVersion
      /\ phase' = "failed" \/ phase' = IF at = 6 THEN "open" ELSE "migrate"
  BY StatementsAre DEF Store!Migrate
<1>3. IF phase' = "migrate" THEN at' = at + 1 /\ current' = current ELSE at' = 1 /\ current' = 0
  BY DEF Store!Migrate, Store!NoMigration
<1>4. /\ st.version = IF at < 3 THEN 1 ELSE 2
      /\ st.does = IF at \in {2, 6} THEN "bump" ELSE IF at = 5 THEN "insert" ELSE "create"
      /\ (at = 1 => st.table = "reading_position") /\ (at = 3 => st.table = "settings")
      /\ (at = 4 => st.table = "settings_meta")
  BY <1>1, StatementsAre
<1> HIDE DEF st
<1>5. Store!Refused(st) <=>
          ((st.does = "create" /\ st.table \in tables) \/ (st.does = "insert" /\ config # None))
  BY DEF Store!Refused
<1>6. CASE at \in {1, 3, 4}
  BY <1>1, <1>2, <1>3, <1>4, <1>5, <1>6 DEF Runs
<1>7. CASE at \in {2, 5, 6}
  BY <1>1, <1>2, <1>3, <1>4, <1>5, <1>7 DEF Runs
<1>8. at \in {1, 3, 4} \/ at \in {2, 5, 6}
  BY <1>1
<1> QED
  BY <1>6, <1>7, <1>8

(* What a statement that makes a table leaves. *)
LEMMA TableMade ==
    ASSUME NEW v, NEW t, Runs(v, t \in tables, tables \cup {t}, config, userVersion)
    PROVE  /\ UNCHANGED <<config, userVersion>>
           /\ tables' = tables \/ tables' = tables \cup {t}
           /\ phase' = "failed" => tables' = tables /\ current < v /\ t \in tables
           /\ phase' # "failed" => current >= v \/ tables' = tables \cup {t}
  BY DEF Runs

(* Opening reads the version and starts with the first statement. *)
LEMMA OpenKeeps == ASSUME Store!StoreAssumption, StoreInv, Store!Open PROVE StoreInv'
  BY DEF Store!Open, StoreInv, RowsOK, SettingsSet, MigrationOK, Store!AllTables

(* A statement of a migration, which the one before it and the version allow. *)
LEMMA MigrateKeeps == ASSUME Store!StoreAssumption, StoreInv, Store!Migrate PROVE StoreInv'
<1>1. /\ phase = "migrate" /\ UNCHANGED <<rows, positions, put, seen, puts, crashes>>
      /\ phase' = "failed" \/ phase' = IF at = 6 THEN "open" ELSE "migrate"
      /\ IF phase' = "migrate" THEN at' = at + 1 /\ current' = current ELSE at' = 1 /\ current' = 0
  BY MigrateIs
<1>2. 0 # None /\ current \in Int
  BY DEF Store!StoreAssumption, StoreInv, MigrationOK
<1>3. MigrationOK'
  <2>1. CASE at = 1
    <3>1. Runs(1, "reading_position" \in tables, tables \cup {"reading_position"}, config, userVersion)
      BY <2>1, MigrateIs
    <3>2. /\ UNCHANGED <<config, userVersion>>
          /\ tables' = tables \/ tables' = tables \cup {"reading_position"}
          /\ phase' # "failed" => current >= 1 \/ tables' = tables \cup {"reading_position"}
      BY <3>1, TableMade
    <3>3. tables \subseteq Store!AllTables /\ (current >= 1 => "reading_position" \in tables)
      BY <1>1, <2>1 DEF StoreInv, MigrationOK, Store!AllTables
    <3>4. tables \subseteq tables' /\ tables' \subseteq Store!AllTables /\ (phase' # "failed" => "reading_position" \in tables')
      BY <3>2, <3>3 DEF Store!AllTables
    <3>5. tables = Store!AllTables => tables' = Store!AllTables
      BY <3>4
    <3> QED
      BY <1>1, <2>1, <3>2, <3>3, <3>4, <3>5 DEF StoreInv, MigrationOK
  <2>2. CASE at = 2
    <3>1. Runs(1, FALSE, tables, config, 1)
      BY <2>2, MigrateIs
    <3>2. /\ tables' = tables /\ config' = config /\ phase' # "failed"
          /\ userVersion = current /\ userVersion' = IF current = 0 THEN 1 ELSE current
          /\ phase' = "migrate" /\ at' = 3 /\ current' = current
      BY <1>1, <2>2, <3>1 DEF Runs, StoreInv, MigrationOK
    <3>3. current \in 0 .. 2 /\ "reading_position" \in tables
      BY <1>1, <2>2 DEF StoreInv, MigrationOK
    <3> QED
      BY <2>2, <3>2, <3>3 DEF StoreInv, MigrationOK
  <2>3. CASE at = 3
    <3>1. Runs(2, "settings" \in tables, tables \cup {"settings"}, config, userVersion)
      BY <2>3, MigrateIs
    <3>2. /\ UNCHANGED <<config, userVersion>>
          /\ tables' = tables \/ tables' = tables \cup {"settings"}
          /\ phase' # "failed" => current >= 2 \/ tables' = tables \cup {"settings"}
      BY <3>1, TableMade
    <3>3. tables \subseteq Store!AllTables /\ (current >= 2 => tables = Store!AllTables)
      BY <1>1, <2>3 DEF StoreInv, MigrationOK, Store!AllTables
    <3>4. tables \subseteq tables' /\ tables' \subseteq Store!AllTables /\ (phase' # "failed" => "settings" \in tables')
      BY <3>2, <3>3 DEF Store!AllTables
    <3>5. tables = Store!AllTables => tables' = Store!AllTables
      BY <3>4
    <3> QED
      BY <1>1, <2>3, <3>2, <3>3, <3>4, <3>5 DEF StoreInv, MigrationOK
  <2>4. CASE at = 4
    <3>1. Runs(2, "settings_meta" \in tables, tables \cup {"settings_meta"}, config, userVersion)
      BY <2>4, MigrateIs
    <3>2. /\ UNCHANGED <<config, userVersion>>
          /\ tables' = tables \/ tables' = tables \cup {"settings_meta"}
          /\ phase' # "failed" => current >= 2 \/ tables' = tables \cup {"settings_meta"}
      BY <3>1, TableMade
    <3>3. tables \subseteq Store!AllTables /\ {"reading_position", "settings"} \subseteq tables /\ (current >= 2 => tables = Store!AllTables)
      BY <1>1, <2>4 DEF StoreInv, MigrationOK, Store!AllTables
    <3>4. tables \subseteq tables' /\ tables' \subseteq Store!AllTables /\ (phase' # "failed" => tables' = Store!AllTables)
      BY <3>2, <3>3 DEF Store!AllTables
    <3>5. tables = Store!AllTables => tables' = Store!AllTables
      BY <3>4
    <3> QED
      BY <1>1, <2>4, <3>2, <3>3, <3>4, <3>5 DEF StoreInv, MigrationOK
  <2>5. CASE at = 5
    <3>1. Runs(2, config # None, tables, 0, userVersion)
      BY <2>5, MigrateIs
    <3> QED
      BY <1>1, <1>2, <2>5, <3>1 DEF Runs, StoreInv, MigrationOK, Store!AllTables
  <2>6. CASE at = 6
    <3>1. Runs(2, FALSE, tables, config, 2)
      BY <2>6, MigrateIs
    <3> QED
      BY <1>1, <1>2, <2>6, <3>1 DEF Runs, StoreInv, MigrationOK, Store!AllTables
  <2> QED
    BY <2>1, <2>2, <2>3, <2>4, <2>5, <2>6 DEF StoreInv, MigrationOK
<1> QED
  BY <1>1, <1>3 DEF StoreInv, RowsOK, SettingsSet

(* The row and the setting put change together. *)
LEMMA PutRowKeeps ==
  ASSUME Store!StoreAssumption, StoreInv, NEW s \in Store!Scopes, NEW k \in Store!Keys, NEW v \in Store!Typed,
         Store!PutRow(s, k, v)
  PROVE  StoreInv'
<1>1. /\ phase = "open" /\ phase' = "bump"
      /\ rows' = [rows EXCEPT ![s][k] = Store!ToStorage(v)] /\ put' = [put EXCEPT ![s][k] = v]
      /\ UNCHANGED <<userVersion, tables, config, positions, at, current, seen, crashes, torn>>
  BY DEF Store!PutRow
<1>2. put' \in SettingsSet
  BY <1>1 DEF StoreInv, RowsOK, SettingsSet
<1>3. v # None
  BY DEF Store!StoreAssumption
<1>4. ASSUME NEW t \in Store!Scopes, NEW j \in Store!Keys
      PROVE  rows'[t][j] = IF put'[t][j] = None THEN None ELSE Store!ToStorage(put'[t][j])
  BY <1>1, <1>3 DEF StoreInv, RowsOK, SettingsSet
<1>5. rows' = [t \in Store!Scopes |-> [j \in Store!Keys |-> rows'[t][j]]]
  BY <1>1 DEF StoreInv, RowsOK
<1>6. RowsOK'
  BY <1>2, <1>4, <1>5 DEF RowsOK
<1> QED
  BY <1>1, <1>6 DEF StoreInv, MigrationOK

(* What leaves the settings and the schema alone. *)
LEMMA OthersKeepStore ==
  ASSUME Store!StoreAssumption, StoreInv,
         \/ Store!BumpVersion \/ Store!LoadSettings \/ Store!CloseStore \/ Store!Crash
         \/ \E b \in Books : \E p \in Positions : Store!SavePosition(b, p)
  PROVE  StoreInv'
<1>1. CASE Store!LoadSettings \/ Store!CloseStore \/ Store!Crash
  BY <1>1 DEF Store!LoadSettings, Store!CloseStore, Store!Crash, Store!NoMigration, Store!StoreAssumption,
              StoreInv, RowsOK, SettingsSet, MigrationOK
<1>3. CASE Store!BumpVersion
  <2>1. config \in Nat /\ config' = config + 1 /\ None \notin Nat
    BY <1>3 DEF Store!BumpVersion, StoreInv, MigrationOK, Store!StoreAssumption
  <2>2. config' \in Nat /\ config' # None
    BY <2>1
  <2> QED
    BY <1>3, <2>2 DEF Store!BumpVersion, StoreInv, RowsOK, SettingsSet, MigrationOK
<1>2. ASSUME NEW b \in Books, NEW p \in Positions, Store!SavePosition(b, p) PROVE StoreInv'
  BY <1>2 DEF Store!SavePosition, StoreInv, RowsOK, SettingsSet, MigrationOK
<1> QED
  BY <1>1, <1>2, <1>3

(* One step of the store, the reader that uses it, or a kill. *)
LEMMA NextStore ==
  ASSUME Store!StoreAssumption, StoreInv, [Store!Next]_(Store!vars) PROVE StoreInv'
<1>1. CASE UNCHANGED Store!vars
  BY <1>1 DEF Store!vars, StoreInv, RowsOK, SettingsSet, MigrationOK
<1>2. CASE \E s \in Store!Scopes : \E k \in Store!Keys : \E v \in Store!Typed : Store!PutRow(s, k, v)
  BY <1>2, PutRowKeeps
<1> QED
  BY <1>1, <1>2, OpenKeeps, MigrateKeeps, OthersKeepStore DEF Store!Next

(* The inductive invariant: rows and settings agree, and a migration has made
   the tables its statement and the version say, wherever earlier ones were
   killed (migrate, put_setting). *)
THEOREM StoreInvariance == ASSUME Store!StoreAssumption PROVE Store!Spec => []StoreInv
<1>1. Store!Init => StoreInv
  BY InitStore
<1>2. StoreInv /\ [Store!Next]_(Store!vars) => StoreInv'
  BY NextStore
<1> QED
  BY <1>1, <1>2, PTL DEF Store!Spec

(* Types of the store; no migration is skipped: an open store has every table
   and the last version, with kills anywhere (migrate). *)
THEOREM StoreTypes == ASSUME Store!StoreAssumption PROVE Store!Spec => []Store!TypeOK
<1>1. StoreInv => Store!TypeOK
  BY StatementsAre DEF StoreInv, MigrationOK, Store!TypeOK
<1> QED
  BY <1>1, StoreInvariance, PTL

(* from_storage undoes to_storage. *)
LEMMA RoundTrip ==
  ASSUME Store!StoreAssumption, NEW v \in Store!Typed
  PROVE  Store!FromStorage(Store!ToStorage(v)) = v
<1>1. CASE v.kind = "Bool"
  <2>1. v = [kind |-> "Bool", value |-> v.value] /\ v.value \in BOOLEAN
    BY <1>1 DEF Store!Typed
  <2> QED
    BY <1>1, <2>1 DEF Store!ToStorage, Store!FromStorage, Store!KindCode
<1>2. CASE v.kind = "Int"
  <2>1. v = [kind |-> "Int", value |-> v.value] /\ v.value \in Ints
    BY <1>2 DEF Store!Typed
  <2>2. Store!ToStorage(v).kind = 1 /\ Store!ToStorage(v).text = Store!ToString(v.value)
    BY <1>2 DEF Store!ToStorage, Store!KindCode
  <2>3. (CHOOSE i \in Ints : Store!ToString(i) = Store!ToString(v.value)) = v.value
    BY <2>1 DEF Store!StoreAssumption
  <2> QED
    BY <2>1, <2>2, <2>3 DEF Store!FromStorage
<1> QED
  BY <1>1, <1>2 DEF Store!Typed

(* What load_settings reads is what was put. *)
LEMMA SnapshotIsPut == ASSUME Store!StoreAssumption, StoreInv PROVE Store!Snapshot = put
<1>1. ASSUME NEW s \in Store!Scopes, NEW k \in Store!Keys
      PROVE  (IF rows[s][k] = None THEN None ELSE Store!FromStorage(rows[s][k])) = put[s][k]
  <2>1. put[s][k] \in Store!Typed \cup {None}
    BY DEF StoreInv, RowsOK, SettingsSet
  <2>2. rows[s][k] = IF put[s][k] = None THEN None ELSE Store!ToStorage(put[s][k])
    BY DEF StoreInv, RowsOK
  <2>3. put[s][k] # None => Store!ToStorage(put[s][k]) # None
    BY <2>1 DEF Store!StoreAssumption
  <2> QED
    BY <2>1, <2>2, <2>3, RoundTrip
<1>2. put = [s \in Store!Scopes |-> [k \in Store!Keys |-> put[s][k]]]
  BY DEF StoreInv, RowsOK, SettingsSet
<1> QED
  BY <1>1, <1>2 DEF Store!Snapshot

(* The getters answer what was last stored in the narrowest scope, after any
   number of kills and reopenings, whatever type was stored under a key
   (put_setting, load_settings, resolve, get_int, get_bool). *)
THEOREM SettingsKept == ASSUME Store!StoreAssumption PROVE Store!Spec => []Store!SettingsHold
<1>1. ASSUME Store!StoreAssumption, StoreInv PROVE Store!SettingsHold
  <2>1. ASSUME NEW k \in Store!Keys, NEW b \in Books \cup {None}
        PROVE  Store!Get(put, k, b) = Store!Wanted(k, b)
    BY DEF Store!Get, Store!Resolve, Store!Wanted
  <2> QED
    BY <1>1, <2>1, SnapshotIsPut DEF Store!SettingsHold
<1> QED
  BY <1>1, StoreInvariance, PTL

(* The flash intervals the refresh policy is given are at least one, also if a
   value of another type, zero or a negative number is stored (flash_interval). *)
THEOREM IntervalsUsable == ASSUME Store!StoreAssumption PROVE Store!Spec => []Store!IntervalUsable
<1>1. ASSUME Store!StoreAssumption, StoreInv PROVE Store!IntervalUsable
  <2>1. ASSUME NEW k \in IntKeys, NEW b \in Books \cup {None}
        PROVE  Store!Get(put, k, b) \in Int
    <3>1. Store!Default(k) = [kind |-> "Int", value |-> 6] /\ k \in Store!Keys
      BY DEF Store!Default, Store!Keys
    <3>2. Store!Resolve(put, k, b) \in Store!Typed \cup {Store!Default(k)}
      BY <1>1, <3>1 DEF Store!Resolve, StoreInv, RowsOK, SettingsSet, Store!Scopes
    <3> QED
      BY <3>1, <3>2 DEF Store!Get, Store!Typed, Store!StoreAssumption
  <2> QED
    BY <1>1, <2>1, SnapshotIsPut DEF Store!IntervalUsable, Store!FlashInterval
<1> QED
  BY <1>1, StoreInvariance, PTL

(* The versions loaded so far; the last one is what is stored, if every setting
   put has been counted. *)
SeenOK == /\ puts \in Nat /\ DOMAIN seen \subseteq Nat
          /\ config = None => DOMAIN seen = {}
          /\ config # None => config <= puts /\ \A v \in DOMAIN seen : v <= config
          /\ phase = "bump" => config < puts
          /\ config = puts /\ config \in DOMAIN seen => seen[config] = Store!Snapshot

(* A step changes what was loaded, or the settings, only with the version, or it
   leaves a setting that is not counted. *)
LEMMA NextSeen ==
  ASSUME Store!StoreAssumption, StoreInv, SeenOK, [Store!Next]_(Store!vars) PROVE SeenOK'
<1>0. config \in Nat \cup {None} /\ None \notin Nat /\ (phase \in {"open", "bump"} => config \in Nat)
  BY DEF StoreInv, MigrationOK, Store!StoreAssumption
<1>1. CASE Store!BumpVersion
  <2>1. config \in Nat /\ config' = config + 1 /\ phase' = "open" /\ UNCHANGED <<rows, seen, puts>> /\ config < puts
    BY <1>0, <1>1 DEF Store!BumpVersion, SeenOK
  <2>2. config' \in Nat /\ config' <= puts' /\ \A v \in DOMAIN seen' : v < config' /\ v \in Nat
    BY <1>0, <2>1 DEF SeenOK
  <2> QED
    BY <1>0, <2>1, <2>2 DEF SeenOK
<1>2. CASE Store!LoadSettings
  <2>1. /\ config \notin DOMAIN seen /\ phase = "open" /\ phase' = phase /\ config' = config /\ rows' = rows
        /\ puts' = puts
        /\ seen' = [v \in DOMAIN seen \cup {config} |-> IF v = config THEN Store!Snapshot ELSE seen[v]]
    BY <1>2 DEF Store!LoadSettings
  <2>2. Store!Snapshot' = Store!Snapshot
    BY <2>1 DEF Store!Snapshot
  <2> QED
    BY <1>0, <2>1, <2>2 DEF SeenOK
<1>3. CASE \E s \in Store!Scopes : \E k \in Store!Keys : \E v \in Store!Typed : Store!PutRow(s, k, v)
  <2>1. phase = "open" /\ phase' = "bump" /\ puts' = puts + 1 /\ UNCHANGED <<config, seen>>
    BY <1>3 DEF Store!PutRow
  <2> QED
    BY <1>0, <2>1 DEF SeenOK
<1>4. ASSUME phase' # "bump" \/ phase = "bump", UNCHANGED <<rows, config, seen, puts>> PROVE SeenOK'
  <2>1. Store!Snapshot' = Store!Snapshot
    BY <1>4 DEF Store!Snapshot
  <2> QED
    BY <1>4, <2>1 DEF SeenOK
<1>5. CASE Store!Migrate
  <2>1. UNCHANGED <<rows, seen, puts>> /\ phase' # "bump"
    BY <1>5, MigrateIs
  <2>2. config' = config \/ (config = None /\ config' = 0)
    <3>1. at \in 1 .. 6
      BY DEF StoreInv, MigrationOK
    <3>2. CASE at = 5
      BY <1>5, <3>2, MigrateIs DEF Runs
    <3> QED
      BY <1>5, <3>1, <3>2, MigrateIs DEF Runs
  <2>3. CASE config' = config
    BY <1>4, <2>1, <2>3
  <2>4. CASE config = None /\ config' = 0
    BY <1>0, <2>1, <2>4 DEF SeenOK
  <2> QED
    BY <2>2, <2>3, <2>4
<1>6. CASE Store!Open \/ Store!CloseStore \/ Store!Crash \/ UNCHANGED Store!vars
  BY <1>4, <1>6 DEF Store!vars, Store!Open, Store!CloseStore, Store!Crash
<1>7. CASE \E b \in Books : \E p \in Positions : Store!SavePosition(b, p)
  BY <1>4, <1>7 DEF Store!SavePosition
<1> QED
  BY <1>1, <1>2, <1>3, <1>5, <1>6, <1>7 DEF Store!Next

(* Two loads of one settings version see the same settings, wherever the process
   is killed, as long as every setting put was counted: the two statements of
   put_setting are no transaction. *)
THEOREM VersionsName ==
  ASSUME Store!StoreAssumption PROVE Store!Spec => []Store!VersionNamesSettings
<1>1. Store!Init => StoreInv /\ SeenOK
  <2> SUFFICES ASSUME Store!Init PROVE SeenOK
    BY InitStore
  <2>1. puts = 0 /\ config = None /\ phase = "closed" /\ DOMAIN seen = {}
    BY DEF Store!Init
  <2> QED
    BY <2>1 DEF SeenOK
<1>2. StoreInv /\ SeenOK /\ [Store!Next]_(Store!vars) => StoreInv' /\ SeenOK'
  BY NextStore, NextSeen
<1>3. SeenOK => Store!VersionNamesSettings
  BY DEF SeenOK, Store!VersionNamesSettings
<1> QED
  BY <1>1, <1>2, <1>3, PTL DEF Store!Spec

(* The tables, and the row of the counter, that are there as long as no migration
   was cut in two: those of the version, and what the running one has made. *)
TablesOf(version) ==
    IF version = 0 THEN {} ELSE IF version = 1 THEN {"reading_position"} ELSE Store!AllTables

FreshOK ==
    ~torn =>
    /\ phase # "failed"
    /\ phase # "migrate" =>
          /\ tables = TablesOf(userVersion)
          /\ config = None <=> userVersion # 2
    /\ phase = "migrate" =>
          /\ tables = IF current = 2 \/ at >= 5 THEN Store!AllTables
                      ELSE IF at = 4 THEN {"reading_position", "settings"}
                      ELSE TablesOf(IF at = 1 THEN current ELSE 1)
          /\ config = None <=> (current # 2 /\ at < 6)

(* A migration that is not cut in two makes nothing twice. *)
LEMMA MigrateFresh ==
  ASSUME Store!StoreAssumption, StoreInv, FreshOK, Store!Migrate PROVE FreshOK'
<1>1. /\ phase = "migrate" /\ torn' = torn
      /\ phase' = "failed" \/ phase' = IF at = 6 THEN "open" ELSE "migrate"
      /\ IF phase' = "migrate" THEN at' = at + 1 /\ current' = current ELSE at' = 1 /\ current' = 0
  BY MigrateIs
<1>2. /\ at \in 1 .. 6 /\ current \in 0 .. 2 /\ userVersion = IF at >= 3 /\ current = 0 THEN 1 ELSE current
      /\ 0 # None
  BY <1>1 DEF StoreInv, MigrationOK, Store!StoreAssumption
<1>3. CASE ~torn /\ at = 1
  <2>1. Runs(1, "reading_position" \in tables, tables \cup {"reading_position"}, config, userVersion)
    BY <1>3, MigrateIs
  <2>2. /\ config' = config /\ userVersion' = userVersion
        /\ tables' = tables \/ tables' = tables \cup {"reading_position"}
        /\ phase' = "failed" => current < 1 /\ "reading_position" \in tables
        /\ phase' # "failed" => current >= 1 \/ tables' = tables \cup {"reading_position"}
    BY <2>1, TableMade
  <2>3. tables = (IF current = 2 THEN Store!AllTables ELSE IF current = 1 THEN {"reading_position"} ELSE {})
        /\ (config = None <=> current # 2)
    BY <1>1, <1>2, <1>3 DEF FreshOK, TablesOf
  <2>4. phase' # "failed" /\ tables' = IF current = 2 THEN Store!AllTables ELSE {"reading_position"}
    BY <1>2, <2>2, <2>3 DEF Store!AllTables
  <2> QED
    BY <1>1, <1>2, <1>3, <2>2, <2>3, <2>4 DEF FreshOK, TablesOf
<1>4. CASE ~torn /\ at = 2
  <2>1. Runs(1, FALSE, tables, config, 1)
    BY <1>4, MigrateIs
  <2>2. tables' = tables /\ config' = config /\ phase' # "failed"
    BY <2>1 DEF Runs
  <2>3. tables = (IF current = 2 THEN Store!AllTables ELSE {"reading_position"})
        /\ (config = None <=> current # 2)
    BY <1>1, <1>2, <1>4 DEF FreshOK, TablesOf
  <2> QED
    BY <1>1, <1>2, <1>4, <2>2, <2>3 DEF FreshOK, TablesOf
<1>5. CASE ~torn /\ at = 3
  <2>1. Runs(2, "settings" \in tables, tables \cup {"settings"}, config, userVersion)
    BY <1>5, MigrateIs
  <2>2. /\ config' = config /\ userVersion' = userVersion
        /\ tables' = tables \/ tables' = tables \cup {"settings"}
        /\ phase' = "failed" => current < 2 /\ "settings" \in tables
        /\ phase' # "failed" => current >= 2 \/ tables' = tables \cup {"settings"}
    BY <2>1, TableMade
  <2>3. tables = (IF current = 2 THEN Store!AllTables ELSE {"reading_position"})
        /\ (config = None <=> current # 2)
    BY <1>1, <1>2, <1>5 DEF FreshOK, TablesOf
  <2>4. phase' # "failed" /\ tables' = IF current = 2 THEN Store!AllTables ELSE {"reading_position", "settings"}
    BY <1>2, <2>2, <2>3 DEF Store!AllTables
  <2> QED
    BY <1>1, <1>2, <1>5, <2>2, <2>3, <2>4 DEF FreshOK, TablesOf
<1>6. CASE ~torn /\ at = 4
  <2>1. Runs(2, "settings_meta" \in tables, tables \cup {"settings_meta"}, config, userVersion)
    BY <1>6, MigrateIs
  <2>2. /\ config' = config /\ userVersion' = userVersion
        /\ tables' = tables \/ tables' = tables \cup {"settings_meta"}
        /\ phase' = "failed" => current < 2 /\ "settings_meta" \in tables
        /\ phase' # "failed" => current >= 2 \/ tables' = tables \cup {"settings_meta"}
    BY <2>1, TableMade
  <2>3. tables = (IF current = 2 THEN Store!AllTables ELSE {"reading_position", "settings"})
        /\ (config = None <=> current # 2)
    BY <1>1, <1>2, <1>6 DEF FreshOK, TablesOf
  <2>4. phase' # "failed" /\ tables' = Store!AllTables
    BY <1>2, <2>2, <2>3 DEF Store!AllTables
  <2> QED
    BY <1>1, <1>2, <1>6, <2>2, <2>3, <2>4 DEF FreshOK, TablesOf
<1>7. CASE ~torn /\ at = 5
  <2>1. Runs(2, config # None, tables, 0, userVersion)
    BY <1>7, MigrateIs
  <2>2. tables = Store!AllTables /\ (config = None <=> current # 2)
    BY <1>1, <1>2, <1>7 DEF FreshOK
  <2>3. tables' = Store!AllTables /\ config' # None /\ phase' # "failed"
    BY <1>2, <2>1, <2>2 DEF Runs
  <2> QED
    BY <1>1, <1>2, <1>7, <2>3 DEF FreshOK
<1>8. CASE ~torn /\ at = 6
  <2>1. Runs(2, FALSE, tables, config, 2)
    BY <1>8, MigrateIs
  <2>2. tables = Store!AllTables /\ config # None
    BY <1>1, <1>2, <1>8 DEF FreshOK
  <2>3. tables' = Store!AllTables /\ config' = config /\ userVersion' = 2 /\ phase' = "open"
    BY <1>1, <1>2, <1>8, <2>1, <2>2 DEF Runs
  <2> QED
    BY <1>1, <2>2, <2>3 DEF FreshOK, TablesOf
<1>9. CASE torn
  BY <1>1, <1>9 DEF FreshOK
<1> QED
  BY <1>2, <1>3, <1>4, <1>5, <1>6, <1>7, <1>8, <1>9

(* A kill leaves the tables of the version, or has cut a migration in two. *)
LEMMA CrashFresh ==
  ASSUME Store!StoreAssumption, StoreInv, FreshOK, Store!Crash PROVE FreshOK'
<1>1. /\ phase' = "closed" /\ torn' = (torn \/ Store!InMigration) /\ UNCHANGED <<userVersion, tables, config>>
  BY DEF Store!Crash
<1>2. CASE phase # "migrate" \/ torn
  BY <1>1, <1>2 DEF FreshOK, TablesOf
<1>3. CASE phase = "migrate" /\ ~torn /\ ~Store!InMigration
  <2>1. /\ at \in 1 .. 6 /\ current \in 0 .. 2 /\ userVersion = IF at >= 3 /\ current = 0 THEN 1 ELSE current
    BY <1>3 DEF StoreInv, MigrationOK
  <2>2. current = 2 \/ at = 1 \/ at = 3 \/ (at = 2 /\ current = 1)
    BY <1>3, <2>1, StatementsAre DEF Store!InMigration
  <2> QED
    BY <1>1, <1>3, <2>1, <2>2 DEF FreshOK, TablesOf
<1>4. CASE phase = "migrate" /\ Store!InMigration
  BY <1>1, <1>4 DEF FreshOK
<1> QED
  BY <1>2, <1>3, <1>4

(* An old database, a new one and one left by a kill open again, unless a kill
   came between two statements of one migration: migrate is no transaction. *)
THEOREM OpeningSucceeds ==
  ASSUME Store!StoreAssumption PROVE Store!Spec => []Store!AlwaysOpens
<1>1. Store!Init => StoreInv /\ FreshOK
  <2> SUFFICES ASSUME Store!Init PROVE FreshOK
    BY InitStore
  <2>1. /\ phase = "closed" /\ config = None
        /\ (userVersion = 0 /\ tables = {}) \/ (userVersion = 1 /\ tables = {"reading_position"})
    BY DEF Store!Init
  <2> QED
    BY <2>1 DEF FreshOK, TablesOf
<1>2. StoreInv /\ FreshOK /\ [Store!Next]_(Store!vars) => StoreInv' /\ FreshOK'
  <2> SUFFICES ASSUME StoreInv, FreshOK, [Store!Next]_(Store!vars) PROVE FreshOK'
    BY NextStore
  <2>1. CASE Store!Open
    <3>1. /\ phase \in {"closed", "failed"} /\ phase' = "migrate" /\ at' = 1 /\ current' = userVersion
          /\ UNCHANGED <<tables, config, torn>>
      BY <2>1 DEF Store!Open
    <3>2. userVersion \in 0 .. 2
      BY DEF StoreInv, MigrationOK
    <3> QED
      BY <3>1, <3>2 DEF FreshOK, TablesOf
  <2>2. CASE UNCHANGED Store!vars
    <3>1. UNCHANGED <<userVersion, tables, config, torn, phase, at, current>>
      BY <2>2 DEF Store!vars
    <3> QED
      BY <3>1 DEF FreshOK, TablesOf
  <2>3. ASSUME UNCHANGED <<userVersion, tables, torn>>, phase \in {"open", "bump"},
               phase' \in {"open", "bump", "closed"}, (config = None) <=> (config' = None)
        PROVE  FreshOK'
    BY <2>3 DEF FreshOK, TablesOf
  <2>4. CASE \/ \E s \in Store!Scopes : \E k \in Store!Keys : \E v \in Store!Typed : Store!PutRow(s, k, v)
             \/ \E b \in Books : \E p \in Positions : Store!SavePosition(b, p)
             \/ Store!LoadSettings \/ Store!CloseStore
    <3>1. /\ UNCHANGED <<userVersion, tables, torn, config>> /\ phase \in {"open", "bump"}
          /\ phase' \in {"open", "bump", "closed"}
      BY <2>4 DEF Store!PutRow, Store!SavePosition, Store!LoadSettings, Store!CloseStore
    <3> QED
      BY <2>3, <3>1
  <2>5. CASE Store!BumpVersion
    <3>1. phase = "bump" /\ phase' = "open" /\ UNCHANGED <<userVersion, tables, torn>>
      BY <2>5 DEF Store!BumpVersion
    <3>2. userVersion = 2 /\ userVersion' = 2 /\ config # None /\ config' # None
      BY NextStore, <3>1 DEF StoreInv, MigrationOK
    <3> QED
      BY <2>3, <3>1, <3>2
  <2> QED
    BY <2>1, <2>2, <2>4, <2>5, MigrateFresh, CrashFresh DEF Store!Next
<1>3. FreshOK => Store!AlwaysOpens
  BY DEF FreshOK, Store!AlwaysOpens
<1> QED
  BY <1>1, <1>2, <1>3, PTL DEF Store!Spec
-----------------------------------------------------------------------------
(* The bridge between the shell and the core: ReaderBridge, for any number of
   sessions, page counts and inputs, with or without failing calls. The field's
   handle is the one open session's (HandlesOK); what is posted, and the call the
   UI thread is in, name handles that were opened, and open ones as long as nothing
   closes a session in use (TasksOK, CallsOK). *)
CONSTANTS MaxHandle, PageCounts, MaxInputs, Inputs, Failures
VARIABLES sess, core, dict, docHandle, dictHandle, currentPage, pageCount, lastPrefetched, queue, running,
          accepting, pending, turnInFlight, lastTurnDir, turnDone, flushTimer, uiCall, crashed, inputs, want

Bridge == INSTANCE ReaderBridge
Fs == INSTANCE FiniteSetTheorems

Ops == {"surface", "inkEdit", "reflow", "view", "trim", "define", "lists", "export", "link", "search", "turn",
        "flush", "pauseSave", "import", "close", "prefetch"}
Tasks == [op : Ops, arg : Int]
Counts == {n \in Nat \ {0} : n - 1 \in Bridge!Pages}
Sessions == [page : Bridge!Pages, pages : Counts, ink : {"clean", "dirty"}, saved : Bridge!Pages]

(* What has been posted and has not run to its end. *)
Posted == {queue[i] : i \in DOMAIN queue} \cup {running}

(* Handles are numbered in the order of the opens; the field's is the open one. *)
HandlesOK ==
    /\ sess \in [Bridge!Handles -> {"none", "open", "freed"}] /\ docHandle \in 0 .. MaxHandle
    /\ \E n \in 0 .. MaxHandle : \A h \in Bridge!Handles : sess[h] # "none" <=> h <= n
    /\ \A h \in Bridge!Handles : sess[h] = "open" <=> h = docHandle
    /\ dict \in {"none", "open", "freed"} /\ dictHandle \in {0, 1} /\ (dictHandle # 0 => dict = "open")

SessionsOK == core \in [Bridge!Handles -> Sessions]

ShellOK ==
    /\ currentPage \in Bridge!Pages /\ pageCount \in Counts \cup {0} /\ lastTurnDir \in {-1, 1} /\ pending \in Int
    /\ {turnInFlight, turnDone, accepting, crashed} \subseteq BOOLEAN /\ want \in Int

TasksOK ==
    /\ queue \in Seq(Tasks) /\ running \in Tasks \cup {Bridge!Idle}
    /\ \A t \in Posted : /\ t.op = "import" => "import" \in Inputs
                         /\ t.op = "close" => "destroy" \in Inputs
                         /\ t.op = "flush" => "flush" \in Inputs /\ t.arg \in Bridge!Handles

(* Nothing closes a session in use: no import, no end of the activity. *)
Stays == "import" \notin Inputs /\ "destroy" \notin Inputs

CallsOK ==
    /\ uiCall \in 0 .. MaxHandle /\ (uiCall # 0 => "sheet" \in Inputs)
    /\ Stays => /\ \A t \in Posted : t.op = "flush" => sess[t.arg] = "open"
                /\ uiCall # 0 => sess[uiCall] = "open"

BridgeInv == HandlesOK /\ SessionsOK /\ ShellOK /\ TasksOK /\ CallsOK

(* The pages there are. *)
LEMMA PagesAre ==
  ASSUME Bridge!BridgeAssumption
  PROVE  \E top \in Nat : /\ Bridge!Pages = 0 .. top /\ Counts = 1 .. top + 1 /\ PageCounts \subseteq Counts
<1> DEFINE most == CHOOSE n \in PageCounts : \A m \in PageCounts : m <= n
<1>1. PageCounts \subseteq Nat \ {0} /\ most \in PageCounts /\ \A m \in PageCounts : m <= most
  BY DEF Bridge!BridgeAssumption
<1>2. Bridge!Pages = 0 .. most - 1
  BY DEF Bridge!Pages
<1> HIDE DEF most
<1>3. Counts = 1 .. most
  BY <1>1, <1>2 DEF Counts
<1>4. most - 1 \in Nat /\ Counts = 1 .. (most - 1) + 1
  BY <1>1, <1>3
<1> QED
  BY <1>1, <1>2, <1>3, <1>4

(* Calls that leave the page alone. *)
LEMMA QuietCall ==
  ASSUME NEW c \in Sessions,
         NEW r \in Bridge!nativeInkSave(c) \cup Bridge!nativeSavePosition(c) \cup Bridge!InkStrokeExports(c)
                   \cup Bridge!HistoryExports(c) \cup Bridge!SelectionEditExports(c) \cup Bridge!SelectionReadExports(c)
                   \cup Bridge!ViewExports(c) \cup Bridge!nativePrefetchPage(c) \cup Bridge!nativeOnTrimMemory(c)
                   \cup Bridge!TextExports(c) \cup Bridge!NavigationExports(c) \cup Bridge!InkReadExports(c)
                   \cup Bridge!nativeExportPdf(c) \cup Bridge!nativeAttachInkStore(c) \cup Bridge!MetadataExports(c)
  PROVE  r.c \in Sessions /\ r.c.page = c.page /\ r.c.pages = c.pages
<1> USE DEF Bridge!Returns, Bridge!Throws, Bridge!MayThrow, Sessions
<1>1. CASE r \in Bridge!nativeInkSave(c) \cup Bridge!nativeSavePosition(c) \cup Bridge!nativeExportPdf(c)
  BY <1>1 DEF Bridge!nativeInkSave, Bridge!nativeSavePosition, Bridge!nativeExportPdf
<1>2. CASE r \in Bridge!InkStrokeExports(c) \cup Bridge!HistoryExports(c) \cup Bridge!SelectionEditExports(c)
  BY <1>2 DEF Bridge!InkStrokeExports, Bridge!HistoryExports, Bridge!SelectionEditExports
<1>3. CASE r \in Bridge!SelectionReadExports(c) \cup Bridge!ViewExports(c) \cup Bridge!nativePrefetchPage(c)
             \cup Bridge!nativeOnTrimMemory(c) \cup Bridge!TextExports(c) \cup Bridge!NavigationExports(c)
             \cup Bridge!InkReadExports(c) \cup Bridge!nativeAttachInkStore(c) \cup Bridge!MetadataExports(c)
  BY <1>3 DEF Bridge!SelectionReadExports, Bridge!ViewExports, Bridge!nativePrefetchPage, Bridge!nativeOnTrimMemory,
     Bridge!TextExports, Bridge!NavigationExports, Bridge!InkReadExports, Bridge!nativeAttachInkStore,
     Bridge!MetadataExports
<1> QED
  BY <1>1, <1>2, <1>3

(* A jump goes to a page of the document. *)
LEMMA Jumps ==
  ASSUME Bridge!BridgeAssumption, NEW c \in Sessions, NEW p \in Int, NEW j \in Bridge!nativeJumpToPage(c, p)
  PROVE  /\ j.c \in Sessions /\ j.c.pages = c.pages /\ j.c.page = Bridge!ClampPage(p, c.pages)
         /\ j.c.page \in 0 .. c.pages - 1
<1>1. PICK top \in Nat : Bridge!Pages = 0 .. top /\ Counts = 1 .. top + 1
  BY PagesAre
<1>2. c.pages \in 1 .. top + 1 /\ c.page \in 0 .. top
  BY <1>1 DEF Sessions
<1>3. Bridge!ClampPage(p, c.pages) \in 0 .. c.pages - 1
  BY <1>2 DEF Bridge!ClampPage
<1>4. Bridge!ClampPage(p, c.pages) \in Bridge!Pages
  BY <1>1, <1>2, <1>3
<1>5. j = [c |-> Bridge!Moved(c, Bridge!ClampPage(p, c.pages)), threw |-> FALSE]
  BY DEF Bridge!nativeJumpToPage, Bridge!Returns
<1>6. PICK q, i : /\ q = Bridge!ClampPage(p, c.pages) /\ i = (IF q = c.page THEN c.ink ELSE "clean")
  OBVIOUS
<1>7. j.c = [c EXCEPT !.page = q, !.ink = i]
  BY <1>5, <1>6 DEF Bridge!Moved
<1>8. q \in Bridge!Pages /\ i \in {"clean", "dirty"}
  BY <1>4, <1>6 DEF Sessions
<1> QED
  BY <1>3, <1>6, <1>7, <1>8 DEF Sessions

(* Opening yields a page of the document. *)
LEMMA Opens ==
  ASSUME Bridge!BridgeAssumption, NEW o \in Bridge!nativeOpenDocumentWithStore
  PROVE  /\ o.c \in Sessions /\ o.threw \in BOOLEAN /\ o.c.page < o.c.pages
         /\ o.threw => Failures
<1>1. PICK top \in Nat : Bridge!Pages = 0 .. top /\ Counts = 1 .. top + 1 /\ PageCounts \subseteq Counts
  BY PagesAre
<1>2. CASE \E c \in Bridge!Fresh : o = Bridge!Returns(c)
  <2>1. PICK c \in Bridge!Fresh : o = [c |-> c, threw |-> FALSE]
    BY <1>2 DEF Bridge!Returns
  <2>2. c \in [page : Bridge!Pages, pages : PageCounts, ink : {"clean"}, saved : Bridge!Pages] /\ c.page < c.pages
    BY <2>1 DEF Bridge!Fresh
  <2>3. c \in Sessions
    BY <1>1, <2>2 DEF Sessions
  <2> QED
    BY <2>1, <2>2, <2>3
<1>3. CASE o \in Bridge!MayThrow(Bridge!Blank)
  <2>1. o = [c |-> Bridge!Blank, threw |-> TRUE] /\ Failures
    BY <1>3 DEF Bridge!MayThrow, Bridge!Throws
  <2>2. Bridge!Blank \in Sessions /\ Bridge!Blank.page < Bridge!Blank.pages
    BY <1>1 DEF Bridge!Blank, Sessions
  <2> QED
    BY <2>1, <2>2
<1> QED
  BY <1>2, <1>3 DEF Bridge!nativeOpenDocumentWithStore

(* A new layout: any count, any page of it. *)
LEMMA Relayouts ==
  ASSUME Bridge!BridgeAssumption, NEW c \in Sessions
  PROVE  /\ \A r \in Bridge!nativeSetViewport(c) : r.c \in Sessions
         /\ \A r \in Bridge!TypographyExports(c) \cup Bridge!nativeSetReflow(c) :
               r.c \in Sessions /\ r.page \in Int /\ (r.page < 0 => r.c = c)
<1>1. PICK top \in Nat : Bridge!Pages = 0 .. top /\ Counts = 1 .. top + 1 /\ PageCounts \subseteq Counts
  BY PagesAre
<1>2. ASSUME NEW r \in Bridge!nativeSetViewport(c) PROVE r.c \in Sessions
  BY <1>1 DEF Bridge!nativeSetViewport, Bridge!Returns, Bridge!Throws, Bridge!MayThrow, Sessions
<1>3. ASSUME NEW d \in Bridge!Layouts(c) PROVE d \in Sessions
  <2>1. d \in [page : Bridge!Pages, pages : PageCounts, ink : {"clean"}, saved : {c.saved}]
    BY DEF Bridge!Layouts
  <2> QED
    BY <1>1, <2>1 DEF Sessions
<1>4. ASSUME NEW r \in Bridge!TypographyExports(c) PROVE r.c \in Sessions /\ r.page \in Int /\ (r.page < 0 => r.c = c)
  BY <1>1, <1>3 DEF Bridge!TypographyExports, Sessions
<1> QED
  BY <1>2, <1>4 DEF Bridge!nativeSetReflow

(* What a render shows; it fails only if the page is past the end or a call may fail. *)
LEMMA Renders ==
  ASSUME Bridge!BridgeAssumption, ShellOK, NEW c \in Sessions, NEW n \in Counts \cup {0}, NEW v \in Bridge!Shown(c, n)
  PROVE  /\ v.page \in Bridge!Pages /\ v.reject \in BOOLEAN /\ (v.reject => ~accepting)
         /\ v.ahead # {} => (CHOOSE a \in v.ahead : TRUE) \in Int
         /\ ~Failures /\ c.page < c.pages => v.page = c.page
<1>1. PICK r \in Bridge!nativeRenderPage(c) :
        v = IF r.threw THEN [page |-> currentPage, ahead |-> {}, reject |-> FALSE]
            ELSE [page |-> c.page,
                  ahead |-> IF Bridge!Prefetches(c, n) THEN {Bridge!Ahead(c)} ELSE {},
                  reject |-> Bridge!Prefetches(c, n) /\ ~accepting]
  BY DEF Bridge!Shown
<1>2. r.threw \in BOOLEAN /\ (~Failures /\ c.page < c.pages => ~r.threw)
  <2>1. CASE c.page < c.pages
    <3>1. r = Bridge!Returns(c) \/ (Failures /\ r = Bridge!Throws(c))
      BY <2>1 DEF Bridge!nativeRenderPage, Bridge!MayThrow
    <3>2. CASE r = Bridge!Returns(c)
      BY <3>2 DEF Bridge!Returns
    <3>3. CASE Failures /\ r = Bridge!Throws(c)
      <4>1. r.threw = TRUE
        BY <3>3 DEF Bridge!Throws
      <4> QED
        BY <3>3, <4>1
    <3> QED
      BY <3>1, <3>2, <3>3
  <2>2. CASE ~(c.page < c.pages)
    <3>1. r = Bridge!Throws(c)
      BY <2>2 DEF Bridge!nativeRenderPage
    <3> QED
      BY <2>2, <3>1 DEF Bridge!Throws
  <2> QED
    BY <2>1, <2>2
<1>3. PICK top \in Nat : Bridge!Pages = 0 .. top
  BY PagesAre
<1>4. c.page \in Bridge!Pages /\ currentPage \in Bridge!Pages
  BY DEF Sessions, ShellOK
<1>5. Bridge!Ahead(c) \in Int
  BY <1>3, <1>4 DEF Bridge!Ahead, ShellOK
<1>6. CASE r.threw
  BY <1>1, <1>2, <1>4, <1>6
<1>7. CASE ~r.threw
  <2>1. v = [page |-> c.page, ahead |-> IF Bridge!Prefetches(c, n) THEN {Bridge!Ahead(c)} ELSE {},
             reject |-> Bridge!Prefetches(c, n) /\ ~accepting]
    BY <1>1, <1>7
  <2>2. v.ahead # {} => (CHOOSE a \in v.ahead : TRUE) \in v.ahead /\ v.ahead = {Bridge!Ahead(c)}
    BY <2>1
  <2>3. v.page = c.page /\ v.reject \in BOOLEAN /\ (v.reject => ~accepting)
    BY <2>1
  <2> QED
    BY <1>4, <1>5, <2>2, <2>3
<1> QED
  BY <1>6, <1>7

(* A task is posted behind the others. *)
LEMMA Posting ==
  ASSUME queue \in Seq(Tasks), NEW t \in Tasks, queue' = Append(queue, t)
  PROVE  /\ queue' \in Seq(Tasks) /\ DOMAIN queue' = DOMAIN queue \cup {Len(queue) + 1}
         /\ Len(queue) + 1 \notin DOMAIN queue /\ queue'[Len(queue) + 1] = t
         /\ \A i \in DOMAIN queue : queue'[i] = queue[i]
         /\ Posted' = {queue[i] : i \in DOMAIN queue} \cup {t, running'}
<1>1. /\ queue' \in Seq(Tasks) /\ DOMAIN queue' = DOMAIN queue \cup {Len(queue) + 1}
      /\ Len(queue) + 1 \notin DOMAIN queue /\ queue'[Len(queue) + 1] = t
      /\ \A i \in DOMAIN queue : queue'[i] = queue[i]
  OBVIOUS
<1>2. {queue'[i] : i \in DOMAIN queue'} = {queue[i] : i \in DOMAIN queue} \cup {t}
  <2>1. ASSUME NEW x PROVE x \in {queue'[i] : i \in DOMAIN queue'} <=> x \in {queue[i] : i \in DOMAIN queue} \cup {t}
    BY <1>1
  <2> QED
    BY <2>1
<1> QED
  BY <1>1, <1>2 DEF Posted

(* What the step of the engine leaves behind. *)
QueueGrows == queue' = queue \/ \E t \in Tasks : t.op = "prefetch" /\ queue' = Append(queue, t)

LEMMA EndOfTask ==
  ASSUME queue \in Seq(Tasks), QueueGrows, running' = Bridge!Idle
  PROVE  queue' \in Seq(Tasks) /\ \A t \in Posted' : t \in Posted \/ t.op \in {"idle", "prefetch"}
<1>1. CASE queue' = queue
  BY <1>1 DEF Posted, Bridge!Idle
<1>2. ASSUME NEW t \in Tasks, t.op = "prefetch", queue' = Append(queue, t)
      PROVE  queue' \in Seq(Tasks) /\ \A u \in Posted' : u \in Posted \/ u.op \in {"idle", "prefetch"}
  BY <1>2, Posting DEF Posted, Bridge!Idle
<1> QED
  BY <1>1, <1>2 DEF QueueGrows

(* The engine takes the first task. *)
LEMMA Taking ==
  ASSUME queue \in Seq(Tasks), Bridge!Take
  PROVE  /\ queue' \in Seq(Tasks) /\ running = Bridge!Idle /\ running' = queue[1] /\ running' \in Tasks
         /\ 1 \in DOMAIN queue /\ \A i \in DOMAIN queue' : i + 1 \in DOMAIN queue /\ queue'[i] = queue[i + 1]
         /\ \A i \in DOMAIN queue : i # 1 => i - 1 \in DOMAIN queue' /\ queue'[i - 1] = queue[i]
         /\ DOMAIN queue \subseteq Nat /\ DOMAIN queue' \subseteq Nat /\ Posted' \subseteq Posted
<1>1. running = Bridge!Idle /\ queue # <<>> /\ running' = Head(queue) /\ queue' = Tail(queue)
  BY DEF Bridge!Take
<1>2. /\ queue' \in Seq(Tasks) /\ running' = queue[1] /\ running' \in Tasks
      /\ 1 \in DOMAIN queue /\ \A i \in DOMAIN queue' : i + 1 \in DOMAIN queue /\ queue'[i] = queue[i + 1]
      /\ \A i \in DOMAIN queue : i # 1 => i - 1 \in DOMAIN queue' /\ queue'[i - 1] = queue[i]
      /\ DOMAIN queue \subseteq Nat /\ DOMAIN queue' \subseteq Nat
  BY <1>1
<1>3. Posted' \subseteq Posted
  <2>1. ASSUME NEW x \in Posted' PROVE x \in Posted
    BY <1>2 DEF Posted
  <2> QED
    BY <2>1
<1> QED
  BY <1>1, <1>2, <1>3

(* A render shows a page and may post the read-ahead of the next. *)
LEMMA Blits ==
  ASSUME Bridge!BridgeAssumption, ShellOK, NEW c \in Sessions, NEW n \in Counts \cup {0},
         NEW v \in Bridge!Shown(c, n), Bridge!RenderAndBlit(v, n)
  PROVE  /\ currentPage' = v.page /\ v.page \in Bridge!Pages /\ pageCount' = n
         /\ crashed' \in BOOLEAN /\ (accepting => crashed' = FALSE) /\ running' = Bridge!Idle /\ QueueGrows
         /\ ~Failures /\ c.page < c.pages => v.page = c.page
<1>1. /\ currentPage' = v.page /\ pageCount' = n /\ crashed' = v.reject /\ running' = Bridge!Idle
      /\ lastPrefetched' = IF v.ahead = {} THEN lastPrefetched ELSE CHOOSE a \in v.ahead : TRUE
      /\ queue' = IF v.reject \/ v.ahead = {} THEN queue ELSE Append(queue, Bridge!Task("prefetch", lastPrefetched'))
  BY DEF Bridge!RenderAndBlit
<1>2. /\ v.page \in Bridge!Pages /\ v.reject \in BOOLEAN /\ (v.reject => ~accepting)
      /\ v.ahead # {} => (CHOOSE a \in v.ahead : TRUE) \in Int
      /\ ~Failures /\ c.page < c.pages => v.page = c.page
  BY Renders
<1>3. QueueGrows
  <2>1. CASE v.reject \/ v.ahead = {}
    BY <1>1, <2>1 DEF QueueGrows
  <2>2. CASE ~(v.reject \/ v.ahead = {})
    <3>1. PICK a \in Int : lastPrefetched' = a
      BY <1>1, <1>2, <2>2
    <3>2. queue' = Append(queue, Bridge!Task("prefetch", a))
      BY <1>1, <2>2, <3>1
    <3>3. Bridge!Task("prefetch", a) \in Tasks /\ Bridge!Task("prefetch", a).op = "prefetch"
      BY DEF Bridge!Task, Tasks, Ops
    <3> QED
      BY <3>2, <3>3 DEF QueueGrows
  <2> QED
    BY <2>1, <2>2
<1>4. accepting => v.reject = FALSE
  BY <1>2
<1> QED
  BY <1>1, <1>2, <1>3, <1>4

(* The field's session. *)
LEMMA Open == ASSUME HandlesOK, SessionsOK, Bridge!Here
              PROVE  docHandle \in Bridge!Handles /\ sess[docHandle] = "open" /\ Bridge!Session \in Sessions
                     /\ Bridge!Session = core[docHandle]
<1>1. docHandle \in Bridge!Handles
  BY DEF HandlesOK, Bridge!Here, Bridge!Handles
<1> QED
  BY <1>1 DEF HandlesOK, SessionsOK, Bridge!Session

(* A session is replaced by one of its states. *)
LEMMA Stored ==
  ASSUME SessionsOK, NEW h \in Bridge!Handles, NEW c \in Sessions, core' = [core EXCEPT ![h] = c] PROVE SessionsOK'
  BY DEF SessionsOK

LEMMA SameHandles == ASSUME HandlesOK, UNCHANGED <<sess, docHandle, dict, dictHandle>> PROVE HandlesOK'
  BY DEF HandlesOK

(* A step that posts no import, close or flush, and closes nothing in use. *)
LEMMA BridgeStep ==
  ASSUME Bridge!BridgeAssumption, BridgeInv, HandlesOK', SessionsOK', ShellOK', queue' \in Seq(Tasks), running' \in Tasks \cup {Bridge!Idle},
         \A t \in Posted' : t \in Posted \/ t.op \notin {"import", "close", "flush"},
         Stays => \A h \in Bridge!Handles : sess[h] = "open" => sess'[h] = "open",
         uiCall' \in {uiCall, 0}
  PROVE  BridgeInv'
<1>1. TasksOK'
  BY DEF BridgeInv, TasksOK
<1>2. uiCall' \in 0 .. MaxHandle /\ (uiCall' # 0 => "sheet" \in Inputs)
  <2>1. uiCall \in 0 .. MaxHandle /\ (uiCall # 0 => "sheet" \in Inputs)
    BY DEF BridgeInv, CallsOK
  <2>2. 0 \in 0 .. MaxHandle
    BY DEF Bridge!BridgeAssumption
  <2> QED
    BY <2>1, <2>2
<1>3. ASSUME Stays
      PROVE  /\ \A t \in Posted' : t.op = "flush" => sess'[t.arg] = "open"
             /\ uiCall' # 0 => sess'[uiCall'] = "open"
  <2>1. ASSUME NEW t \in Posted', t.op = "flush" PROVE sess'[t.arg] = "open"
    <3>1. t \in Posted
      BY <2>1
    <3> QED
      BY <1>3, <2>1, <3>1 DEF BridgeInv, CallsOK, TasksOK
  <2>2. ASSUME uiCall' # 0 PROVE sess'[uiCall'] = "open"
    <3>1. uiCall' = uiCall /\ uiCall \in Bridge!Handles
      BY <2>2 DEF BridgeInv, CallsOK, Bridge!Handles
    <3> QED
      BY <1>3, <2>2, <3>1 DEF BridgeInv, CallsOK
  <2> QED
    BY <2>1, <2>2
<1>4. CallsOK'
  BY <1>2, <1>3 DEF CallsOK
<1> QED
  BY <1>1, <1>4 DEF BridgeInv

(* The same for a task of the engine that opens and closes nothing. *)
LEMMA EngineStep ==
  ASSUME Bridge!BridgeAssumption, BridgeInv, SessionsOK', running' = Bridge!Idle, QueueGrows,
         currentPage' \in Bridge!Pages, pageCount' \in Counts \cup {0}, crashed' \in BOOLEAN, want' \in Int,
         turnDone' \in BOOLEAN, UNCHANGED <<sess, docHandle, accepting, pending, turnInFlight, lastTurnDir, uiCall>>,
         \/ UNCHANGED <<dict, dictHandle>>
         \/ dict' \in {"none", "open", "freed"} /\ dictHandle' \in {0, 1} /\ (dictHandle' # 0 => dict' = "open")
  PROVE  BridgeInv'
<1>1. HandlesOK'
  BY DEF BridgeInv, HandlesOK
<1>2. ShellOK'
  BY DEF BridgeInv, ShellOK
<1>3. queue' \in Seq(Tasks) /\ \A t \in Posted' : t \in Posted \/ t.op \in {"idle", "prefetch"}
  BY EndOfTask DEF BridgeInv, TasksOK
<1> QED
  BY <1>1, <1>2, <1>3, BridgeStep

LEMMA JumpKeeps == ASSUME Bridge!BridgeAssumption, BridgeInv, Bridge!RunJump PROVE BridgeInv'
<1> USE DEF BridgeInv
<1>1. /\ running.op \in {"turn", "link"} /\ turnDone' = (turnDone \/ running.op = "turn")
      /\ UNCHANGED <<sess, dict, docHandle, dictHandle, accepting, pending, turnInFlight, lastTurnDir, uiCall>>
      /\ want' = IF running.op = "link" THEN Bridge!Lost ELSE want
  BY DEF Bridge!RunJump, Bridge!Runs
<1>2. running.arg \in Int /\ turnDone' \in BOOLEAN /\ want' \in Int
  BY <1>1 DEF TasksOK, Tasks, Bridge!Idle, ShellOK, Bridge!Lost
<1>3. CASE Bridge!Here
  <2>1. PICK j \in Bridge!nativeJumpToPage(Bridge!Session, running.arg) :
          \E v \in Bridge!Shown(j.c, pageCount) :
            /\ Bridge!RenderAndBlit(v, pageCount)
            /\ \E s \in IF v.reject THEN {j} ELSE Bridge!nativeSavePosition(j.c) :
                 core' = [core EXCEPT ![docHandle] = s.c]
    BY <1>3 DEF Bridge!RunJump
  <2>2. PICK v \in Bridge!Shown(j.c, pageCount) :
            /\ Bridge!RenderAndBlit(v, pageCount)
            /\ \E s \in IF v.reject THEN {j} ELSE Bridge!nativeSavePosition(j.c) :
                 core' = [core EXCEPT ![docHandle] = s.c]
    BY <2>1
  <2>3. docHandle \in Bridge!Handles /\ j.c \in Sessions
    BY <1>2, <1>3, Open, Jumps
  <2>4. \E c \in Sessions : core' = [core EXCEPT ![docHandle] = c]
    BY <2>2, <2>3, QuietCall
  <2>5. SessionsOK'
    BY <2>3, <2>4, Stored
  <2>6. pageCount \in Counts \cup {0}
    BY DEF ShellOK
  <2> QED
    BY <1>1, <1>2, <2>2, <2>3, <2>5, <2>6, Blits, EngineStep
<1>4. CASE ~Bridge!Here
  <2>1. running' = Bridge!Idle /\ UNCHANGED <<core, currentPage, pageCount, queue, crashed>>
    BY <1>4 DEF Bridge!RunJump
  <2>2. SessionsOK' /\ QueueGrows /\ currentPage' \in Bridge!Pages /\ pageCount' \in Counts \cup {0} /\ crashed' \in BOOLEAN
    BY <2>1 DEF SessionsOK, QueueGrows, ShellOK
  <2> QED
    BY <1>1, <1>2, <2>1, <2>2, EngineStep
<1> QED
  BY <1>3, <1>4

(* The next handle has not been used. *)
LEMMA NextIsNew ==
  ASSUME Bridge!BridgeAssumption, HandlesOK, NEW n \in Bridge!Handles, n = Bridge!NextHandle
  PROVE  /\ sess[n] = "none" /\ n # docHandle /\ n # 0 /\ n \in 0 .. MaxHandle
         /\ \A h \in Bridge!Handles : sess[h] # "none" \/ h = n <=> h <= n
<1>1. PICK m \in 0 .. MaxHandle : \A h \in Bridge!Handles : sess[h] # "none" <=> h <= m
  BY DEF HandlesOK
<1>2. MaxHandle \in Nat \ {0}
  BY DEF Bridge!BridgeAssumption
<1>3. {h \in Bridge!Handles : sess[h] # "none"} = 1 .. m
  BY <1>1, <1>2 DEF Bridge!Handles
<1>4. Bridge!Cardinality(1 .. m) = m
  <2>1. m \in Int /\ 1 \in Int
    BY <1>2
  <2>2. Fs!Cardinality(1 .. m) = IF 1 > m THEN 0 ELSE m - 1 + 1
    BY <2>1, Fs!FS_Interval
  <2>3. Bridge!Cardinality(1 .. m) = Fs!Cardinality(1 .. m)
    BY DEF Bridge!Cardinality, Fs!Cardinality
  <2> QED
    BY <1>2, <2>2, <2>3
<1>5. n = m + 1
  BY <1>3, <1>4 DEF Bridge!NextHandle
<1> QED
  BY <1>1, <1>2, <1>5 DEF HandlesOK, Bridge!Handles

(* A session is opened under the next handle, the field's one, if any, closed. *)
LEMMA OpensHandle ==
  ASSUME Bridge!BridgeAssumption, HandlesOK, NEW n \in Bridge!Handles, n = Bridge!NextHandle, UNCHANGED <<dict, dictHandle>>,
         NEW freed, freed = IF Bridge!Here THEN [sess EXCEPT ![docHandle] = "freed"] ELSE sess
  PROVE  /\ docHandle' = n /\ sess' = [freed EXCEPT ![n] = "open"] => HandlesOK'
         /\ docHandle' = 0 /\ sess' = freed => HandlesOK'
<1>1. /\ sess[n] = "none" /\ n # docHandle /\ n # 0 /\ n \in 0 .. MaxHandle
      /\ \A h \in Bridge!Handles : sess[h] # "none" \/ h = n <=> h <= n
  BY NextIsNew
<1>2. /\ sess \in [Bridge!Handles -> {"none", "open", "freed"}] /\ docHandle \in 0 .. MaxHandle
      /\ \A h \in Bridge!Handles : sess[h] = "open" <=> h = docHandle
      /\ dict \in {"none", "open", "freed"} /\ dictHandle \in {0, 1} /\ (dictHandle # 0 => dict = "open")
  BY DEF HandlesOK
<1>3. Bridge!Here => docHandle \in Bridge!Handles
  BY <1>2 DEF Bridge!Here, Bridge!Handles
<1>4. /\ freed \in [Bridge!Handles -> {"none", "open", "freed"}]
      /\ \A h \in Bridge!Handles : freed[h] # "open" /\ (freed[h] # "none" <=> sess[h] # "none")
  <2>1. CASE Bridge!Here
    BY <1>2, <1>3, <2>1
  <2>2. CASE ~Bridge!Here
    <3>1. docHandle = 0 /\ freed = sess
      BY <2>2 DEF Bridge!Here
    <3>2. \A h \in Bridge!Handles : h # 0
      BY DEF Bridge!Handles
    <3> QED
      BY <1>2, <3>1, <3>2
  <2> QED
    BY <2>1, <2>2
<1>5. ASSUME docHandle' = n, sess' = [freed EXCEPT ![n] = "open"] PROVE HandlesOK'
  <2>1. \A h \in Bridge!Handles : sess'[h] = IF h = n THEN "open" ELSE freed[h]
    BY <1>4, <1>5
  <2>2. sess' \in [Bridge!Handles -> {"none", "open", "freed"}]
    BY <1>4, <1>5
  <2>3. \A h \in Bridge!Handles : sess'[h] # "none" <=> h <= n
    BY <1>1, <1>4, <2>1
  <2>4. \A h \in Bridge!Handles : sess'[h] = "open" <=> h = n
    BY <1>4, <2>1
  <2> QED
    BY <1>1, <1>2, <1>5, <2>2, <2>3, <2>4 DEF HandlesOK
<1>6. ASSUME docHandle' = 0, sess' = freed PROVE HandlesOK'
  <2>1. PICK m \in 0 .. MaxHandle : \A h \in Bridge!Handles : sess[h] # "none" <=> h <= m
    BY DEF HandlesOK
  <2>2. \A h \in Bridge!Handles : h # 0
    BY DEF Bridge!Handles
  <2>3. \A h \in Bridge!Handles : freed[h] # "none" <=> h <= m
    BY <1>4, <2>1
  <2>4. 0 \in 0 .. MaxHandle
    BY DEF Bridge!BridgeAssumption
  <2> QED
    BY <1>2, <1>4, <1>6, <2>2, <2>3, <2>4 DEF HandlesOK
<1> QED
  BY <1>5, <1>6

(* The two ways of opening a session: the field was empty, or its session has just been closed. *)
LEMMA Opened ==
  ASSUME Bridge!BridgeAssumption, HandlesOK, SessionsOK, ShellOK, NEW n \in Bridge!Handles, n = Bridge!NextHandle,
         NEW freed, freed = IF Bridge!Here THEN [sess EXCEPT ![docHandle] = "freed"] ELSE sess,
         NEW o \in Bridge!nativeOpenDocumentWithStore, UNCHANGED <<dict, dictHandle>>,
         want' = IF o.threw THEN Bridge!Lost ELSE o.c.page, docHandle' = IF o.threw THEN 0 ELSE n,
         sess' = IF o.threw THEN freed ELSE [freed EXCEPT ![n] = "open"],
         IF o.threw THEN running' = Bridge!Idle /\ UNCHANGED <<currentPage, pageCount, lastPrefetched, queue, crashed>>
                    ELSE \E v \in Bridge!Shown(o.c, o.c.pages) : Bridge!RenderAndBlit(v, o.c.pages)
  PROVE  /\ HandlesOK' /\ running' = Bridge!Idle /\ QueueGrows /\ want' \in Int
         /\ currentPage' \in Bridge!Pages /\ pageCount' \in Counts \cup {0} /\ crashed' \in BOOLEAN
<1>1. o.c \in Sessions /\ o.threw \in BOOLEAN
  BY Opens
<1>2. HandlesOK'
  BY <1>1, OpensHandle
<1>3. PICK top \in Nat : Bridge!Pages = 0 .. top
  BY PagesAre
<1>4. want' \in Int
  BY <1>1, <1>3 DEF Bridge!Lost, Sessions
<1>5. CASE o.threw
  BY <1>2, <1>4, <1>5 DEF QueueGrows, ShellOK
<1>6. CASE ~o.threw
  <2>1. PICK v \in Bridge!Shown(o.c, o.c.pages) : Bridge!RenderAndBlit(v, o.c.pages)
    BY <1>6
  <2>2. o.c.pages \in Counts \cup {0}
    BY <1>1 DEF Sessions
  <2>3. /\ currentPage' = v.page /\ v.page \in Bridge!Pages /\ pageCount' = o.c.pages
        /\ crashed' \in BOOLEAN /\ running' = Bridge!Idle /\ QueueGrows
    BY <1>1, <2>1, <2>2, Blits
  <2> QED
    BY <1>2, <1>4, <2>2, <2>3
<1> QED
  BY <1>5, <1>6

(* openBook into an empty field: the cases of a failed open and of an open one. *)
LEMMA OpensBook ==
  ASSUME Bridge!BridgeAssumption, BridgeInv, ~Bridge!Here, NEW n \in Bridge!Handles, n = Bridge!NextHandle,
         Bridge!OpenBook(n, sess), UNCHANGED <<dict, dictHandle, accepting, pending, turnInFlight, lastTurnDir, turnDone, uiCall>>
  PROVE  BridgeInv' /\ \A h \in Bridge!Handles : sess[h] = "open" => sess'[h] = "open"
<1> USE DEF BridgeInv
<1>1. PICK o \in Bridge!nativeOpenDocumentWithStore :
        /\ want' = IF o.threw THEN Bridge!Lost ELSE o.c.page
        /\ IF o.threw
           THEN /\ docHandle' = 0 /\ sess' = sess
                /\ UNCHANGED <<core, currentPage, pageCount, lastPrefetched, queue, crashed>>
                /\ running' = Bridge!Idle
           ELSE /\ docHandle' = n /\ sess' = [sess EXCEPT ![n] = "open"]
                /\ \E a \in Bridge!nativeAttachInkStore(o.c) : \E m \in Bridge!MetadataExports(a.c) :
                     core' = [core EXCEPT ![n] = m.c]
                /\ \E v \in Bridge!Shown(o.c, o.c.pages) : Bridge!RenderAndBlit(v, o.c.pages)
  BY DEF Bridge!OpenBook
<1>2. /\ HandlesOK' /\ running' = Bridge!Idle /\ QueueGrows /\ want' \in Int
      /\ currentPage' \in Bridge!Pages /\ pageCount' \in Counts \cup {0} /\ crashed' \in BOOLEAN
  <2>1. /\ docHandle' = (IF o.threw THEN 0 ELSE n) /\ sess' = IF o.threw THEN sess ELSE [sess EXCEPT ![n] = "open"]
        /\ IF o.threw THEN running' = Bridge!Idle /\ UNCHANGED <<currentPage, pageCount, lastPrefetched, queue, crashed>>
                      ELSE \E v \in Bridge!Shown(o.c, o.c.pages) : Bridge!RenderAndBlit(v, o.c.pages)
    BY <1>1
  <2> QED
    BY <1>1, <2>1, Opened
<1>3. SessionsOK'
  <2>1. CASE o.threw
    BY <1>1, <2>1 DEF SessionsOK
  <2>2. CASE ~o.threw
    <3>1. PICK a \in Bridge!nativeAttachInkStore(o.c) : \E m \in Bridge!MetadataExports(a.c) : core' = [core EXCEPT ![n] = m.c]
      BY <1>1, <2>2
    <3>2. PICK m \in Bridge!MetadataExports(a.c) : core' = [core EXCEPT ![n] = m.c]
      BY <3>1
    <3>3. a.c \in Sessions
      BY <3>1, Opens, QuietCall
    <3>4. m.c \in Sessions
      BY <3>2, <3>3, QuietCall
    <3> QED
      BY <3>2, <3>4, Stored
  <2> QED
    BY <2>1, <2>2
<1>4. \A h \in Bridge!Handles : sess[h] = "open" => sess'[h] = "open"
  BY <1>1 DEF HandlesOK
<1>5. ShellOK'
  BY <1>2 DEF ShellOK
<1>6. queue' \in Seq(Tasks) /\ \A t \in Posted' : t \in Posted \/ t.op \in {"idle", "prefetch"}
  BY <1>2, EndOfTask DEF TasksOK
<1> QED
  BY <1>2, <1>3, <1>4, <1>5, <1>6, BridgeStep

LEMMA SurfaceKeeps == ASSUME Bridge!BridgeAssumption, BridgeInv, Bridge!RunSurface PROVE BridgeInv'
<1> USE DEF BridgeInv
<1>1. UNCHANGED <<dict, dictHandle, accepting, pending, turnInFlight, lastTurnDir, turnDone, uiCall>>
  BY DEF Bridge!RunSurface, Bridge!uiVars
<1>2. CASE ~Bridge!Here /\ Bridge!NextHandle \in Bridge!Handles /\ Bridge!OpenBook(Bridge!NextHandle, sess)
  BY <1>1, <1>2, OpensBook
<1>3. CASE running' = Bridge!Idle /\ UNCHANGED <<sess, core, docHandle, currentPage, pageCount, lastPrefetched, queue, crashed, want>>
  <2>1. SessionsOK' /\ QueueGrows /\ currentPage' \in Bridge!Pages /\ pageCount' \in Counts \cup {0} /\ crashed' \in BOOLEAN
        /\ want' \in Int /\ turnDone' \in BOOLEAN
    BY <1>1, <1>3 DEF SessionsOK, QueueGrows, ShellOK
  <2> QED
    BY <1>1, <1>3, <2>1, EngineStep
<1>4. CASE /\ Bridge!Here
           /\ \E r \in Bridge!nativeSetViewport(Bridge!Session) : \E v \in Bridge!Shown(r.c, pageCount) :
                core' = [core EXCEPT ![docHandle] = r.c] /\ Bridge!RenderAndBlit(v, pageCount)
           /\ want' = Bridge!Lost /\ UNCHANGED <<sess, docHandle>>
  <2>1. PICK r \in Bridge!nativeSetViewport(Bridge!Session) : \E v \in Bridge!Shown(r.c, pageCount) :
                core' = [core EXCEPT ![docHandle] = r.c] /\ Bridge!RenderAndBlit(v, pageCount)
    BY <1>4
  <2>2. PICK v \in Bridge!Shown(r.c, pageCount) :
                core' = [core EXCEPT ![docHandle] = r.c] /\ Bridge!RenderAndBlit(v, pageCount)
    BY <2>1
  <2>3. docHandle \in Bridge!Handles /\ r.c \in Sessions
    BY <1>4, Open, Relayouts
  <2>4. SessionsOK'
    BY <2>2, <2>3, Stored
  <2>5. pageCount \in Counts \cup {0} /\ want' \in Int /\ turnDone' \in BOOLEAN
    BY <1>1, <1>4 DEF ShellOK, Bridge!Lost
  <2> QED
    BY <1>1, <1>4, <2>2, <2>3, <2>4, <2>5, Blits, EngineStep
<1> QED
  BY <1>2, <1>3, <1>4 DEF Bridge!RunSurface

(* What a close leaves in the session: clean, at its saved page, when no save fails. *)
LEMMA ClosingSaves ==
  ASSUME NEW c \in Sessions, NEW d \in Bridge!SavedForClose(c)
  PROVE  d \in Sessions /\ (~Failures => d.ink = "clean" /\ d.saved = d.page)
<1>1. PICK i \in Bridge!nativeInkSave(c) : d \in IF i.threw THEN {c} ELSE {s.c : s \in Bridge!nativeSavePosition(i.c)}
  BY DEF Bridge!SavedForClose
<1>2. i.c \in Sessions /\ i.threw \in BOOLEAN /\ (i.threw => Failures) /\ (~i.threw => i.c.ink = "clean")
  <2>1. i.c \in Sessions
    BY QuietCall
  <2>2. i = Bridge!Returns([c EXCEPT !.ink = "clean"]) \/ (Failures /\ i = Bridge!Throws(c))
    BY DEF Bridge!nativeInkSave, Bridge!MayThrow
  <2>3. CASE i = Bridge!Returns([c EXCEPT !.ink = "clean"])
    BY <2>1, <2>3 DEF Bridge!Returns, Sessions
  <2>4. CASE Failures /\ i = Bridge!Throws(c)
    BY <2>1, <2>4 DEF Bridge!Throws
  <2> QED
    BY <2>2, <2>3, <2>4
<1>3. CASE i.threw
  BY <1>1, <1>2, <1>3
<1>4. CASE ~i.threw
  <2>1. PICK s \in Bridge!nativeSavePosition(i.c) : d = s.c
    BY <1>1, <1>4
  <2>2. s.c \in Sessions
    BY <1>2, QuietCall
  <2>3. ~Failures => s.c = [i.c EXCEPT !.saved = i.c.page]
    BY DEF Bridge!nativeSavePosition, Bridge!Returns, Bridge!MayThrow
  <2> QED
    BY <1>2, <1>4, <2>1, <2>2, <2>3 DEF Sessions
<1> QED
  BY <1>2, <1>3, <1>4

LEMMA ImportKeeps == ASSUME Bridge!BridgeAssumption, BridgeInv, Bridge!RunImport PROVE BridgeInv'
<1> USE DEF BridgeInv
<1>1. /\ UNCHANGED <<dict, dictHandle, accepting, pending, turnInFlight, lastTurnDir, turnDone, uiCall>>
      /\ Bridge!NextHandle \in Bridge!Handles /\ running.op = "import"
  BY DEF Bridge!RunImport, Bridge!uiVars, Bridge!Runs
<1>2. CASE ~Bridge!Here
  BY <1>1, <1>2, OpensBook DEF Bridge!RunImport
<1>3. CASE Bridge!Here
  <2> DEFINE n == Bridge!NextHandle
             freed == Bridge!nativeCloseDocument(docHandle, sess)
  <2>1. PICK c \in Bridge!SavedForClose(Bridge!Session), o \in Bridge!nativeOpenDocumentWithStore :
                /\ want' = IF o.threw THEN Bridge!Lost ELSE o.c.page
                /\ core' = [core EXCEPT ![docHandle] = c, ![n] = o.c]
                /\ docHandle' = IF o.threw THEN 0 ELSE n
                /\ sess' = IF o.threw THEN freed ELSE [freed EXCEPT ![n] = "open"]
                /\ IF o.threw
                   THEN running' = Bridge!Idle /\ UNCHANGED <<currentPage, pageCount, lastPrefetched, queue, crashed>>
                   ELSE \E v \in Bridge!Shown(o.c, o.c.pages) : Bridge!RenderAndBlit(v, o.c.pages)
    BY <1>3 DEF Bridge!RunImport
  <2>2. freed = IF Bridge!Here THEN [sess EXCEPT ![docHandle] = "freed"] ELSE sess
    BY <1>3 DEF Bridge!nativeCloseDocument, Bridge!session_mut, Bridge!Here
  <2> HIDE DEF freed, n
  <2>3. n = Bridge!NextHandle /\ n \in Bridge!Handles
    BY <1>1 DEF n
  <2>4. /\ HandlesOK' /\ running' = Bridge!Idle /\ QueueGrows /\ want' \in Int
        /\ currentPage' \in Bridge!Pages /\ pageCount' \in Counts \cup {0} /\ crashed' \in BOOLEAN
    BY <1>1, <2>1, <2>2, <2>3, Opened
  <2>5. c \in Sessions /\ o.c \in Sessions
    BY <1>3, <2>1, Open, ClosingSaves, Opens
  <2>6. SessionsOK'
    BY <2>1, <2>5 DEF SessionsOK
  <2>7. ShellOK'
    BY <1>1, <2>4 DEF ShellOK
  <2>8. queue' \in Seq(Tasks) /\ \A t \in Posted' : t \in Posted \/ t.op \in {"idle", "prefetch"}
    BY <2>4, EndOfTask DEF TasksOK
  <2>9. ~Stays
    BY <1>1 DEF TasksOK, Posted, Stays
  <2> QED
    BY <1>1, <2>4, <2>6, <2>7, <2>8, <2>9, BridgeStep
<1> QED
  BY <1>2, <1>3

LEMMA CloseKeeps == ASSUME Bridge!BridgeAssumption, BridgeInv, Bridge!RunClose PROVE BridgeInv'
<1> USE DEF BridgeInv
<1>1. /\ running.op = "close" /\ running' = Bridge!Idle /\ docHandle' = 0 /\ dictHandle' = 0
      /\ UNCHANGED <<queue, accepting, crashed, currentPage, pageCount, pending, turnInFlight, lastTurnDir, turnDone, uiCall, want>>
      /\ dict' = Bridge!nativeDictClose(dictHandle, dict) /\ sess' = Bridge!nativeCloseDocument(docHandle, sess)
  BY DEF Bridge!RunClose, Bridge!Runs, Bridge!EndTask, Bridge!uiVars
<1>2. ~Stays
  BY <1>1 DEF TasksOK, Posted, Stays
<1>3. HandlesOK'
  <2>1. dict' \in {"none", "open", "freed"} /\ 0 \in 0 .. MaxHandle
    BY <1>1 DEF Bridge!nativeDictClose, HandlesOK, Bridge!BridgeAssumption
  <2>2. /\ \A h \in Bridge!Handles : h # 0
        /\ docHandle # 0 => docHandle \in Bridge!Handles
    BY DEF HandlesOK, Bridge!Handles
  <2>3. /\ sess' \in [Bridge!Handles -> {"none", "open", "freed"}]
        /\ \A h \in Bridge!Handles : sess'[h] # "open" /\ (sess'[h] # "none" <=> sess[h] # "none")
    <3>1. CASE docHandle # 0
      <4>1. sess' = [sess EXCEPT ![docHandle] = "freed"]
        BY <1>1, <3>1 DEF Bridge!nativeCloseDocument, Bridge!session_mut
      <4> QED
        BY <2>2, <3>1, <4>1 DEF HandlesOK
    <3>2. CASE docHandle = 0
      <4>1. sess' = sess
        BY <1>1, <3>2 DEF Bridge!nativeCloseDocument, Bridge!session_mut
      <4> QED
        BY <2>2, <3>2, <4>1 DEF HandlesOK
    <3> QED
      BY <3>1, <3>2
  <2> QED
    BY <1>1, <2>1, <2>2, <2>3 DEF HandlesOK
<1>4. SessionsOK'
  <2>1. CASE Bridge!Here
    <3>1. PICK c \in Bridge!SavedForClose(Bridge!Session) : core' = [core EXCEPT ![docHandle] = c]
      BY <2>1 DEF Bridge!RunClose
    <3> QED
      BY <2>1, <3>1, Open, ClosingSaves, Stored
  <2>2. CASE ~Bridge!Here
    BY <2>2 DEF Bridge!RunClose, SessionsOK
  <2> QED
    BY <2>1, <2>2
<1>5. ShellOK'
  BY <1>1 DEF ShellOK
<1>6. queue' \in Seq(Tasks) /\ \A t \in Posted' : t \in Posted \/ t.op \in {"idle", "prefetch"}
  BY <1>1, EndOfTask DEF TasksOK, QueueGrows
<1> QED
  BY <1>1, <1>2, <1>3, <1>4, <1>5, <1>6, BridgeStep

(* A task that changes the field's session, or the corpus, and nothing the shell shows. *)
LEMMA TaskKeeps ==
  ASSUME Bridge!BridgeAssumption, BridgeInv, SessionsOK', running' = Bridge!Idle,
         UNCHANGED <<sess, docHandle, currentPage, pageCount, queue, accepting, pending, turnInFlight, lastTurnDir, turnDone,
                     uiCall, want>>, crashed' \in BOOLEAN,
         \/ UNCHANGED <<dict, dictHandle>>
         \/ dict' \in {"none", "open", "freed"} /\ dictHandle' \in {0, 1} /\ (dictHandle' # 0 => dict' = "open")
  PROVE  BridgeInv'
<1>1. QueueGrows
  BY DEF QueueGrows
<1>2. currentPage' \in Bridge!Pages /\ pageCount' \in Counts \cup {0} /\ want' \in Int /\ turnDone' \in BOOLEAN
  BY DEF BridgeInv, ShellOK
<1> QED
  BY <1>1, <1>2, EngineStep

LEMMA PauseSaveKeeps == ASSUME Bridge!BridgeAssumption, BridgeInv, Bridge!RunPauseSave PROVE BridgeInv'
<1> USE DEF BridgeInv
<1>1. /\ running' = Bridge!Idle /\ crashed' \in BOOLEAN
      /\ UNCHANGED <<sess, docHandle, currentPage, pageCount, queue, accepting, pending, turnInFlight, lastTurnDir, turnDone,
                     uiCall, want, dict, dictHandle>>
  BY DEF Bridge!RunPauseSave, Bridge!EndTask, Bridge!shellVars, Bridge!uiVars, ShellOK
<1>2. SessionsOK'
  <2>1. CASE Bridge!Here
    <3>1. PICK i \in Bridge!nativeInkSave(Bridge!Session) : \E s \in Bridge!nativeSavePosition(i.c) :
            core' = [core EXCEPT ![docHandle] = s.c]
      BY <2>1 DEF Bridge!RunPauseSave
    <3>2. PICK s \in Bridge!nativeSavePosition(i.c) : core' = [core EXCEPT ![docHandle] = s.c]
      BY <3>1
    <3>3. i.c \in Sessions
      BY <2>1, Open, QuietCall
    <3>4. s.c \in Sessions
      BY <3>3, QuietCall
    <3> QED
      BY <2>1, <3>2, <3>4, Open, Stored
  <2>2. CASE ~Bridge!Here
    BY <2>2 DEF Bridge!RunPauseSave, SessionsOK
  <2> QED
    BY <2>1, <2>2
<1> QED
  BY <1>1, <1>2, TaskKeeps

LEMMA InkEditKeeps == ASSUME Bridge!BridgeAssumption, BridgeInv, Bridge!RunInkEdit PROVE BridgeInv'
<1> USE DEF BridgeInv
<1>1. /\ running' = Bridge!Idle /\ crashed' \in BOOLEAN
      /\ UNCHANGED <<sess, docHandle, currentPage, pageCount, queue, accepting, pending, turnInFlight, lastTurnDir, turnDone,
                     uiCall, want, dict, dictHandle>>
  BY DEF Bridge!RunInkEdit, Bridge!EndTask, Bridge!shellVars, ShellOK
<1>2. SessionsOK'
  <2>1. CASE Bridge!Here
    <3>1. PICK e \in Bridge!InkStrokeExports(Bridge!Session) \cup Bridge!HistoryExports(Bridge!Session)
                     \cup Bridge!SelectionEditExports(Bridge!Session) \cup Bridge!SelectionReadExports(Bridge!Session) :
            core' = [core EXCEPT ![docHandle] = e.c]
      BY <2>1 DEF Bridge!RunInkEdit
    <3> QED
      BY <2>1, <3>1, Open, QuietCall, Stored
  <2>2. CASE ~Bridge!Here
    BY <2>2 DEF Bridge!RunInkEdit, SessionsOK
  <2> QED
    BY <2>1, <2>2
<1> QED
  BY <1>1, <1>2, TaskKeeps

LEMMA FlushKeeps == ASSUME Bridge!BridgeAssumption, BridgeInv, Bridge!RunFlush PROVE BridgeInv'
<1> USE DEF BridgeInv
<1>1. /\ running' = Bridge!Idle /\ running.op = "flush"
      /\ UNCHANGED <<sess, docHandle, currentPage, pageCount, queue, accepting, pending, turnInFlight, lastTurnDir, turnDone,
                     uiCall, want, dict, dictHandle>>
  BY DEF Bridge!RunFlush, Bridge!Runs, Bridge!shellVars, Bridge!uiVars
<1>2. running.arg \in Bridge!Handles
  BY <1>1 DEF TasksOK, Posted
<1>3. CASE sess[running.arg] = "open"
  <2>1. PICK i \in Bridge!nativeInkSave(core[running.arg]) : core' = [core EXCEPT ![running.arg] = i.c]
    BY <1>3 DEF Bridge!RunFlush
  <2>2. crashed' = crashed
    BY <1>3 DEF Bridge!RunFlush
  <2>3. core[running.arg] \in Sessions
    BY <1>2 DEF SessionsOK
  <2>4. SessionsOK' /\ crashed' \in BOOLEAN
    BY <1>2, <2>1, <2>2, <2>3, QuietCall, Stored DEF ShellOK
  <2> QED
    BY <1>1, <2>4, TaskKeeps
<1>4. CASE sess[running.arg] # "open"
  <2>1. SessionsOK' /\ crashed' \in BOOLEAN
    BY <1>4 DEF Bridge!RunFlush, SessionsOK
  <2> QED
    BY <1>1, <2>1, TaskKeeps
<1> QED
  BY <1>3, <1>4

LEMMA ReflowKeeps == ASSUME Bridge!BridgeAssumption, BridgeInv, Bridge!RunReflow PROVE BridgeInv'
<1> USE DEF BridgeInv
<1>1. UNCHANGED <<sess, dict, docHandle, dictHandle, accepting, pending, turnInFlight, lastTurnDir, turnDone, uiCall>>
  BY DEF Bridge!RunReflow, Bridge!uiVars
<1>2. CASE running' = Bridge!Idle /\ SessionsOK' /\ UNCHANGED <<want, currentPage, pageCount, queue, crashed>>
  <2>1. crashed' \in BOOLEAN
    BY <1>2 DEF ShellOK
  <2> QED
    BY <1>1, <1>2, <2>1, TaskKeeps
<1>3. CASE Bridge!Here
  <2>1. PICK r \in Bridge!TypographyExports(Bridge!Session) \cup Bridge!nativeSetReflow(Bridge!Session) :
            /\ core' = [core EXCEPT ![docHandle] = r.c]
            /\ IF r.page >= 0
               THEN want' = Bridge!Lost /\ \E v \in Bridge!Shown(r.c, r.c.pages) : Bridge!RenderAndBlit(v, r.c.pages)
               ELSE /\ running' = Bridge!Idle
                    /\ UNCHANGED <<want, currentPage, pageCount, lastPrefetched, queue, crashed>>
    BY <1>3 DEF Bridge!RunReflow
  <2>2. docHandle \in Bridge!Handles /\ r.c \in Sessions
    BY <1>3, Open, Relayouts
  <2>3. SessionsOK'
    BY <2>1, <2>2, Stored
  <2>4. CASE r.page >= 0
    <3>1. PICK v \in Bridge!Shown(r.c, r.c.pages) : Bridge!RenderAndBlit(v, r.c.pages)
      BY <2>1, <2>4
    <3>2. r.c.pages \in Counts \cup {0} /\ want' \in Int /\ turnDone' \in BOOLEAN
      BY <1>1, <2>1, <2>2, <2>4 DEF ShellOK, Sessions, Bridge!Lost
    <3> QED
      BY <1>1, <2>2, <2>3, <3>1, <3>2, Blits, EngineStep
  <2>5. CASE ~(r.page >= 0)
    BY <1>2, <2>1, <2>3, <2>5
  <2> QED
    BY <2>4, <2>5
<1>4. CASE ~Bridge!Here
  <2>1. running' = Bridge!Idle /\ UNCHANGED <<core, want, currentPage, pageCount, queue, crashed>>
    BY <1>4 DEF Bridge!RunReflow
  <2>2. SessionsOK'
    BY <2>1 DEF SessionsOK
  <2> QED
    BY <1>2, <2>1, <2>2
<1> QED
  BY <1>3, <1>4

LEMMA ViewKeeps == ASSUME Bridge!BridgeAssumption, BridgeInv, Bridge!RunView PROVE BridgeInv'
<1> USE DEF BridgeInv
<1>1. UNCHANGED <<sess, dict, docHandle, dictHandle, accepting, pending, turnInFlight, lastTurnDir, turnDone, uiCall, want>>
  BY DEF Bridge!RunView, Bridge!uiVars
<1>2. CASE Bridge!Here
  <2>1. PICK r \in Bridge!ViewExports(Bridge!Session) : \E v \in Bridge!Shown(r.c, pageCount) :
            core' = [core EXCEPT ![docHandle] = r.c] /\ Bridge!RenderAndBlit(v, pageCount)
    BY <1>2 DEF Bridge!RunView
  <2>2. PICK v \in Bridge!Shown(r.c, pageCount) :
            core' = [core EXCEPT ![docHandle] = r.c] /\ Bridge!RenderAndBlit(v, pageCount)
    BY <2>1
  <2>3. docHandle \in Bridge!Handles /\ r.c \in Sessions
    BY <1>2, Open, QuietCall
  <2>4. SessionsOK'
    BY <2>2, <2>3, Stored
  <2>5. pageCount \in Counts \cup {0} /\ want' \in Int /\ turnDone' \in BOOLEAN
    BY <1>1 DEF ShellOK
  <2> QED
    BY <1>1, <2>2, <2>3, <2>4, <2>5, Blits, EngineStep
<1>3. CASE ~Bridge!Here
  <2>1. running' = Bridge!Idle /\ UNCHANGED <<core, currentPage, pageCount, queue, crashed>>
    BY <1>3 DEF Bridge!RunView
  <2>2. SessionsOK' /\ crashed' \in BOOLEAN
    BY <2>1 DEF SessionsOK, ShellOK
  <2> QED
    BY <1>1, <2>1, <2>2, TaskKeeps
<1> QED
  BY <1>2, <1>3

LEMMA ReadKeeps == ASSUME Bridge!BridgeAssumption, BridgeInv, Bridge!RunRead PROVE BridgeInv'
<1> USE DEF BridgeInv
<1>1. /\ running' = Bridge!Idle /\ crashed' \in BOOLEAN
      /\ UNCHANGED <<sess, docHandle, currentPage, pageCount, queue, accepting, pending, turnInFlight, lastTurnDir, turnDone,
                     uiCall, want, dict, dictHandle>>
  BY DEF Bridge!RunRead, Bridge!EndTask, Bridge!shellVars, Bridge!uiVars, ShellOK
<1>2. CASE UNCHANGED core
  BY <1>1, <1>2, TaskKeeps DEF SessionsOK
<1>3. CASE Bridge!Here /\ \E r \in Bridge!nativePrefetchPage(Bridge!Session) \cup Bridge!nativeOnTrimMemory(Bridge!Session)
                              \cup Bridge!TextExports(Bridge!Session) \cup Bridge!NavigationExports(Bridge!Session)
                              \cup Bridge!InkReadExports(Bridge!Session) \cup Bridge!nativeExportPdf(Bridge!Session) :
             core' = [core EXCEPT ![docHandle] = r.c]
  BY <1>1, <1>3, Open, QuietCall, Stored, TaskKeeps
<1> QED
  BY <1>2, <1>3 DEF Bridge!RunRead, Bridge!Searches, Bridge!Runs

LEMMA DefineKeeps == ASSUME Bridge!BridgeAssumption, BridgeInv, Bridge!RunDefine PROVE BridgeInv'
<1> USE DEF BridgeInv
<1>1. /\ running' = Bridge!Idle /\ crashed' \in BOOLEAN
      /\ UNCHANGED <<sess, core, docHandle, currentPage, pageCount, queue, accepting, pending, turnInFlight, lastTurnDir,
                     turnDone, uiCall, want>>
  BY DEF Bridge!RunDefine, Bridge!EndTask, Bridge!uiVars, ShellOK
<1>2. SessionsOK'
  BY <1>1 DEF SessionsOK
<1>3. \/ UNCHANGED <<dict, dictHandle>>
      \/ dict' \in {"none", "open", "freed"} /\ dictHandle' \in {0, 1} /\ (dictHandle' # 0 => dict' = "open")
  <2>1. CASE ~Bridge!Here
    BY <2>1 DEF Bridge!RunDefine
  <2>2. CASE Bridge!Here
    <3>1. PICK d \in IF Bridge!dict_ref(dictHandle) THEN {dict} ELSE Bridge!nativeDictOpen :
            dict' \in Bridge!DictExports(d) /\ dictHandle' = IF d = "open" THEN 1 ELSE 0
      BY <2>2 DEF Bridge!RunDefine
    <3>2. d \in {"none", "open", "freed"} /\ dict' = d
      BY <3>1 DEF Bridge!DictExports, Bridge!nativeDictOpen, HandlesOK
    <3> QED
      BY <3>1, <3>2
  <2> QED
    BY <2>1, <2>2
<1> QED
  BY <1>1, <1>2, <1>3, TaskKeeps

(* A task the UI thread may post. *)
MayPost(t) ==
    /\ t \in Tasks
    /\ t.op = "import" => "import" \in Inputs
    /\ t.op = "close" => "destroy" \in Inputs
    /\ t.op = "flush" => "flush" \in Inputs /\ t.arg \in Bridge!Handles /\ sess[t.arg] = "open"

(* A step of the UI thread posts at most one task and leaves the sessions alone. *)
LEMMA UiStep ==
  ASSUME Bridge!BridgeAssumption, BridgeInv, UNCHANGED <<Bridge!coreVars, Bridge!shellVars, running>>,
         queue' = queue \/ \E t \in Tasks : MayPost(t) /\ queue' = Append(queue, t),
         turnInFlight' \in BOOLEAN, turnDone' \in BOOLEAN, accepting' \in BOOLEAN, crashed' \in BOOLEAN,
         lastTurnDir' \in {-1, 1}, pending' \in Int, want' \in Int,
         uiCall' \in {uiCall, 0} \/ (uiCall' \in Bridge!Handles /\ "sheet" \in Inputs /\ sess[uiCall'] = "open")
  PROVE  BridgeInv'
<1> USE DEF BridgeInv, Bridge!coreVars, Bridge!shellVars
<1>1. HandlesOK' /\ SessionsOK' /\ ShellOK'
  BY DEF HandlesOK, SessionsOK, ShellOK
<1>2. queue' \in Seq(Tasks) /\ \A t \in Posted' : t \in Posted \/ MayPost(t)
  <2>1. CASE queue' = queue
    BY <2>1 DEF Posted, TasksOK
  <2>2. ASSUME NEW t \in Tasks, MayPost(t), queue' = Append(queue, t)
        PROVE  queue' \in Seq(Tasks) /\ \A u \in Posted' : u \in Posted \/ MayPost(u)
    BY <2>2, Posting DEF Posted, TasksOK
  <2> QED
    BY <2>1, <2>2
<1>3. TasksOK'
  BY <1>2 DEF TasksOK, MayPost
<1>4. CallsOK'
  <2>1. uiCall' \in 0 .. MaxHandle /\ (uiCall' # 0 => "sheet" \in Inputs)
    BY DEF CallsOK, Bridge!Handles, Bridge!BridgeAssumption
  <2>2. ASSUME Stays PROVE /\ \A t \in Posted' : t.op = "flush" => sess'[t.arg] = "open"
                           /\ uiCall' # 0 => sess'[uiCall'] = "open"
    BY <1>2, <2>2 DEF CallsOK, MayPost
  <2> QED
    BY <2>1, <2>2 DEF CallsOK
<1> QED
  BY <1>1, <1>3, <1>4

LEMMA TakeKeeps == ASSUME Bridge!BridgeAssumption, BridgeInv, Bridge!Take PROVE BridgeInv'
<1> USE DEF BridgeInv
<1>1. /\ UNCHANGED <<sess, core, dict, docHandle, dictHandle, currentPage, pageCount, accepting, pending, turnInFlight,
                     lastTurnDir, turnDone, uiCall, crashed, want>>
  BY DEF Bridge!Take, Bridge!coreVars, Bridge!shellVars, Bridge!uiVars
<1>2. queue' \in Seq(Tasks) /\ running' \in Tasks \cup {Bridge!Idle} /\ Posted' \subseteq Posted
  BY Taking DEF TasksOK
<1>3. HandlesOK' /\ SessionsOK' /\ ShellOK'
  BY <1>1 DEF HandlesOK, SessionsOK, ShellOK
<1> QED
  BY <1>1, <1>2, <1>3, BridgeStep

LEMMA PostInputKeeps == ASSUME Bridge!BridgeAssumption, BridgeInv, NEW i \in Inputs, Bridge!PostInput(i) PROVE BridgeInv'
<1> USE DEF BridgeInv
<1>1. UNCHANGED <<Bridge!coreVars, Bridge!shellVars, running, accepting, pending, turnInFlight, lastTurnDir, turnDone,
                  uiCall, crashed, want>>
  BY DEF Bridge!PostInput, Bridge!Post, Bridge!uiVars
<1>2. \E t \in Tasks : MayPost(t) /\ queue' = Append(queue, t)
  <2>1. PICK top \in Nat : Bridge!Pages = 0 .. top
    BY PagesAre
  <2>2. CASE i \in {"surface", "inkEdit", "reflow", "view", "trim", "define", "lists", "export"} /\ Bridge!Post(Bridge!Task(i, 0))
    BY <2>2 DEF Bridge!Post, Bridge!Task, Tasks, Ops, MayPost
  <2>3. CASE \E p \in Bridge!Pages : Bridge!Post(Bridge!Task("link", p))
    BY <2>1, <2>3 DEF Bridge!Post, Bridge!Task, Tasks, Ops, MayPost
  <2>4. CASE Bridge!Post(Bridge!Task("search", docHandle))
    BY <2>4 DEF Bridge!Post, Bridge!Task, Tasks, Ops, MayPost, HandlesOK
  <2> QED
    BY <2>2, <2>3, <2>4 DEF Bridge!PostInput
<1> QED
  BY <1>1, <1>2, UiStep DEF ShellOK

(* Draining the delta: a page of the document is asked for, if any. *)
LEMMA Drains ==
  ASSUME Bridge!BridgeAssumption, BridgeInv, NEW d \in Int, Bridge!FlushTurns(d)
  PROVE  /\ pending' \in Int /\ turnInFlight' \in BOOLEAN /\ crashed' \in BOOLEAN /\ accepting' \in BOOLEAN /\ running' = running
         /\ queue' = queue \/ \E t \in Tasks : MayPost(t) /\ queue' = Append(queue, t)
<1> USE DEF BridgeInv
<1> DEFINE n == IF pageCount < 1 THEN 1 ELSE pageCount
           target == Bridge!ClampPage(currentPage + d, n)
           jumps == d # 0 /\ target # currentPage
<1>1. /\ pending' = 0 /\ turnInFlight' = jumps /\ crashed' = (jumps /\ ~accepting)
      /\ IF jumps /\ accepting THEN Bridge!Post(Bridge!Task("turn", target)) ELSE UNCHANGED <<queue, running, accepting>>
  BY DEF Bridge!FlushTurns, Bridge!engineVars
<1>2. target \in Int
  BY PagesAre DEF Bridge!ClampPage, ShellOK
<1> HIDE DEF target
<1>3. jumps \in BOOLEAN /\ accepting \in BOOLEAN
  BY DEF ShellOK
<1>4. CASE jumps /\ accepting
  <2>1. queue' = Append(queue, Bridge!Task("turn", target)) /\ UNCHANGED <<running, accepting>>
    BY <1>1, <1>4 DEF Bridge!Post
  <2>2. Bridge!Task("turn", target) \in Tasks /\ MayPost(Bridge!Task("turn", target))
    BY <1>2 DEF Bridge!Task, Tasks, Ops, MayPost
  <2>3. /\ pending' = 0 /\ turnInFlight' \in BOOLEAN /\ crashed' \in BOOLEAN
    BY <1>1, <1>3
  <2> QED
    BY <1>3, <2>1, <2>2, <2>3
<1>5. CASE ~(jumps /\ accepting)
  BY <1>1, <1>3, <1>5
<1> QED
  BY <1>4, <1>5

LEMMA TapKeeps == ASSUME Bridge!BridgeAssumption, BridgeInv, Bridge!Tap PROVE BridgeInv'
<1> USE DEF BridgeInv
<1>1. PICK d \in {-1, 1} :
        /\ lastTurnDir' = d
        /\ IF turnInFlight
           THEN pending' = pending + d /\ UNCHANGED <<turnInFlight, Bridge!engineVars, crashed>>
           ELSE Bridge!FlushTurns(pending + d)
        /\ want' = IF want # Bridge!Lost /\ want + d \in 0 .. pageCount - 1 THEN want + d ELSE Bridge!Lost
        /\ UNCHANGED <<Bridge!coreVars, Bridge!shellVars, turnDone, flushTimer, phase, uiCall>>
  BY DEF Bridge!Tap
<1>2. want' \in Int /\ lastTurnDir' \in {-1, 1} /\ turnDone' \in BOOLEAN /\ pending + d \in Int
  BY <1>1 DEF ShellOK, Bridge!Lost
<1>3. /\ pending' \in Int /\ turnInFlight' \in BOOLEAN /\ crashed' \in BOOLEAN /\ accepting' \in BOOLEAN /\ running' = running
      /\ queue' = queue \/ \E t \in Tasks : MayPost(t) /\ queue' = Append(queue, t)
  <2>1. CASE turnInFlight
    BY <1>1, <1>2, <2>1 DEF ShellOK, Bridge!engineVars
  <2>2. CASE ~turnInFlight
    BY <1>1, <1>2, <2>2, Drains
  <2> QED
    BY <2>1, <2>2
<1> QED
  BY <1>1, <1>2, <1>3, UiStep

LEMMA TurnDoneKeeps == ASSUME Bridge!BridgeAssumption, BridgeInv, Bridge!TurnDone PROVE BridgeInv'
<1> USE DEF BridgeInv
<1>1. /\ turnDone' = FALSE /\ Bridge!FlushTurns(pending)
      /\ UNCHANGED <<Bridge!coreVars, Bridge!shellVars, lastTurnDir, uiCall, want>>
  BY DEF Bridge!TurnDone
<1>2. pending \in Int /\ lastTurnDir \in {-1, 1} /\ want \in Int
  BY DEF ShellOK
<1> QED
  BY <1>1, <1>2, Drains, UiStep

LEMMA FlushTimerKeeps == ASSUME Bridge!BridgeAssumption, BridgeInv, Bridge!FlushTimer PROVE BridgeInv'
<1> USE DEF BridgeInv
<1>1. /\ "flush" \in Inputs /\ crashed' = (Bridge!Here /\ ~accepting)
      /\ IF Bridge!Here /\ accepting THEN Bridge!Post(Bridge!Task("flush", docHandle)) ELSE UNCHANGED Bridge!engineVars
      /\ UNCHANGED <<Bridge!coreVars, Bridge!shellVars, pending, turnInFlight, lastTurnDir, turnDone, uiCall, want>>
  BY DEF Bridge!FlushTimer
<1>2. crashed' \in BOOLEAN
  BY <1>1 DEF ShellOK, Bridge!Here
<1>3. CASE Bridge!Here /\ accepting
  <2>1. docHandle \in Bridge!Handles /\ docHandle \in Int /\ sess[docHandle] = "open"
    BY <1>3, Open DEF HandlesOK
  <2>2. queue' = Append(queue, Bridge!Task("flush", docHandle)) /\ UNCHANGED <<running, accepting>>
    BY <1>1, <1>3 DEF Bridge!Post
  <2>3. Bridge!Task("flush", docHandle) \in Tasks /\ MayPost(Bridge!Task("flush", docHandle))
    BY <1>1, <2>1 DEF Bridge!Task, Tasks, Ops, MayPost
  <2> QED
    BY <1>1, <1>2, <2>2, <2>3, UiStep DEF ShellOK
<1>4. CASE ~(Bridge!Here /\ accepting)
  BY <1>1, <1>2, <1>4, UiStep DEF ShellOK, Bridge!engineVars
<1> QED
  BY <1>3, <1>4

LEMMA UiCallKeeps ==
  ASSUME Bridge!BridgeAssumption, BridgeInv, Bridge!UiCallEnter \/ Bridge!UiCallReturn PROVE BridgeInv'
<1> USE DEF BridgeInv
<1>1. CASE Bridge!UiCallEnter
  <2>1. /\ docHandle # 0 /\ uiCall' = docHandle /\ "sheet" \in Inputs
        /\ UNCHANGED <<Bridge!coreVars, Bridge!shellVars, queue, running, accepting, pending, turnInFlight, lastTurnDir,
                       turnDone, crashed, want>>
    BY <1>1 DEF Bridge!UiCallEnter, Bridge!Input, Bridge!SupportExports, Bridge!session_mut, Bridge!engineVars
  <2>2. docHandle \in Bridge!Handles /\ sess[docHandle] = "open"
    BY <2>1, Open DEF Bridge!Here
  <2>3. uiCall' \in Bridge!Handles /\ sess[uiCall'] = "open"
    BY <2>1, <2>2
  <2> QED
    BY <2>1, <2>3, UiStep DEF ShellOK
<1>2. CASE Bridge!UiCallReturn
  <2>1. /\ uiCall' = 0 /\ crashed' \in BOOLEAN
        /\ UNCHANGED <<Bridge!coreVars, Bridge!shellVars, queue, running, accepting, pending, turnInFlight, lastTurnDir,
                       turnDone, want>>
    BY <1>2 DEF Bridge!UiCallReturn, Bridge!engineVars
  <2> QED
    BY <2>1, UiStep DEF ShellOK
<1> QED
  BY <1>1, <1>2

LEMMA LifeCycleKeeps ==
  ASSUME Bridge!BridgeAssumption, BridgeInv,
         Bridge!Pause \/ Bridge!Resume \/ Bridge!PickedDocument \/ Bridge!Destroy
  PROVE  BridgeInv'
<1> USE DEF BridgeInv
<1>1. UNCHANGED <<Bridge!coreVars, Bridge!shellVars, running, pending, turnInFlight, lastTurnDir, turnDone, uiCall, crashed,
                  want>>
  BY DEF Bridge!Pause, Bridge!Resume, Bridge!PickedDocument, Bridge!Destroy, Bridge!Post, Bridge!engineVars, Bridge!uiVars
<1>2. accepting' \in BOOLEAN
  BY DEF Bridge!Pause, Bridge!Resume, Bridge!PickedDocument, Bridge!Destroy, Bridge!Post, Bridge!engineVars, ShellOK
<1>3. queue' = queue \/ \E t \in Tasks : MayPost(t) /\ queue' = Append(queue, t)
  BY DEF Bridge!Pause, Bridge!Resume, Bridge!PickedDocument, Bridge!Destroy, Bridge!Post, Bridge!engineVars, Bridge!Input,
     Bridge!Task, Tasks, Ops, MayPost
<1> QED
  BY <1>1, <1>2, <1>3, UiStep DEF ShellOK

LEMMA BridgeBegins == ASSUME Bridge!BridgeAssumption, Bridge!Init PROVE BridgeInv
<1>1. PICK top \in Nat : Bridge!Pages = 0 .. top /\ Counts = 1 .. top + 1
  BY PagesAre
<1>2. Bridge!Blank \in Sessions
  BY <1>1 DEF Bridge!Blank, Sessions
<1>3. MaxHandle \in Nat \ {0} /\ \A h \in Bridge!Handles : h >= 1
  BY DEF Bridge!BridgeAssumption, Bridge!Handles
<1>4. HandlesOK
  <2>1. 0 \in 0 .. MaxHandle /\ \A h \in Bridge!Handles : sess[h] # "none" <=> h <= 0
    BY <1>3 DEF Bridge!Init, Bridge!Handles
  <2> QED
    BY <1>3, <2>1 DEF Bridge!Init, HandlesOK, Bridge!Handles
<1>5. SessionsOK
  BY <1>2 DEF Bridge!Init, SessionsOK
<1>6. ShellOK
  <2>1. /\ currentPage = 0 /\ pageCount = 0 /\ lastTurnDir = 1 /\ pending = 0 /\ want = -99
        /\ turnInFlight = FALSE /\ turnDone = FALSE /\ accepting = TRUE /\ crashed = FALSE
    BY DEF Bridge!Init, Bridge!Lost
  <2>2. 0 \in Bridge!Pages
    BY <1>1
  <2>3. turnInFlight \in BOOLEAN /\ turnDone \in BOOLEAN /\ accepting \in BOOLEAN /\ crashed \in BOOLEAN
    BY <2>1
  <2>4. lastTurnDir \in {-1, 1} /\ pending \in Int /\ want \in Int /\ pageCount \in Counts \cup {0}
    BY <2>1
  <2> QED
    BY <2>1, <2>2, <2>3, <2>4 DEF ShellOK
<1>7. Posted = {Bridge!Idle}
  BY DEF Bridge!Init, Posted
<1>8. TasksOK /\ CallsOK
  BY <1>3, <1>7 DEF Bridge!Init, TasksOK, CallsOK, Bridge!Idle
<1> QED
  BY <1>4, <1>5, <1>6, <1>8 DEF BridgeInv

(* BridgeInv is inductive. *)
LEMMA BridgeKeeps == ASSUME Bridge!BridgeAssumption, BridgeInv, [Bridge!Next]_Bridge!vars PROVE BridgeInv'
<1>1. CASE Bridge!Engine
  BY <1>1, TakeKeeps, JumpKeeps, SurfaceKeeps, ImportKeeps, CloseKeeps, PauseSaveKeeps, InkEditKeeps, FlushKeeps, ReflowKeeps,
     ViewKeeps, ReadKeeps, DefineKeeps DEF Bridge!Engine
<1>2. CASE Bridge!UiThread
  BY <1>2, PostInputKeeps, TapKeeps, TurnDoneKeeps, FlushTimerKeeps, UiCallKeeps, LifeCycleKeeps DEF Bridge!UiThread
<1>3. CASE UNCHANGED Bridge!vars
  BY <1>3 DEF Bridge!vars, Bridge!coreVars, Bridge!shellVars, Bridge!engineVars, Bridge!uiVars, BridgeInv, HandlesOK, SessionsOK,
     ShellOK, TasksOK, CallsOK, Posted
<1> QED
  BY <1>1, <1>2, <1>3 DEF Bridge!Next

(* BridgeInv holds throughout, whatever the inputs and failures. *)
THEOREM BridgeInvariance == ASSUME Bridge!BridgeAssumption PROVE Bridge!Spec => []BridgeInv
<1>1. Bridge!Init => BridgeInv
  BY BridgeBegins
<1>2. BridgeInv /\ [Bridge!Next]_Bridge!vars => BridgeInv'
  BY BridgeKeeps
<1> QED
  BY <1>1, <1>2, PTL DEF Bridge!Spec

(* The bridge's state keeps its shape. *)
THEOREM BridgeTypes == ASSUME Bridge!BridgeAssumption PROVE Bridge!Spec => []Bridge!TypeOK
<1>1. BridgeInv => Bridge!TypeOK
  <2> SUFFICES ASSUME BridgeInv PROVE Bridge!TypeOK
    OBVIOUS
  <2>1. \A h \in Bridge!Handles : core[h].page \in Bridge!Pages /\ core[h].ink \in {"clean", "dirty"}
    BY DEF BridgeInv, SessionsOK, Sessions
  <2>2. \A i \in 1 .. Len(queue) : queue[i].op # "idle"
    <3>1. queue \in Seq(Tasks)
      BY DEF BridgeInv, TasksOK
    <3>2. \A i \in 1 .. Len(queue) : queue[i] \in Tasks
      BY <3>1
    <3> QED
      BY <3>2 DEF Tasks, Ops
  <2>3. uiCall \in 0 .. MaxHandle
    BY DEF BridgeInv, CallsOK
  <2> QED
    BY <2>1, <2>2, <2>3 DEF BridgeInv, HandlesOK, ShellOK, Bridge!TypeOK
<1> QED
  BY <1>1, BridgeInvariance, PTL

(* A native call finds a live session in a shell where nothing closes a session in use, or in one     *)
(* that calls neither through a flush's captured handle nor from the UI thread: without one of the    *)
(* two it may not, see ReaderBridge.                                                                  *)
THEOREM HandleLive ==
  ASSUME Bridge!BridgeAssumption, Stays \/ ("flush" \notin Inputs /\ "sheet" \notin Inputs)
  PROVE  Bridge!Spec => []Bridge!LiveHandle
<1>1. BridgeInv => Bridge!LiveHandle
  <2> SUFFICES ASSUME BridgeInv PROVE Bridge!LiveHandle
    OBVIOUS
  <2>1. docHandle # 0 => sess[docHandle] = "open"
    BY Open DEF BridgeInv, Bridge!Here
  <2>2. dictHandle # 0 => dict = "open"
    BY DEF BridgeInv, HandlesOK
  <2>3. uiCall # 0 => sess[uiCall] = "open"
    BY DEF BridgeInv, CallsOK
  <2>4. running.op = "flush" => sess[running.arg] = "open"
    BY DEF BridgeInv, CallsOK, TasksOK, Posted
  <2> QED
    BY <2>1, <2>2, <2>3, <2>4 DEF Bridge!LiveHandle
<1> QED
  BY <1>1, BridgeInvariance, PTL

(* Only the field's session is open: after the teardown's close, none. *)
THEOREM NoneLeaked == ASSUME Bridge!BridgeAssumption PROVE Bridge!Spec => []Bridge!NoLeak
<1>1. BridgeInv => Bridge!NoLeak
  BY DEF BridgeInv, HandlesOK, Bridge!NoLeak
<1> QED
  BY <1>1, BridgeInvariance, PTL

(* A freed session was the field's, and was saved on the way out. *)
LEMMA FreedSaved ==
  ASSUME Bridge!BridgeAssumption, ~Failures, BridgeInv, [Bridge!Next]_Bridge!vars
  PROVE  Bridge!SavedBeforeFreeStep
<1> SUFFICES ASSUME NEW h \in Bridge!Handles, sess[h] = "open", sess'[h] = "freed"
             PROVE  core'[h].ink = "clean" /\ core'[h].saved = core'[h].page
  BY DEF Bridge!SavedBeforeFreeStep
<1>1. h = docHandle /\ Bridge!Here /\ h \in DOMAIN core
  BY DEF BridgeInv, HandlesOK, SessionsOK, Bridge!Here, Bridge!Handles
<1>2. sess' # sess
  OBVIOUS
<1>3. CASE Bridge!RunClose
  <2>1. PICK c \in Bridge!SavedForClose(Bridge!Session) : core' = [core EXCEPT ![docHandle] = c]
    BY <1>1, <1>3 DEF Bridge!RunClose
  <2>2. c.ink = "clean" /\ c.saved = c.page
    BY <1>1, <2>1, Open, ClosingSaves DEF BridgeInv
  <2> QED
    BY <1>1, <2>1, <2>2
<1>4. CASE Bridge!RunImport
  <2>1. PICK c \in Bridge!SavedForClose(Bridge!Session), o \in Bridge!nativeOpenDocumentWithStore :
          core' = [core EXCEPT ![docHandle] = c, ![Bridge!NextHandle] = o.c]
    BY <1>1, <1>4 DEF Bridge!RunImport
  <2>2. c.ink = "clean" /\ c.saved = c.page
    BY <1>1, <2>1, Open, ClosingSaves DEF BridgeInv
  <2>3. Bridge!NextHandle \in Bridge!Handles
    BY <1>4 DEF Bridge!RunImport
  <2>4. Bridge!NextHandle # docHandle
    BY <2>3, NextIsNew DEF BridgeInv
  <2> QED
    BY <1>1, <2>1, <2>2, <2>4
<1>5. CASE Bridge!RunSurface
  <2>1. ~Bridge!Here \/ sess' = sess
    BY <1>5 DEF Bridge!RunSurface
  <2> QED
    BY <1>1, <1>2, <2>1
<1>6. CASE UNCHANGED sess
  BY <1>2, <1>6
<1>7. \/ Bridge!RunClose \/ Bridge!RunImport \/ Bridge!RunSurface \/ UNCHANGED sess
  <2>1. CASE Bridge!Engine
    BY <2>1 DEF Bridge!Engine, Bridge!Take, Bridge!RunJump, Bridge!RunPauseSave, Bridge!RunInkEdit, Bridge!RunFlush,
       Bridge!RunReflow, Bridge!RunView, Bridge!RunRead, Bridge!RunDefine, Bridge!coreVars
  <2>2. CASE Bridge!UiThread
    BY <2>2 DEF Bridge!UiThread, Bridge!PostInput, Bridge!Tap, Bridge!TurnDone, Bridge!FlushTimer, Bridge!UiCallEnter,
       Bridge!UiCallReturn, Bridge!Pause, Bridge!Resume, Bridge!PickedDocument, Bridge!Destroy, Bridge!coreVars
  <2>3. CASE UNCHANGED Bridge!vars
    BY <2>3 DEF Bridge!vars, Bridge!coreVars
  <2> QED
    BY <2>1, <2>2, <2>3 DEF Bridge!Next
<1> QED
  BY <1>3, <1>4, <1>5, <1>6, <1>7

(* A session is freed with its ink on disk and its position saved, when no save fails. *)
THEOREM FreedClean ==
  ASSUME Bridge!BridgeAssumption, ~Failures PROVE Bridge!Spec => Bridge!SavedBeforeFree
<1>1. BridgeInv /\ [Bridge!Next]_Bridge!vars => Bridge!SavedBeforeFreeStep
  BY FreedSaved
<1> QED
  BY <1>1, BridgeInvariance, PTL DEF Bridge!Spec, Bridge!SavedBeforeFree

(* The turns asked for: one at a time, and the one asked for, or the page shown, and the taps waiting *)
(* add up to the page wanted.                                                                         *)
Turning == {t \in Posted : t.op = "turn"}

OneTurn ==
    /\ \A i, j \in DOMAIN queue : queue[i].op = "turn" /\ queue[j].op = "turn" => i = j
    /\ running.op = "turn" => \A i \in DOMAIN queue : queue[i].op # "turn"

LatchOK ==
    /\ turnInFlight <=> Turning # {} \/ turnDone
    /\ turnDone => Turning = {}
    /\ ~turnInFlight => pending = 0

(* The shell knows the session's page and count, and has not lost count of the taps. *)
Follows == docHandle # 0 /\ want # Bridge!Lost

WantOK ==
    /\ ~Bridge!Here => currentPage = 0 /\ pageCount = 0 /\ ~turnInFlight
    /\ Follows =>
         /\ currentPage = Bridge!Session.page /\ pageCount = Bridge!Session.pages
         /\ currentPage < pageCount /\ want \in 0 .. pageCount - 1
         /\ \A t \in Turning : t.arg + pending = want /\ t.arg \in 0 .. pageCount - 1
         /\ Turning = {} => currentPage + pending = want

TurnsInv == accepting /\ OneTurn /\ LatchOK /\ WantOK

(* The engine ends a task. *)
LEMMA EndTurns ==
  ASSUME queue \in Seq(Tasks), OneTurn, QueueGrows, running' = Bridge!Idle
  PROVE  OneTurn' /\ Turning' = IF running.op = "turn" THEN {} ELSE Turning
<1> USE DEF OneTurn, Turning
<1>1. running'.op # "turn"
  BY DEF Bridge!Idle
<1>2. CASE queue' = queue
  BY <1>1, <1>2 DEF Posted
<1>3. ASSUME NEW t \in Tasks, t.op = "prefetch", queue' = Append(queue, t)
      PROVE  OneTurn' /\ Turning' = IF running.op = "turn" THEN {} ELSE Turning
  <2>1. /\ DOMAIN queue' = DOMAIN queue \cup {Len(queue) + 1} /\ queue'[Len(queue) + 1] = t
        /\ \A i \in DOMAIN queue : queue'[i] = queue[i]
        /\ Posted' = {queue[i] : i \in DOMAIN queue} \cup {t, running'}
    BY <1>3, Posting
  <2> QED
    BY <1>1, <1>3, <2>1 DEF Posted
<1> QED
  BY <1>2, <1>3 DEF QueueGrows

(* It takes the first one. *)
LEMMA TakesTurn ==
  ASSUME queue \in Seq(Tasks), OneTurn, Bridge!Take PROVE OneTurn' /\ Turning' = Turning
<1>1. /\ running = Bridge!Idle /\ running' = queue[1] /\ 1 \in DOMAIN queue
      /\ \A i \in DOMAIN queue' : i + 1 \in DOMAIN queue /\ queue'[i] = queue[i + 1]
      /\ \A i \in DOMAIN queue : i # 1 => i - 1 \in DOMAIN queue' /\ queue'[i - 1] = queue[i]
      /\ DOMAIN queue \subseteq Nat /\ DOMAIN queue' \subseteq Nat /\ Posted' \subseteq Posted
  BY Taking
<1>2. OneTurn'
  <2>1. ASSUME NEW i \in DOMAIN queue', NEW j \in DOMAIN queue', queue'[i].op = "turn", queue'[j].op = "turn" PROVE i = j
    <3>1. i + 1 = j + 1
      BY <1>1, <2>1 DEF OneTurn
    <3> QED
      BY <1>1, <3>1
  <2>2. ASSUME running'.op = "turn", NEW i \in DOMAIN queue', queue'[i].op = "turn" PROVE FALSE
    <3>1. i + 1 = 1
      BY <1>1, <2>2 DEF OneTurn
    <3>2. DOMAIN queue' = 1 .. Len(queue')
      BY Taking
    <3> QED
      BY <1>1, <3>1, <3>2
  <2> QED
    BY <2>1, <2>2 DEF OneTurn
<1>3. ASSUME NEW t \in Posted, t.op = "turn" PROVE t \in Posted'
  <2>1. PICK i \in DOMAIN queue : t = queue[i]
    BY <1>1, <1>3 DEF Posted, Bridge!Idle
  <2>2. CASE i = 1
    <3>1. t = running'
      BY <1>1, <2>1, <2>2
    <3> QED
      BY <3>1 DEF Posted
  <2>3. CASE i # 1
    <3>1. PICK k \in DOMAIN queue' : queue'[k] = t
      BY <1>1, <2>1, <2>3
    <3> QED
      BY <3>1 DEF Posted
  <2> QED
    BY <2>2, <2>3
<1> QED
  BY <1>1, <1>2, <1>3 DEF Turning

(* The UI thread posts one. *)
LEMMA PostsTurn ==
  ASSUME queue \in Seq(Tasks), OneTurn, NEW t \in Tasks, queue' = Append(queue, t), running' = running,
         t.op = "turn" => Turning = {}
  PROVE  OneTurn' /\ Turning' = IF t.op = "turn" THEN {t} ELSE Turning
<1>1. /\ DOMAIN queue' = DOMAIN queue \cup {Len(queue) + 1} /\ queue'[Len(queue) + 1] = t
      /\ Len(queue) + 1 \notin DOMAIN queue /\ \A i \in DOMAIN queue : queue'[i] = queue[i]
      /\ Posted' = {queue[i] : i \in DOMAIN queue} \cup {t, running'}
  BY Posting
<1>2. Posted' = Posted \cup {t}
  BY <1>1 DEF Posted
<1>3. t.op = "turn" => running.op # "turn" /\ \A i \in DOMAIN queue : queue[i].op # "turn"
  BY DEF Turning, Posted
<1> QED
  BY <1>1, <1>2, <1>3 DEF OneTurn, Turning

(* A step that turns no page for the taps. *)
LEMMA Still ==
  ASSUME TurnsInv, OneTurn', Turning' = Turning, UNCHANGED <<accepting, pending, turnInFlight, turnDone, docHandle>>,
         want' \in {want, Bridge!Lost}, ~Bridge!Here => UNCHANGED <<currentPage, pageCount>>,
         Bridge!Here /\ want' # Bridge!Lost => /\ UNCHANGED <<currentPage, pageCount>>
                                               /\ Bridge!Session'.page = Bridge!Session.page
                                               /\ Bridge!Session'.pages = Bridge!Session.pages
  PROVE  TurnsInv'
<1>1. LatchOK'
  BY DEF TurnsInv, LatchOK
<1>2. WantOK'
  <2>1. Bridge!Here' <=> Bridge!Here
    BY DEF Bridge!Here
  <2>2. ~Bridge!Here => currentPage' = 0 /\ pageCount' = 0 /\ ~turnInFlight'
    BY DEF TurnsInv, WantOK
  <2>3. ASSUME Follows' PROVE Follows /\ Bridge!Here /\ want' # Bridge!Lost /\ want' = want
    BY <2>3 DEF Follows, Bridge!Here
  <2> QED
    BY <2>1, <2>2, <2>3 DEF TurnsInv, WantOK
<1> QED
  BY <1>1, <1>2 DEF TurnsInv

(* The engine's other tasks turn no page the taps count on. *)
LEMMA StillEngine ==
  ASSUME BridgeInv, TurnsInv, running.op # "turn", running' = Bridge!Idle, QueueGrows,
         UNCHANGED <<accepting, pending, turnInFlight, turnDone, docHandle>>,
         want' \in {want, Bridge!Lost}, ~Bridge!Here => UNCHANGED <<currentPage, pageCount>>,
         Bridge!Here /\ want' # Bridge!Lost => /\ UNCHANGED <<currentPage, pageCount>>
                                               /\ Bridge!Session'.page = Bridge!Session.page
                                               /\ Bridge!Session'.pages = Bridge!Session.pages
  PROVE  TurnsInv'
<1>1. OneTurn' /\ Turning' = Turning
  BY EndTurns DEF BridgeInv, TasksOK, TurnsInv
<1> QED
  BY <1>1, Still

(* The field's session after a change of it. *)
LEMMA SessionThen ==
  ASSUME SessionsOK, HandlesOK, Bridge!Here, NEW c, core' = [core EXCEPT ![docHandle] = c], docHandle' = docHandle
  PROVE  Bridge!Session' = c
<1>1. docHandle \in DOMAIN core
  BY Open DEF SessionsOK
<1> QED
  BY <1>1 DEF Bridge!Session

(* A jump the taps asked for lands where they add up to; a link gives up the count. *)
LEMMA JumpTurns ==
  ASSUME Bridge!BridgeAssumption, ~Failures, BridgeInv, TurnsInv, Bridge!RunJump PROVE TurnsInv'
<1> USE DEF BridgeInv, TurnsInv
<1>1. /\ running.op \in {"turn", "link"} /\ turnDone' = (turnDone \/ running.op = "turn")
      /\ UNCHANGED <<docHandle, accepting, pending, turnInFlight>>
      /\ want' = IF running.op = "link" THEN Bridge!Lost ELSE want
  BY DEF Bridge!RunJump, Bridge!Runs
<1>2. running \in Posted /\ (running.op = "turn" => running \in Turning)
  BY DEF Posted, Turning
<1>3. running.op = "turn" => turnInFlight /\ ~turnDone
  BY <1>2 DEF LatchOK
<1>4. CASE ~Bridge!Here
  <2>1. running' = Bridge!Idle /\ UNCHANGED <<currentPage, pageCount, queue>> /\ running.op = "link"
    BY <1>1, <1>3, <1>4 DEF Bridge!RunJump, WantOK
  <2>2. QueueGrows /\ turnDone' = turnDone
    BY <1>1, <2>1 DEF QueueGrows, LatchOK, ShellOK
  <2> QED
    BY <1>1, <1>4, <2>1, <2>2, StillEngine
<1>5. CASE Bridge!Here
  <2>1. PICK j \in Bridge!nativeJumpToPage(Bridge!Session, running.arg) :
          \E v \in Bridge!Shown(j.c, pageCount) :
            /\ Bridge!RenderAndBlit(v, pageCount)
            /\ \E s \in IF v.reject THEN {j} ELSE Bridge!nativeSavePosition(j.c) :
                 core' = [core EXCEPT ![docHandle] = s.c]
    BY <1>5 DEF Bridge!RunJump
  <2>2. PICK v \in Bridge!Shown(j.c, pageCount) :
            /\ Bridge!RenderAndBlit(v, pageCount)
            /\ \E s \in IF v.reject THEN {j} ELSE Bridge!nativeSavePosition(j.c) :
                 core' = [core EXCEPT ![docHandle] = s.c]
    BY <2>1
  <2>3. PICK s \in IF v.reject THEN {j} ELSE Bridge!nativeSavePosition(j.c) : core' = [core EXCEPT ![docHandle] = s.c]
    BY <2>2
  <2>4. running.arg \in Int /\ Bridge!Session \in Sessions /\ pageCount \in Counts \cup {0}
    BY <1>1, <1>5, Open DEF TasksOK, Tasks, Bridge!Idle, ShellOK
  <2>5. /\ j.c \in Sessions /\ j.c.pages = Bridge!Session.pages /\ j.c.page = Bridge!ClampPage(running.arg, Bridge!Session.pages)
        /\ j.c.page \in 0 .. Bridge!Session.pages - 1
    BY <2>1, <2>4, Jumps
  <2>6. s.c.page = j.c.page /\ s.c.pages = j.c.pages
    BY <2>3, <2>5, QuietCall
  <2>7. Bridge!Session.pages \in Nat
    BY <2>4 DEF Sessions, Counts
  <2>8. j.c.page < j.c.pages
    BY <2>5, <2>7
  <2>9. /\ currentPage' = j.c.page /\ pageCount' = pageCount /\ running' = Bridge!Idle /\ QueueGrows
    BY <2>2, <2>4, <2>5, <2>8, Blits
  <2>10. Bridge!Session' = s.c
    BY <1>1, <1>5, <2>3, SessionThen
  <2>11. CASE running.op = "link"
    <3>1. want' = Bridge!Lost /\ turnDone' = turnDone
      BY <1>1, <2>11 DEF LatchOK, ShellOK
    <3> QED
      BY <1>1, <1>5, <2>9, <2>11, <3>1, StillEngine
  <2>12. CASE running.op = "turn"
    <3>1. OneTurn' /\ Turning' = {}
      BY <2>9, <2>12, EndTurns DEF TasksOK
    <3>2. LatchOK'
      BY <1>1, <1>3, <2>12, <3>1 DEF LatchOK
    <3>3. want' = want
      BY <1>1, <2>12
    <3>4. ASSUME Follows'
          PROVE  /\ currentPage' = Bridge!Session'.page /\ pageCount' = Bridge!Session'.pages
                 /\ currentPage' < pageCount' /\ want' \in 0 .. pageCount' - 1
                 /\ currentPage' + pending' = want'
      <4>1. Follows
        BY <1>1, <3>3, <3>4 DEF Follows
      <4>2. /\ pageCount = Bridge!Session.pages /\ want \in 0 .. pageCount - 1
            /\ running.arg + pending = want /\ running.arg \in 0 .. pageCount - 1
        BY <1>2, <2>12, <4>1 DEF WantOK
      <4>3. Bridge!ClampPage(running.arg, Bridge!Session.pages) = running.arg
        BY <2>7, <4>2 DEF Bridge!ClampPage
      <4>4. currentPage' = running.arg
        BY <2>5, <2>9, <4>3
      <4> QED
        BY <1>1, <2>5, <2>6, <2>8, <2>9, <2>10, <3>3, <4>2, <4>4
    <3>5. WantOK'
      BY <1>1, <1>5, <3>1, <3>4 DEF WantOK, Bridge!Here
    <3> QED
      BY <1>1, <3>1, <3>2, <3>5
  <2> QED
    BY <1>1, <2>11, <2>12
<1> QED
  BY <1>4, <1>5

(* A book is opened at its page, with no tap waiting. *)
LEMMA OpensTurns ==
  ASSUME Bridge!BridgeAssumption, ~Failures, BridgeInv, TurnsInv, ~Bridge!Here, NEW n \in Bridge!Handles, running.op # "turn",
         Bridge!OpenBook(n, sess), UNCHANGED <<accepting, pending, turnInFlight, turnDone>>
  PROVE  TurnsInv'
<1> USE DEF BridgeInv, TurnsInv
<1>1. PICK o \in Bridge!nativeOpenDocumentWithStore :
        /\ want' = IF o.threw THEN Bridge!Lost ELSE o.c.page
        /\ IF o.threw
           THEN /\ docHandle' = 0 /\ sess' = sess
                /\ UNCHANGED <<core, currentPage, pageCount, lastPrefetched, queue, crashed>>
                /\ running' = Bridge!Idle
           ELSE /\ docHandle' = n /\ sess' = [sess EXCEPT ![n] = "open"]
                /\ \E a \in Bridge!nativeAttachInkStore(o.c) : \E m \in Bridge!MetadataExports(a.c) :
                     core' = [core EXCEPT ![n] = m.c]
                /\ \E v \in Bridge!Shown(o.c, o.c.pages) : Bridge!RenderAndBlit(v, o.c.pages)
  BY DEF Bridge!OpenBook
<1>2. o.c \in Sessions /\ ~o.threw /\ o.c.page < o.c.pages
  BY Opens
<1>3. PICK v \in Bridge!Shown(o.c, o.c.pages) : Bridge!RenderAndBlit(v, o.c.pages)
  BY <1>1, <1>2
<1>4. PICK a \in Bridge!nativeAttachInkStore(o.c) : \E m \in Bridge!MetadataExports(a.c) : core' = [core EXCEPT ![n] = m.c]
  BY <1>1, <1>2
<1>5. PICK m \in Bridge!MetadataExports(a.c) : core' = [core EXCEPT ![n] = m.c]
  BY <1>4
<1>6. a.c \in Sessions /\ a.c.page = o.c.page /\ a.c.pages = o.c.pages
  BY <1>2, <1>4, QuietCall
<1>7. m.c.page = o.c.page /\ m.c.pages = o.c.pages
  BY <1>5, <1>6, QuietCall
<1>8. docHandle' = n /\ n # 0 /\ Bridge!Session' = m.c /\ want' = o.c.page
  BY <1>1, <1>2, <1>5 DEF SessionsOK, Bridge!Session, Bridge!Handles
<1>9. o.c.pages \in Counts \cup {0} /\ o.c.pages \in Nat /\ o.c.page \in Nat
  BY <1>2, PagesAre DEF Sessions, Counts
<1>10. currentPage' = o.c.page /\ pageCount' = o.c.pages /\ running' = Bridge!Idle /\ QueueGrows
  <2>1. o.c.pages \in Counts \cup {0}
    BY <1>9
  <2>2. /\ currentPage' = v.page /\ pageCount' = o.c.pages /\ running' = Bridge!Idle /\ QueueGrows
        /\ ~Failures /\ o.c.page < o.c.pages => v.page = o.c.page
    BY <1>2, <1>3, <2>1, Blits
  <2> QED
    BY <1>2, <2>2
<1>11. OneTurn' /\ Turning' = Turning
  BY <1>10, EndTurns DEF TasksOK
<1>12. ~turnInFlight /\ pending = 0 /\ Turning = {} /\ ~turnDone
  BY DEF WantOK, LatchOK
<1>13. LatchOK'
  BY <1>11, <1>12 DEF LatchOK
<1>14. want' \in 0 .. pageCount' - 1 /\ currentPage' < pageCount' /\ currentPage' + pending' = want'
  BY <1>2, <1>8, <1>9, <1>10, <1>12
<1>15. WantOK'
  BY <1>7, <1>8, <1>10, <1>11, <1>12, <1>14 DEF WantOK, Bridge!Here
<1> QED
  BY <1>11, <1>13, <1>15

(* The engine's other tasks. *)
LEMMA EngineTurns ==
  ASSUME Bridge!BridgeAssumption, ~Failures, Stays, BridgeInv, TurnsInv, Bridge!Engine PROVE TurnsInv'
<1> USE DEF BridgeInv
<1> DEFINE Same == UNCHANGED <<accepting, pending, turnInFlight, turnDone, docHandle>>
           NoBlit == queue' = queue /\ UNCHANGED <<currentPage, pageCount>>
           SamePage == Bridge!Session'.page = Bridge!Session.page /\ Bridge!Session'.pages = Bridge!Session.pages
<1>1. CASE Bridge!Take
  <2>1. Same /\ UNCHANGED <<core, want, currentPage, pageCount>>
    BY <1>1 DEF Bridge!Take, Bridge!coreVars, Bridge!shellVars, Bridge!uiVars
  <2>2. OneTurn' /\ Turning' = Turning
    BY <1>1, TakesTurn DEF TasksOK, TurnsInv
  <2>3. SamePage
    BY <2>1 DEF Bridge!Session
  <2> QED
    BY <2>1, <2>2, <2>3, Still
<1>2. CASE Bridge!RunJump
  BY <1>2, JumpTurns
<1>3. CASE Bridge!RunSurface
  <2>1. running.op = "surface" /\ UNCHANGED <<accepting, pending, turnInFlight, turnDone>>
    BY <1>3 DEF Bridge!RunSurface, Bridge!Runs, Bridge!uiVars
  <2>2. CASE ~Bridge!Here /\ Bridge!NextHandle \in Bridge!Handles /\ Bridge!OpenBook(Bridge!NextHandle, sess)
    BY <2>1, <2>2, OpensTurns
  <2>3. CASE /\ ~Bridge!Here /\ running' = Bridge!Idle
             /\ UNCHANGED <<sess, core, docHandle, currentPage, pageCount, lastPrefetched, queue, crashed, want>>
    BY <2>1, <2>3, StillEngine DEF QueueGrows
  <2>4. CASE /\ Bridge!Here
             /\ \E r \in Bridge!nativeSetViewport(Bridge!Session) : \E v \in Bridge!Shown(r.c, pageCount) :
                  core' = [core EXCEPT ![docHandle] = r.c] /\ Bridge!RenderAndBlit(v, pageCount)
             /\ want' = Bridge!Lost /\ UNCHANGED <<sess, docHandle>>
    <3>1. PICK r \in Bridge!nativeSetViewport(Bridge!Session) : \E v \in Bridge!Shown(r.c, pageCount) :
                  Bridge!RenderAndBlit(v, pageCount)
      BY <2>4
    <3>2. r.c \in Sessions /\ pageCount \in Counts \cup {0}
      BY <2>4, <3>1, Open, Relayouts DEF ShellOK
    <3>3. QueueGrows /\ running' = Bridge!Idle
      BY <3>1, <3>2, Blits
    <3> QED
      BY <2>1, <2>4, <3>3, StillEngine
  <2> QED
    BY <1>3, <2>2, <2>3, <2>4 DEF Bridge!RunSurface
<1>4. ~Bridge!RunImport /\ ~Bridge!RunClose
  BY DEF Stays, TasksOK, Posted, Bridge!RunImport, Bridge!RunClose, Bridge!Runs
<1>5. CASE Bridge!RunPauseSave
  <2>1. /\ running.op = "pauseSave" /\ running' = Bridge!Idle /\ Same /\ NoBlit /\ want' = want
    BY <1>5 DEF Bridge!RunPauseSave, Bridge!Runs, Bridge!EndTask, Bridge!shellVars, Bridge!uiVars
  <2>2. ASSUME Bridge!Here PROVE SamePage
    <3>1. PICK i \in Bridge!nativeInkSave(Bridge!Session) : \E s \in Bridge!nativeSavePosition(i.c) :
            core' = [core EXCEPT ![docHandle] = s.c]
      BY <1>5, <2>2 DEF Bridge!RunPauseSave
    <3>2. PICK s \in Bridge!nativeSavePosition(i.c) : core' = [core EXCEPT ![docHandle] = s.c]
      BY <3>1
    <3>3. i.c \in Sessions /\ i.c.page = Bridge!Session.page /\ i.c.pages = Bridge!Session.pages
      BY <2>2, <3>1, Open, QuietCall
    <3>4. s.c.page = Bridge!Session.page /\ s.c.pages = Bridge!Session.pages
      BY <3>2, <3>3, QuietCall
    <3> QED
      BY <2>1, <2>2, <3>2, <3>4, SessionThen
  <2> QED
    BY <2>1, <2>2, StillEngine DEF QueueGrows
<1>6. CASE Bridge!RunInkEdit
  <2>1. /\ running.op = "inkEdit" /\ running' = Bridge!Idle /\ Same /\ NoBlit /\ want' = want
    BY <1>6 DEF Bridge!RunInkEdit, Bridge!Runs, Bridge!EndTask, Bridge!shellVars
  <2>2. ASSUME Bridge!Here PROVE SamePage
    <3>1. PICK e \in Bridge!InkStrokeExports(Bridge!Session) \cup Bridge!HistoryExports(Bridge!Session)
                     \cup Bridge!SelectionEditExports(Bridge!Session) \cup Bridge!SelectionReadExports(Bridge!Session) :
            core' = [core EXCEPT ![docHandle] = e.c]
      BY <1>6, <2>2 DEF Bridge!RunInkEdit
    <3>2. e.c.page = Bridge!Session.page /\ e.c.pages = Bridge!Session.pages
      BY <2>2, <3>1, Open, QuietCall
    <3> QED
      BY <2>1, <2>2, <3>1, <3>2, SessionThen
  <2> QED
    BY <2>1, <2>2, StillEngine DEF QueueGrows
<1>7. CASE Bridge!RunFlush
  <2>1. /\ running.op = "flush" /\ running' = Bridge!Idle /\ Same /\ NoBlit /\ want' = want
    BY <1>7 DEF Bridge!RunFlush, Bridge!Runs, Bridge!shellVars, Bridge!uiVars
  <2>2. running.arg \in Bridge!Handles /\ sess[running.arg] = "open"
    BY <2>1 DEF TasksOK, CallsOK, Posted
  <2>3. running.arg = docHandle
    BY <2>2 DEF HandlesOK
  <2>4. ASSUME Bridge!Here PROVE SamePage
    <3>1. PICK i \in Bridge!nativeInkSave(Bridge!Session) : core' = [core EXCEPT ![docHandle] = i.c]
      BY <1>7, <2>2, <2>3 DEF Bridge!RunFlush, Bridge!Session
    <3>2. i.c.page = Bridge!Session.page /\ i.c.pages = Bridge!Session.pages
      BY <2>4, <3>1, Open, QuietCall
    <3> QED
      BY <2>1, <2>4, <3>1, <3>2, SessionThen
  <2> QED
    BY <2>1, <2>4, StillEngine DEF QueueGrows
<1>8. CASE Bridge!RunReflow
  <2>1. running.op = "reflow" /\ Same
    BY <1>8 DEF Bridge!RunReflow, Bridge!Runs, Bridge!uiVars
  <2>2. CASE ~Bridge!Here
    <3>1. running' = Bridge!Idle /\ NoBlit /\ want' = want
      BY <1>8, <2>2 DEF Bridge!RunReflow
    <3> QED
      BY <2>1, <2>2, <3>1, StillEngine DEF QueueGrows
  <2>3. CASE Bridge!Here
    <3>1. PICK r \in Bridge!TypographyExports(Bridge!Session) \cup Bridge!nativeSetReflow(Bridge!Session) :
            /\ core' = [core EXCEPT ![docHandle] = r.c]
            /\ IF r.page >= 0
               THEN want' = Bridge!Lost /\ \E v \in Bridge!Shown(r.c, r.c.pages) : Bridge!RenderAndBlit(v, r.c.pages)
               ELSE /\ running' = Bridge!Idle
                    /\ UNCHANGED <<want, currentPage, pageCount, lastPrefetched, queue, crashed>>
      BY <1>8, <2>3 DEF Bridge!RunReflow
    <3>2. r.c \in Sessions /\ r.page \in Int /\ (r.page < 0 => r.c = Bridge!Session)
      BY <2>3, <3>1, Open, Relayouts
    <3>3. CASE r.page >= 0
      <4>1. PICK v \in Bridge!Shown(r.c, r.c.pages) : Bridge!RenderAndBlit(v, r.c.pages)
        BY <3>1, <3>3
      <4>2. r.c.pages \in Counts \cup {0} /\ want' = Bridge!Lost
        BY <3>1, <3>2, <3>3 DEF Sessions
      <4>3. QueueGrows /\ running' = Bridge!Idle
        BY <3>2, <4>1, <4>2, Blits
      <4> QED
        BY <2>1, <2>3, <4>2, <4>3, StillEngine
    <3>4. CASE ~(r.page >= 0)
      <4>1. SamePage
        <5>1. r.c = Bridge!Session
          BY <3>2, <3>4
        <5>2. Bridge!Session' = r.c
          BY <2>1, <2>3, <3>1, SessionThen
        <5> QED
          BY <5>1, <5>2
      <4>2. running' = Bridge!Idle /\ NoBlit /\ want' = want
        BY <3>1, <3>4
      <4> QED
        BY <2>1, <2>3, <4>1, <4>2, StillEngine DEF QueueGrows
    <3> QED
      BY <3>3, <3>4
  <2> QED
    BY <2>2, <2>3
<1>9. CASE Bridge!RunView
  <2>1. running.op = "view" /\ Same /\ want' = want
    BY <1>9 DEF Bridge!RunView, Bridge!Runs, Bridge!uiVars
  <2>2. CASE ~Bridge!Here
    <3>1. running' = Bridge!Idle /\ NoBlit
      BY <1>9, <2>2 DEF Bridge!RunView
    <3> QED
      BY <2>1, <2>2, <3>1, StillEngine DEF QueueGrows
  <2>3. CASE Bridge!Here
    <3>1. PICK r \in Bridge!ViewExports(Bridge!Session) : \E v \in Bridge!Shown(r.c, pageCount) :
            core' = [core EXCEPT ![docHandle] = r.c] /\ Bridge!RenderAndBlit(v, pageCount)
      BY <1>9, <2>3 DEF Bridge!RunView
    <3>2. PICK v \in Bridge!Shown(r.c, pageCount) :
            core' = [core EXCEPT ![docHandle] = r.c] /\ Bridge!RenderAndBlit(v, pageCount)
      BY <3>1
    <3>3. r.c \in Sessions /\ r.c.page = Bridge!Session.page /\ r.c.pages = Bridge!Session.pages /\ pageCount \in Counts \cup {0}
      BY <2>3, <3>1, Open, QuietCall DEF ShellOK
    <3>4. /\ currentPage' = v.page /\ pageCount' = pageCount /\ running' = Bridge!Idle /\ QueueGrows
          /\ r.c.page < r.c.pages => v.page = r.c.page
      BY <3>2, <3>3, Blits
    <3>5. SamePage
      BY <2>1, <2>3, <3>2, <3>3, SessionThen
    <3>6. want' # Bridge!Lost => UNCHANGED <<currentPage, pageCount>>
      BY <2>1, <2>3, <3>3, <3>4 DEF TurnsInv, WantOK, Follows, Bridge!Here
    <3> QED
      BY <2>1, <2>3, <3>4, <3>5, <3>6, StillEngine
  <2> QED
    BY <2>2, <2>3
<1>10. CASE Bridge!RunRead
  <2>1. /\ running.op # "turn" /\ running' = Bridge!Idle /\ Same /\ NoBlit /\ want' = want
    BY <1>10 DEF Bridge!RunRead, Bridge!Runs, Bridge!EndTask, Bridge!shellVars, Bridge!uiVars
  <2>2. ASSUME Bridge!Here PROVE SamePage
    <3>1. CASE UNCHANGED core
      BY <2>1, <3>1 DEF Bridge!Session
    <3>2. CASE \E r \in Bridge!nativePrefetchPage(Bridge!Session) \cup Bridge!nativeOnTrimMemory(Bridge!Session)
                              \cup Bridge!TextExports(Bridge!Session) \cup Bridge!NavigationExports(Bridge!Session)
                              \cup Bridge!InkReadExports(Bridge!Session) \cup Bridge!nativeExportPdf(Bridge!Session) :
                 core' = [core EXCEPT ![docHandle] = r.c]
      <4>1. PICK r \in Bridge!nativePrefetchPage(Bridge!Session) \cup Bridge!nativeOnTrimMemory(Bridge!Session)
                              \cup Bridge!TextExports(Bridge!Session) \cup Bridge!NavigationExports(Bridge!Session)
                              \cup Bridge!InkReadExports(Bridge!Session) \cup Bridge!nativeExportPdf(Bridge!Session) :
                 core' = [core EXCEPT ![docHandle] = r.c]
        BY <3>2
      <4>2. r.c.page = Bridge!Session.page /\ r.c.pages = Bridge!Session.pages
        BY <2>2, <4>1, Open, QuietCall
      <4> QED
        BY <2>1, <2>2, <4>1, <4>2, SessionThen
    <3> QED
      BY <1>10, <3>1, <3>2 DEF Bridge!RunRead, Bridge!Runs
  <2> QED
    BY <2>1, <2>2, StillEngine DEF QueueGrows
<1>11. CASE Bridge!RunDefine
  <2>1. /\ running.op = "define" /\ running' = Bridge!Idle /\ Same /\ NoBlit /\ want' = want /\ core' = core
    BY <1>11 DEF Bridge!RunDefine, Bridge!Runs, Bridge!EndTask, Bridge!uiVars
  <2>2. SamePage
    BY <2>1 DEF Bridge!Session
  <2> QED
    BY <2>1, <2>2, StillEngine DEF QueueGrows
<1> QED
  BY <1>1, <1>2, <1>3, <1>4, <1>5, <1>6, <1>7, <1>8, <1>9, <1>10, <1>11 DEF Bridge!Engine

(* Draining what accumulated asks for the page wanted, unless it is shown. *)
LEMMA DrainTurns ==
  ASSUME Bridge!BridgeAssumption, BridgeInv, TurnsInv, Turning = {}, NEW d \in Int, Bridge!FlushTurns(d),
         UNCHANGED <<Bridge!coreVars, Bridge!shellVars>>, turnDone' = FALSE, want' \in {want, want + d, Bridge!Lost},
         Bridge!Here /\ want' # Bridge!Lost => want # Bridge!Lost /\ currentPage + d = want' /\ want' \in 0 .. pageCount - 1
  PROVE  TurnsInv'
<1> USE DEF BridgeInv, TurnsInv, Bridge!coreVars, Bridge!shellVars
<1> DEFINE n == IF pageCount < 1 THEN 1 ELSE pageCount
           target == Bridge!ClampPage(currentPage + d, n)
           jumps == d # 0 /\ target # currentPage
<1>1. /\ pending' = 0 /\ turnInFlight' = jumps
      /\ IF jumps THEN queue' = Append(queue, Bridge!Task("turn", target)) /\ UNCHANGED <<running, accepting>>
                  ELSE UNCHANGED <<queue, running, accepting>>
  BY DEF Bridge!FlushTurns, Bridge!engineVars, Bridge!Post
<1>2. currentPage \in Nat /\ pageCount \in Nat
  <2>1. currentPage \in Bridge!Pages /\ pageCount \in Counts \cup {0}
    BY DEF ShellOK
  <2>2. PICK top \in Nat : Bridge!Pages = 0 .. top
    BY PagesAre
  <2> QED
    BY <2>1, <2>2 DEF Counts
<1>3. target \in Int /\ (~Bridge!Here => target = currentPage)
  <2>1. ~Bridge!Here => currentPage = 0 /\ pageCount = 0
    BY DEF WantOK
  <2> QED
    BY <1>2, <2>1 DEF Bridge!ClampPage
<1>4. Bridge!Here /\ want' # Bridge!Lost => target = want'
  BY <1>2 DEF Bridge!ClampPage
<1> HIDE DEF target, n
<1>5. Follows' => /\ Follows /\ Bridge!Here /\ want' # Bridge!Lost
  BY DEF Follows, Bridge!Here
<1>6. Follows => currentPage = Bridge!Session.page /\ pageCount = Bridge!Session.pages /\ currentPage < pageCount
  BY DEF WantOK
<1>7. Bridge!Session' = Bridge!Session
  BY DEF Bridge!Session
<1>8. /\ OneTurn' /\ accepting' /\ LatchOK' /\ Turning' = IF jumps THEN {Bridge!Task("turn", target)} ELSE {}
  <2>1. CASE jumps
    <3>1. Bridge!Task("turn", target) \in Tasks /\ Bridge!Task("turn", target).op = "turn"
      BY <1>3 DEF Bridge!Task, Tasks, Ops
    <3>2. OneTurn' /\ Turning' = {Bridge!Task("turn", target)}
      BY <1>1, <2>1, <3>1, PostsTurn DEF TasksOK
    <3>3. LatchOK'
      BY <1>1, <2>1, <3>2 DEF LatchOK
    <3> QED
      BY <1>1, <2>1, <3>2, <3>3
  <2>2. CASE ~jumps
    <3>1. OneTurn' /\ Turning' = {}
      BY <1>1, <2>2 DEF OneTurn, Turning, Posted
    <3>2. LatchOK'
      BY <1>1, <2>2, <3>1 DEF LatchOK
    <3> QED
      BY <1>1, <2>2, <3>1, <3>2
  <2> QED
    BY <2>1, <2>2
<1>9. ~Bridge!Here' => currentPage' = 0 /\ pageCount' = 0 /\ ~turnInFlight'
  <2>1. ~Bridge!Here' => ~Bridge!Here
    BY DEF Bridge!Here
  <2>2. ~Bridge!Here => currentPage = 0 /\ pageCount = 0
    BY DEF WantOK
  <2> QED
    BY <1>1, <1>3, <2>1, <2>2
<1>10. ASSUME Follows'
       PROVE  /\ currentPage' = Bridge!Session'.page /\ pageCount' = Bridge!Session'.pages
              /\ currentPage' < pageCount' /\ want' \in 0 .. pageCount' - 1
              /\ \A t \in Turning' : t.arg + pending' = want' /\ t.arg \in 0 .. pageCount' - 1
              /\ Turning' = {} => currentPage' + pending' = want'
  <2>1. target = want' /\ currentPage + d = want' /\ want' \in 0 .. pageCount - 1
    BY <1>4, <1>5, <1>10
  <2>2. CASE jumps
    <3>1. Turning' = {Bridge!Task("turn", target)} /\ Bridge!Task("turn", target).arg = want'
      BY <1>8, <2>1, <2>2 DEF Bridge!Task
    <3>2. want' + 0 = want'
      <4>1. \A k \in 0 .. pageCount - 1 : k + 0 = k
        BY <1>2
      <4> QED
        BY <2>1, <4>1
    <3>3. \A t \in Turning' : t.arg + pending' = want' /\ t.arg \in 0 .. pageCount' - 1
      BY <1>1, <2>1, <3>1, <3>2
    <3> QED
      BY <1>5, <1>6, <1>7, <1>10, <2>1, <3>1, <3>3
  <2>3. CASE ~jumps
    <3>1. Turning' = {} /\ currentPage' + pending' = want'
      BY <1>1, <1>2, <1>8, <2>1, <2>3
    <3> QED
      BY <1>5, <1>6, <1>7, <1>10, <2>1, <3>1
  <2> QED
    BY <2>2, <2>3
<1>11. WantOK'
  BY <1>9, <1>10 DEF WantOK
<1> QED
  BY <1>8, <1>11

LEMMA TapTurns ==
  ASSUME Bridge!BridgeAssumption, BridgeInv, TurnsInv, Bridge!Tap PROVE TurnsInv'
<1> USE DEF BridgeInv, TurnsInv
<1>1. PICK d \in {-1, 1} :
        /\ IF turnInFlight
           THEN pending' = pending + d /\ UNCHANGED <<turnInFlight, Bridge!engineVars, crashed>>
           ELSE Bridge!FlushTurns(pending + d)
        /\ want' = IF want # Bridge!Lost /\ want + d \in 0 .. pageCount - 1 THEN want + d ELSE Bridge!Lost
        /\ UNCHANGED <<Bridge!coreVars, Bridge!shellVars, turnDone>>
  BY DEF Bridge!Tap
<1>2. d \in Int /\ pending \in Int /\ want \in Int
  BY DEF ShellOK
<1>3. CASE ~turnInFlight
  <2>1. pending = 0 /\ Turning = {} /\ turnDone = FALSE
    BY <1>3 DEF LatchOK, ShellOK
  <2>2. Bridge!FlushTurns(d)
    BY <1>1, <1>2, <1>3, <2>1
  <2>3. turnDone' = FALSE /\ UNCHANGED <<Bridge!coreVars, Bridge!shellVars>>
    BY <1>1, <2>1
  <2>4. ASSUME Bridge!Here, want' # Bridge!Lost
        PROVE  want # Bridge!Lost /\ currentPage + d = want' /\ want' \in 0 .. pageCount - 1
    <3>1. want # Bridge!Lost /\ want' = want + d /\ want' \in 0 .. pageCount - 1
      BY <1>1, <2>4
    <3>2. Follows
      BY <2>4, <3>1 DEF Follows, Bridge!Here
    <3>3. currentPage + 0 = want /\ currentPage = Bridge!Session.page
      BY <2>1, <3>2 DEF WantOK
    <3>4. currentPage \in Int
      BY PagesAre DEF ShellOK
    <3> QED
      BY <3>1, <3>3, <3>4
  <2>5. want' \in {want, want + d, Bridge!Lost}
    BY <1>1
  <2> QED
    BY <1>2, <2>1, <2>2, <2>3, <2>4, <2>5, DrainTurns
<1>4. CASE turnInFlight
  <2>1. pending' = pending + d /\ UNCHANGED <<turnInFlight, queue, running, accepting, turnDone, core, docHandle, currentPage, pageCount>>
    BY <1>1, <1>4 DEF Bridge!engineVars, Bridge!coreVars, Bridge!shellVars
  <2>2. OneTurn' /\ Turning' = Turning /\ LatchOK'
    BY <1>4, <2>1 DEF OneTurn, Turning, Posted, LatchOK
  <2>3. Bridge!Session' = Bridge!Session /\ Bridge!Here
    BY <1>4, <2>1 DEF Bridge!Session, WantOK
  <2>4. ASSUME Follows'
        PROVE  /\ want' = want + d /\ want' \in 0 .. pageCount - 1 /\ Follows
    BY <1>1, <2>1, <2>4 DEF Follows
  <2>5. ASSUME Follows'
        PROVE  /\ currentPage = Bridge!Session.page /\ pageCount = Bridge!Session.pages /\ currentPage < pageCount
               /\ \A t \in Turning : t.arg + pending' = want' /\ t.arg \in 0 .. pageCount - 1
               /\ Turning = {} => currentPage + pending' = want'
    <3>1. Follows /\ want' = want + d
      BY <2>4, <2>5
    <3>2. /\ currentPage = Bridge!Session.page /\ pageCount = Bridge!Session.pages /\ currentPage < pageCount
          /\ \A t \in Turning : t.arg + pending = want /\ t.arg \in 0 .. pageCount - 1
          /\ Turning = {} => currentPage + pending = want
      BY <3>1 DEF WantOK
    <3>3. currentPage \in Int
      BY PagesAre DEF ShellOK
    <3>4. ASSUME NEW t \in Turning PROVE t.arg + pending' = want'
      <4>1. t.arg \in Int /\ t.arg + pending = want
        BY <3>2, <3>4
      <4> QED
        BY <1>2, <2>1, <3>1, <4>1
    <3>5. ASSUME Turning = {} PROVE currentPage + pending' = want'
      <4>1. currentPage + pending = want
        BY <3>2, <3>5
      <4> QED
        BY <1>2, <2>1, <3>1, <3>3, <4>1
    <3> QED
      BY <3>2, <3>4, <3>5
  <2>6. WantOK'
    BY <2>1, <2>2, <2>3, <2>4, <2>5 DEF WantOK, Bridge!Here
  <2> QED
    BY <2>1, <2>2, <2>6
<1> QED
  BY <1>3, <1>4

LEMMA UiTurns ==
  ASSUME Bridge!BridgeAssumption, Stays, BridgeInv, TurnsInv, Bridge!UiThread PROVE TurnsInv'
<1> USE DEF BridgeInv
<1>1. CASE Bridge!Tap
  BY <1>1, TapTurns
<1>2. CASE Bridge!TurnDone
  <2>1. /\ turnDone /\ turnDone' = FALSE /\ Bridge!FlushTurns(pending) /\ want' = want
        /\ UNCHANGED <<Bridge!coreVars, Bridge!shellVars>>
    BY <1>2 DEF Bridge!TurnDone
  <2>2. Turning = {} /\ pending \in Int
    BY <2>1 DEF TurnsInv, LatchOK, ShellOK
  <2>3. Bridge!Here /\ want' # Bridge!Lost => want # Bridge!Lost /\ currentPage + pending = want' /\ want' \in 0 .. pageCount - 1
    BY <2>1, <2>2 DEF TurnsInv, WantOK, Follows, Bridge!Here
  <2> QED
    BY <2>1, <2>2, <2>3, DrainTurns
<1>3. CASE \/ \E i \in Inputs : Bridge!PostInput(i)
           \/ Bridge!FlushTimer \/ Bridge!UiCallEnter \/ Bridge!UiCallReturn
           \/ Bridge!Pause \/ Bridge!Resume \/ Bridge!PickedDocument \/ Bridge!Destroy
  <2>1. ~Bridge!Destroy
    BY DEF Bridge!Destroy, Bridge!Input, Stays
  <2>2. UNCHANGED <<Bridge!coreVars, Bridge!shellVars, running, accepting, pending, turnInFlight, turnDone, want>>
    BY <1>3, <2>1 DEF Bridge!PostInput, Bridge!FlushTimer, Bridge!UiCallEnter, Bridge!UiCallReturn, Bridge!Pause, Bridge!Resume,
       Bridge!PickedDocument, Bridge!Post, Bridge!engineVars, Bridge!uiVars
  <2>3. queue' = queue \/ \E t \in Tasks : t.op # "turn" /\ queue' = Append(queue, t)
    <3>1. ASSUME NEW i \in Inputs, Bridge!PostInput(i) PROVE \E t \in Tasks : t.op # "turn" /\ queue' = Append(queue, t)
      <4>1. PICK top \in Nat : Bridge!Pages = 0 .. top
        BY PagesAre
      <4>2. CASE i \in {"surface", "inkEdit", "reflow", "view", "trim", "define", "lists", "export"} /\ Bridge!Post(Bridge!Task(i, 0))
        BY <4>2 DEF Bridge!Post, Bridge!Task, Tasks, Ops
      <4>3. CASE \E p \in Bridge!Pages : Bridge!Post(Bridge!Task("link", p))
        BY <4>1, <4>3 DEF Bridge!Post, Bridge!Task, Tasks, Ops
      <4>4. CASE Bridge!Post(Bridge!Task("search", docHandle))
        BY <4>4 DEF Bridge!Post, Bridge!Task, Tasks, Ops, HandlesOK
      <4> QED
        BY <3>1, <4>2, <4>3, <4>4 DEF Bridge!PostInput
    <3>2. CASE Bridge!FlushTimer
      <4>1. queue' = queue \/ queue' = Append(queue, Bridge!Task("flush", docHandle))
        BY <3>2 DEF Bridge!FlushTimer, Bridge!Post, Bridge!engineVars
      <4>2. Bridge!Task("flush", docHandle) \in Tasks /\ Bridge!Task("flush", docHandle).op # "turn"
        BY DEF Bridge!Task, Tasks, Ops, HandlesOK
      <4> QED
        BY <4>1, <4>2
    <3>3. CASE Bridge!UiCallEnter \/ Bridge!UiCallReturn \/ Bridge!Resume
      BY <3>3 DEF Bridge!UiCallEnter, Bridge!UiCallReturn, Bridge!Resume, Bridge!engineVars
    <3>4. CASE Bridge!Pause \/ Bridge!PickedDocument
      <4>1. queue' = Append(queue, Bridge!Task("pauseSave", 0)) \/ queue' = Append(queue, Bridge!Task("import", 0))
        BY <3>4 DEF Bridge!Pause, Bridge!PickedDocument, Bridge!Post
      <4>2. /\ Bridge!Task("pauseSave", 0) \in Tasks /\ Bridge!Task("pauseSave", 0).op # "turn"
            /\ Bridge!Task("import", 0) \in Tasks /\ Bridge!Task("import", 0).op # "turn"
        BY DEF Bridge!Task, Tasks, Ops
      <4> QED
        BY <4>1, <4>2
    <3> QED
      BY <1>3, <2>1, <3>1, <3>2, <3>3, <3>4
  <2>4. OneTurn' /\ Turning' = Turning
    <3>1. CASE queue' = queue
      BY <2>2, <3>1 DEF OneTurn, Turning, Posted, TurnsInv
    <3>2. ASSUME NEW t \in Tasks, t.op # "turn", queue' = Append(queue, t) PROVE OneTurn' /\ Turning' = Turning
      BY <2>2, <3>2, PostsTurn DEF TasksOK, TurnsInv
    <3> QED
      BY <2>3, <3>1, <3>2
  <2>5. Bridge!Session' = Bridge!Session /\ UNCHANGED <<docHandle, currentPage, pageCount>>
    BY <2>2 DEF Bridge!Session, Bridge!coreVars, Bridge!shellVars
  <2> QED
    BY <2>2, <2>4, <2>5, Still
<1> QED
  BY <1>1, <1>2, <1>3 DEF Bridge!UiThread

LEMMA TurnsBegin == ASSUME Bridge!Init PROVE TurnsInv
<1>1. /\ Posted = {Bridge!Idle} /\ Bridge!Idle.op = "idle" /\ queue = <<>> /\ running = Bridge!Idle
      /\ docHandle = 0 /\ currentPage = 0 /\ pageCount = 0 /\ pending = 0 /\ turnInFlight = FALSE /\ turnDone = FALSE
      /\ accepting = TRUE
  BY DEF Bridge!Init, Posted, Bridge!Idle
<1>2. Turning = {}
  BY <1>1 DEF Turning
<1> QED
  BY <1>1, <1>2 DEF TurnsInv, OneTurn, LatchOK, WantOK, Follows, Bridge!Here

(* Coalescing neither drops nor doubles a tap, for any pages and any other inputs that leave the book *)
(* open, when no call fails: at rest the session is on the page the taps add up to.                   *)
THEOREM TapsLand ==
  ASSUME Bridge!BridgeAssumption, ~Failures, Stays PROVE Bridge!Spec => []Bridge!TurnsLand
<1>1. Bridge!Init => TurnsInv
  BY TurnsBegin
<1>2. BridgeInv /\ TurnsInv /\ [Bridge!Next]_Bridge!vars => TurnsInv'
  <2> SUFFICES ASSUME BridgeInv, TurnsInv, [Bridge!Next]_Bridge!vars PROVE TurnsInv'
    OBVIOUS
  <2>1. CASE UNCHANGED Bridge!vars
    BY <2>1 DEF Bridge!vars, Bridge!coreVars, Bridge!shellVars, Bridge!engineVars, Bridge!uiVars, TurnsInv, OneTurn, LatchOK,
       WantOK, Follows, Turning, Posted, Bridge!Session, Bridge!Here
  <2> QED
    BY <2>1, EngineTurns, UiTurns DEF Bridge!Next
<1>3. BridgeInv /\ TurnsInv => Bridge!TurnsLand
  <2> SUFFICES ASSUME BridgeInv, TurnsInv, Bridge!AtRest, Bridge!Here, want # Bridge!Lost PROVE Bridge!Session.page = want
    BY DEF Bridge!TurnsLand
  <2>1. Follows /\ Turning = {} /\ pending = 0
    BY DEF Follows, Bridge!Here, Bridge!AtRest, TurnsInv, LatchOK
  <2>2. currentPage \in Int
    BY PagesAre DEF BridgeInv, ShellOK
  <2> QED
    BY <2>1, <2>2 DEF TurnsInv, WantOK
<1> QED
  BY <1>1, <1>2, <1>3, BridgeInvariance, PTL DEF Bridge!Spec

=============================================================================
